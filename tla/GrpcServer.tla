----------------------------- MODULE GrpcServer -----------------------------
(***************************************************************************)
(* The process in gRPC mode: main(), its signal handler, MCPGrpcServer and *)
(* the worker threads that run the methods of MCPHandler.                  *)
(*                                                                         *)
(* main() builds the server object (and with it the handler and its Kafka  *)
(* clients), starts gRPC, polls g_shutdown, stops gRPC, which lets the     *)
(* calls in progress finish, destroys the object and shuts the logger      *)
(* down. A signal runs signal_handler() on top of whatever main() is       *)
(* doing; the handler logs before it sets the flag. A position at which    *)
(* main() writes to the log is one at which it may hold the sink's mutex.  *)
(* (The kernel gives a process signal to the main thread if it can.)       *)
(***************************************************************************)
EXTENDS Naturals

CONSTANTS
  Workers,       \* gRPC threads
  MaxSignals     \* bound on the signals taken, for model checking

ASSUME ServerAssumption == MaxSignals \in Nat

VARIABLES
  main,      \* where main() is
  shutdown,  \* g_shutdown
  signals,   \* signals taken so far
  running,   \* running_ of MCPGrpcServer
  server,    \* grpc_server_: none, serving, or draining after Shutdown()
  handler,   \* whether mcp_handler_ exists
  logger,    \* whether spdlog has its default logger
  busy,      \* the workers that are inside a method of the handler
  endless    \* those whose call asks Kafka to wait for ever (timeout_ms -1)

calls == <<busy, endless>>
vars == <<main, shutdown, signals, running, server, handler, logger, busy, endless>>

Logging == {"boot", "announce", "failed", "closing", "closed", "destroy",
            "destroyed"}
Ended == {"exited", "stuck", "crashed"}
Positions == Logging \cup Ended \cup {"start", "poll", "stop", "wait", "ending"}

\* Logger::init() has run and the signal handlers are installed.
Init ==
  /\ main = "boot" /\ shutdown = FALSE /\ signals = 0
  /\ running = FALSE /\ server = "none" /\ handler = FALSE /\ logger = TRUE
  /\ busy = {} /\ endless = {}

-----------------------------------------------------------------------------
(* main(). *)
Build ==
  /\ main = "boot"
  /\ handler' = TRUE
  /\ main' = "start"
  /\ UNCHANGED <<shutdown, signals, running, server, logger, calls>>

\* Mutant: start() does not set running_.
Started_NotRunning ==
  /\ main = "start"
  /\ server' = "serving"
  /\ main' = "announce"
  /\ UNCHANGED <<shutdown, signals, running, handler, logger, calls>>

Started ==
  /\ main = "start"
  /\ server' = "serving" /\ running' = TRUE
  /\ main' = "announce"
  /\ UNCHANGED <<shutdown, signals, handler, logger, calls>>

\* BuildAndStart() returns null: the address is taken.
StartFails ==
  /\ main = "start"
  /\ main' = "failed"
  /\ UNCHANGED <<shutdown, signals, running, server, handler, logger, calls>>

\* main() has logged what it is about to do, or has done.
After == [announce |-> "poll", closing |-> "stop", closed |-> "destroy"]
Logged ==
  /\ main \in DOMAIN After
  /\ main' = After[main]
  /\ UNCHANGED <<shutdown, signals, running, server, handler, logger, calls>>

\* while (!g_shutdown.load()) ends; stop() returns at once when it is not running.
Noticed ==
  /\ main = "poll" /\ shutdown
  /\ main' = IF running THEN "closing" ELSE "closed"
  /\ UNCHANGED <<shutdown, signals, running, server, handler, logger, calls>>

\* Mutant: a server state that nothing else knows.
Shutdown_Unknown ==
  /\ main = "stop"
  /\ server' = "stopping"
  /\ main' = "wait"
  /\ UNCHANGED <<shutdown, signals, running, handler, logger, calls>>

\* Shutdown() refuses new calls from now on, and blocks until none is in progress.
Shutdown ==
  /\ main = "stop"
  /\ server' = "draining"
  /\ main' = "wait"
  /\ UNCHANGED <<shutdown, signals, running, handler, logger, calls>>

\* Mutant: Shutdown() with a deadline, and no Wait().
Drained_AtDeadline ==
  /\ main = "wait"
  /\ server' = "none" /\ running' = FALSE
  /\ main' = "closed"
  /\ UNCHANGED <<shutdown, signals, handler, logger, calls>>

Drained ==
  /\ main = "wait" /\ busy = {}
  /\ server' = "none" /\ running' = FALSE
  /\ main' = "closed"
  /\ UNCHANGED <<shutdown, signals, handler, logger, calls>>

\* Start failed: the server object is destroyed, and main() returns.
Abandon ==
  /\ main = "failed"
  /\ handler' = FALSE
  /\ main' = "exited"
  /\ UNCHANGED <<shutdown, signals, running, server, logger, calls>>

(***************************************************************************)
(* ~MCPGrpcServer: its stop() finds nothing running; the handler and its   *)
(* Kafka clients are destroyed, and log that.                              *)
(***************************************************************************)
Destroy ==
  /\ main = "destroy"
  /\ handler' = FALSE
  /\ main' = "destroyed"
  /\ UNCHANGED <<shutdown, signals, running, server, logger, calls>>

\* Logger::shutdown() logs that, and drops the default logger.
ShutdownLogger ==
  /\ main = "destroyed"
  /\ logger' = FALSE
  /\ main' = "ending"
  /\ UNCHANGED <<shutdown, signals, running, server, handler, calls>>

Exit ==
  /\ main = "ending"
  /\ main' = "exited"
  /\ UNCHANGED <<shutdown, signals, running, server, handler, logger, calls>>

-----------------------------------------------------------------------------
(***************************************************************************)
(* signal_handler() interrupts main(). It logs first: it never returns     *)
(* when main() holds the mutex of the sink, and dereferences null when the *)
(* logger is gone.                                                         *)
(***************************************************************************)
Interruptible == main \notin Ended /\ signals < MaxSignals

Signal ==
  /\ Interruptible /\ logger
  /\ shutdown' = TRUE
  /\ signals' = signals + 1
  /\ UNCHANGED <<main, running, server, handler, logger, calls>>

SignalInLog ==
  /\ Interruptible /\ main \in Logging
  /\ main' = "stuck"
  /\ signals' = signals + 1
  /\ UNCHANGED <<shutdown, running, server, handler, logger, calls>>

SignalWithoutLogger ==
  /\ Interruptible /\ ~logger
  /\ main' = "crashed"
  /\ signals' = signals + 1
  /\ UNCHANGED <<shutdown, running, server, handler, logger, calls>>

-----------------------------------------------------------------------------
(* gRPC and its workers. *)
\* Mutant: new calls are let in while the server drains.
CallBegins_WhileDraining(w) ==
  /\ main \notin {"exited", "crashed"}
  /\ server \in {"serving", "draining"} /\ w \notin busy
  /\ busy' = busy \cup {w}
  /\ endless' \in {endless, endless \cup {w}}
  /\ UNCHANGED <<main, shutdown, signals, running, server, handler, logger>>

CallBegins(w) ==
  /\ main \notin {"exited", "crashed"}
  /\ server = "serving" /\ w \notin busy
  /\ busy' = busy \cup {w}
  /\ endless' \in {endless, endless \cup {w}}
  /\ UNCHANGED <<main, shutdown, signals, running, server, handler, logger>>

\* The method returned its status, and the client has its answer.
CallEnds(w) ==
  /\ main \notin {"exited", "crashed"}
  /\ w \in busy
  /\ busy' = busy \ {w} /\ endless' = endless \ {w}
  /\ UNCHANGED <<main, shutdown, signals, running, server, handler, logger>>

Main ==
  \/ Build \/ Started \/ StartFails \/ Logged \/ Noticed \/ Shutdown
  \/ Drained \/ Abandon \/ Destroy \/ ShutdownLogger \/ Exit

Next ==
  \/ Main
  \/ Signal \/ SignalInLog \/ SignalWithoutLogger
  \/ \E w \in Workers : CallBegins(w) \/ CallEnds(w)

Spec == Init /\ [][Next]_vars

(***************************************************************************)
(* main() goes on and looks at the flag every 200 ms; a call ends, since   *)
(* every wait in a tool has a timeout, unless its client asked for one     *)
(* without end. Nobody need call or send a signal.                         *)
(***************************************************************************)
FairSpec ==
  /\ Spec /\ WF_vars(Main)
  /\ \A w \in Workers : WF_vars(CallEnds(w) /\ w \notin endless)

-----------------------------------------------------------------------------
TypeOK ==
  /\ main \in Positions /\ shutdown \in BOOLEAN /\ signals \in 0 .. MaxSignals
  /\ running \in BOOLEAN /\ server \in {"none", "serving", "draining"}
  /\ handler \in BOOLEAN /\ logger \in BOOLEAN
  /\ busy \subseteq Workers /\ endless \subseteq busy

(***************************************************************************)
(* While a call is in progress the handler, its Kafka clients and the      *)
(* logger exist, however the shutdown and the calls interleave.            *)
(***************************************************************************)
CallsOutlived == busy # {} => handler /\ logger /\ server # "none"

(***************************************************************************)
(* The process never ends under a call: each call that began is answered.  *)
(***************************************************************************)
NoCallCutOff == main = "exited" => busy = {} /\ server = "none"

(***************************************************************************)
(* Once a signal was taken, main() comes to an end, whatever calls are in  *)
(* progress: it exits, unless a signal met it in the logger or after it.   *)
(* Only endless calls can hold it back, since Shutdown() has no deadline.  *)
(***************************************************************************)
HeldBack == main = "wait" /\ busy # {} /\ busy = endless
SignalEndsMain == (signals > 0) ~> (main \in Ended \/ HeldBack)

(***************************************************************************)
(* What the log message of the signal handler announces: a graceful        *)
(* shutdown. Once a signal was taken, the process exits, by itself.        *)
(***************************************************************************)
GracefulShutdown == (signals > 0) ~> (main = "exited")
=============================================================================
