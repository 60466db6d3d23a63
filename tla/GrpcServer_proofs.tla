------------------------- MODULE GrpcServer_proofs -------------------------
(***************************************************************************)
(* The shutdown of gRPC mode, for every set of workers and any number of   *)
(* signals: what a call in progress uses outlives it, and the process      *)
(* never returns from main() under a call.                                 *)
(***************************************************************************)
EXTENDS GrpcServer, TLAPS

(***************************************************************************)
(* Why: where main() is says what exists. gRPC runs from the moment start()*)
(* returns until Wait() does, and Wait() returns only when no call is in   *)
(* progress; the handler is destroyed, and the logger dropped, after that. *)
(* A main() that is stuck in its signal handler stays wherever it was, so  *)
(* of that position only the relation of the objects is known.             *)
(***************************************************************************)
Up == {"announce", "poll", "closing", "stop"}      \* start() has returned
Built == Up \cup {"start", "wait", "closed", "failed", "destroy"}
Down == {"boot", "start", "failed", "closed", "destroy", "destroyed", "ending",
         "exited", "crashed"}

Phase ==
  /\ main \in Up => server = "serving"
  /\ main = "wait" => server = "draining"
  /\ main \in Down => server = "none"
  /\ main \in Built => handler
  /\ main \notin {"ending", "exited", "crashed"} => logger

Objects ==
  /\ running <=> server # "none"
  /\ server # "none" => handler /\ logger
  /\ server = "none" => busy = {}

IInv == TypeOK /\ Phase /\ Objects

-----------------------------------------------------------------------------
\* Before main() builds the server there is nothing a call could use.
LEMMA InitIInv == Init => IInv
<1> SUFFICES ASSUME Init PROVE IInv
  OBVIOUS
<1>1. TypeOK
  <2>1. signals \in 0 .. MaxSignals
    BY ServerAssumption DEF Init
  <2> QED
    BY <2>1 DEF Init, TypeOK, Positions, Logging, Ended
<1>2. Phase /\ Objects
  BY <1>1 DEF Init, TypeOK, Phase, Objects, Up, Built, Down
<1> QED
  BY <1>1, <1>2 DEF IInv

\* main() builds the server object and starts gRPC.
LEMMA StartStep ==
  ASSUME IInv, Build \/ Started \/ StartFails \/ Logged \/ Noticed
  PROVE  IInv'
<1> USE DEF IInv, TypeOK, Phase, Objects, Positions, Logging, Ended, Up, Built,
            Down, calls
<1>1. CASE Build
  BY <1>1 DEF Build
<1>2. CASE Started
  BY <1>2 DEF Started
<1>3. CASE StartFails
  BY <1>3 DEF StartFails
<1>4. CASE Logged
  <2>1. \/ main = "announce" /\ main' = "poll"
        \/ main = "closing" /\ main' = "stop"
        \/ main = "closed" /\ main' = "destroy"
    BY <1>4 DEF Logged, After
  <2> QED
    BY <1>4, <2>1 DEF Logged
<1>5. CASE Noticed
  BY <1>5 DEF Noticed
<1> QED
  BY <1>1, <1>2, <1>3, <1>4, <1>5

\* main() stops gRPC, destroys the server object and drops the logger.
LEMMA StopStep ==
  ASSUME IInv, Shutdown \/ Drained \/ Abandon \/ Destroy \/ ShutdownLogger \/ Exit
  PROVE  IInv'
<1> USE DEF IInv, TypeOK, Phase, Objects, Positions, Logging, Ended, Up, Built,
            Down, calls
<1>1. CASE Shutdown
  BY <1>1 DEF Shutdown
<1>2. CASE Drained
  BY <1>2 DEF Drained
<1>3. CASE Abandon
  BY <1>3 DEF Abandon
<1>4. CASE Destroy
  BY <1>4 DEF Destroy
<1>5. CASE ShutdownLogger
  BY <1>5 DEF ShutdownLogger
<1>6. CASE Exit
  BY <1>6 DEF Exit
<1> QED
  BY <1>1, <1>2, <1>3, <1>4, <1>5, <1>6

\* A signal is taken; without a logger main() has nothing left but to end.
LEMMA SignalStep ==
  ASSUME IInv, Signal \/ SignalInLog \/ SignalWithoutLogger
  PROVE  IInv'
<1> USE ServerAssumption DEF IInv, TypeOK, Phase, Objects, Positions, Logging, Ended,
        Up, Built, Down, calls, Interruptible
<1>1. CASE Signal
  BY <1>1 DEF Signal
<1>2. CASE SignalInLog
  BY <1>2 DEF SignalInLog
<1>3. CASE SignalWithoutLogger
  BY <1>3 DEF SignalWithoutLogger
<1> QED
  BY <1>1, <1>2, <1>3

\* A call begins only while gRPC serves, and may end at any time.
LEMMA CallStep ==
  ASSUME IInv, NEW w \in Workers, CallBegins(w) \/ CallEnds(w)
  PROVE  IInv'
<1> USE DEF IInv, TypeOK, Phase, Objects
<1>1. CASE CallBegins(w)
  BY <1>1 DEF CallBegins
<1>2. CASE CallEnds(w)
  BY <1>2 DEF CallEnds
<1> QED
  BY <1>1, <1>2

\* Every step of the process keeps the invariant.
LEMMA NextIInv == IInv /\ [Next]_vars => IInv'
<1>1. CASE UNCHANGED vars
  BY <1>1 DEF vars, IInv, TypeOK, Phase, Objects
<1>2. CASE Next
  BY <1>2, StartStep, StopStep, SignalStep, CallStep DEF Next, Main
<1> QED
  BY <1>1, <1>2

\* The invariant holds in every reachable state.
LEMMA Invariance == Spec => []IInv
BY InitIInv, NextIInv, PTL DEF Spec

-----------------------------------------------------------------------------
(***************************************************************************)
(* The state of main() and of MCPGrpcServer stays within its types.        *)
(***************************************************************************)
THEOREM TypeCorrect == Spec => []TypeOK
<1>1. IInv => TypeOK
  BY DEF IInv
<1> QED
  BY <1>1, Invariance, PTL

(***************************************************************************)
(* A method that runs finds the handler, its Kafka clients and the logger, *)
(* at whatever moment of start and shutdown, and whatever signals arrive:  *)
(* Shutdown() and Wait() in stop() come before the destruction.            *)
(***************************************************************************)
THEOREM CallsAreOutlived == Spec => []CallsOutlived
<1>1. IInv => CallsOutlived
  BY DEF IInv, Objects, CallsOutlived
<1> QED
  BY <1>1, Invariance, PTL

(***************************************************************************)
(* When main() returns no call is in progress and gRPC is down.            *)
(***************************************************************************)
THEOREM NoCallIsCutOff == Spec => []NoCallCutOff
<1>1. IInv => NoCallCutOff
  BY DEF IInv, Phase, Objects, Down, NoCallCutOff
<1> QED
  BY <1>1, Invariance, PTL
=============================================================================
