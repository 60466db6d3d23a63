---------------------------- MODULE StdioProduce ----------------------------
(***************************************************************************)
(* The stdio transport and the KafkaProducer of its tools/call, composed.  *)
(*                                                                         *)
(* Each tools/call builds an MCPDispatcher, and with it a producer, calls  *)
(* one tool, and destroys both before the answer is written. What modules  *)
(* StdioTransport and KafkaProducer leave to choice is decided here by the *)
(* other one: the outcome of the tool by produce(), the calls and the life *)
(* of the producer by the one thread of the transport. librdkafka and the  *)
(* broker go on beside them.                                               *)
(***************************************************************************)
EXTENDS StdioTransport

CONSTANTS
  Loop,      \* the thread in StdioTransport::run()
  Messages,  \* the writes the client wants done
  QueueMax,  \* queue.buffering.max.messages of librdkafka
  None       \* no message

VARIABLES
  phase, connected, producer, stage, arg, resp, fate, wire, logged,
  write      \* the message of the tools/call in hand, or None for other tools

produce == <<phase, connected, producer, stage, arg, resp, fate, wire, logged>>
composed == <<vars, produce, write>>

P == INSTANCE KafkaProducer WITH Callers <- {Loop}, pc <- stage

InitComposed == Init /\ P!Init /\ write = None

-----------------------------------------------------------------------------
(* handle_call_tool(), with the constructor of MCPDispatcher. *)
Offers == IF line.kind = "call" THEN {m \in Messages : fate[m] \in P!Open} ELSE {}

OpenCall ==
  /\ OpenDispatcher /\ P!Construct
  /\ write' \in Offers \cup {None}

\* producer_->connect(), whose result nobody looks at: it may also fail.
ConnectProducer ==
  /\ pc = "dispatch" /\ P!Connect
  /\ UNCHANGED <<vars, write>>

\* Another tool, or arguments that are refused before produce() is called.
OtherOutcome ==
  /\ stage[Loop] = "idle" /\ Dispatch
  /\ write # None => reply' = none
  /\ UNCHANGED <<produce, write>>

\* produce() is called, connects if the constructor could not, and queues.
CallProduce ==
  /\ pc = "dispatch" /\ write # None
  /\ P!BeginProduce(Loop, write)
  /\ UNCHANGED <<vars, write>>

ConnectAgain ==
  /\ P!ResetProducer(Loop) \/ P!Connected(Loop)
  /\ UNCHANGED <<vars, write>>

QueueMessage == P!Enqueue(Loop) /\ UNCHANGED <<vars, write>>

ProduceSucceeds == P!Poll(Loop) /\ Dispatch /\ Succeeds /\ UNCHANGED write

\* produce() returns an error.
Refused == P!ConfRefused(Loop) \/ P!NotConnected(Loop) \/ P!EnqueueRefused(Loop)

\* Mutant: dispatch_produce_message() does not look at result.success.
ProduceFails_AsSuccess ==
  /\ Refused
  /\ Dispatch /\ Succeeds
  /\ UNCHANGED write

ProduceFails ==
  /\ Refused
  /\ Dispatch /\ Fails
  /\ UNCHANGED write

(* ~MCPDispatcher. *)
BeginClose == pc = "leave" /\ producer /\ P!Disconnect /\ UNCHANGED <<vars, write>>
ServeReports == pc = "leave" /\ P!FlushServe /\ UNCHANGED <<vars, write>>

\* Mutant: the dispatcher is made with new and never deleted.
CloseCall_Leaks == CloseDispatcher /\ UNCHANGED <<produce, write>>

CloseCall ==
  /\ CloseDispatcher
  /\ P!FlushDrained \/ P!FlushTimesOut \/ (~producer /\ P!Disconnect)
  /\ UNCHANGED write

Tool ==
  \/ OpenCall \/ ConnectProducer \/ OtherOutcome
  \/ CallProduce \/ ConnectAgain \/ QueueMessage \/ ProduceSucceeds \/ ProduceFails
  \/ BeginClose \/ ServeReports \/ CloseCall

-----------------------------------------------------------------------------
\* The steps of run() and handle_message() that meet no Kafka client.
Elsewhere ==
  \/ EndOfInput \/ Skip \/ ParseError \/ ParseDies \/ Parsed
  \/ HandleAtOnce \/ HandleInitialized \/ HandleThrows
  \/ Write \/ WriteThrows \/ Rescue

Thread == Tool \/ (Elsewhere /\ UNCHANGED <<produce, write>>)

NextComposed ==
  \/ Thread
  \/ CloseStdin /\ UNCHANGED <<produce, write>>
  \/ ReadLine /\ UNCHANGED produce /\ write' = None
  \/ (\E m \in Messages : P!Kafka(m)) /\ UNCHANGED <<vars, write>>

ComposedSpec == InitComposed /\ [][NextComposed]_composed

(***************************************************************************)
(* The thread goes on: flush() gives up after 5 s, and only an endless     *)
(* call waits for ever. Nothing is assumed of Kafka or of the client.      *)
(***************************************************************************)
FairComposedSpec == ComposedSpec /\ WF_composed(Thread /\ ~Waiting)

-----------------------------------------------------------------------------
(***************************************************************************)
(* The answer of a tools/call comes after the outcome: when anything is    *)
(* written to stdout, or the next line is read, no message is waiting for  *)
(* its delivery report any more. So the queue of reports nobody serves,    *)
(* which wedges the producer of the gRPC server, cannot build up here.     *)
(***************************************************************************)
SettledBeforeAnswer ==
  [][answers' # answers \/ taken' # taken => P!Held = {} /\ ~producer]_composed

(***************************************************************************)
(* What the answer to produce_message tells: a result, that the message    *)
(* was taken over and is settled, delivered or not; an error result, that  *)
(* it is nowhere near the topic. INTERNAL_ERROR tells nothing: arguments   *)
(* were refused before produce(), or a result could not be written.        *)
(***************************************************************************)
AnswersTellFate ==
  [][answers' # answers /\ write # None =>
       LET code == answers'[Len(answers')].code IN
       /\ code = "result" => fate[write] \in P!Reported \cup {"dropped"}
       /\ code = "isError" => fate[write] = "rejected" /\ write \notin wire \cup logged
       /\ code \in {"result", "isError", "INTERNAL_ERROR"}]_composed
=============================================================================
