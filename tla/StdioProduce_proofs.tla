------------------------ MODULE StdioProduce_proofs ------------------------
(***************************************************************************)
(* The composition of the transport with the producer of each tools/call,  *)
(* for every set of ids and messages, any number of lines and any queue    *)
(* size: a message is settled before the answer, the session is kept, and  *)
(* what an answer tells of the message is true.                            *)
(***************************************************************************)
EXTENDS StdioProduce, StdioTransport_proofs

(***************************************************************************)
(* Why: outside "dispatch" and "leave" there is no KafkaProducer object;   *)
(* without an object there is no librdkafka producer; and without one no   *)
(* message is held, since destroying it drops what is left. That produce() *)
(* queues only with a producer needs a call to keep the object alive, and  *)
(* one thread only: connect() is entered when connected_ is not set, and   *)
(* nothing sets it before the reset().                                     *)
(***************************************************************************)
Types ==
  /\ phase \in P!Phases
  /\ connected \in BOOLEAN /\ producer \in BOOLEAN
  /\ stage \in [{Loop} -> P!Positions]
  /\ fate \in [Messages -> P!Fates]

ObjectInCall == pc \notin {"dispatch", "leave"} => phase = "gone"

Lifetime ==
  /\ phase = "gone" => ~producer
  /\ producer /\ ~connected => stage[Loop] = "created"
  /\ stage[Loop] # "idle" => phase = "live"
  /\ stage[Loop] \in {"enqueue", "poll"} => connected
  /\ connected => producer
  /\ stage[Loop] = "connect" => ~connected
  /\ P!Held # {} => producer /\ connected

SInv == Types /\ ObjectInCall /\ Lifetime

-----------------------------------------------------------------------------
\* At the start there is no object and nothing was offered.
LEMMA InitSInv == InitComposed => SInv
<1> SUFFICES ASSUME InitComposed PROVE SInv
  OBVIOUS
<1>1. Types
  BY DEF InitComposed, P!Init, Types, P!Phases, P!Positions, P!Fates, P!Open
<1>2. P!Held = {}
  BY DEF InitComposed, P!Init, P!Held, P!Unserved
<1> QED
  BY <1>1, <1>2 DEF InitComposed, Init, P!Init, SInv, ObjectInCall, Lifetime

\* A step of the transport alone that does not enter a call.
LEMMA TransportStep ==
  ASSUME SInv, UNCHANGED produce,
         pc' \in {"dispatch", "leave"} => pc \in {"dispatch", "leave"},
         pc \in {"dispatch", "leave"} => pc' \in {"dispatch", "leave"}
  PROVE  SInv'
BY DEF SInv, Types, ObjectInCall, Lifetime, produce, P!Held

\* None of the steps that meet no Kafka client enters or leaves a call.
LEMMA ElsewhereStaysOut ==
  ASSUME Elsewhere
  PROVE  pc \notin {"dispatch", "leave"} /\ pc' \notin {"dispatch", "leave"}
BY DEF Elsewhere, EndOfInput, Skip, ParseError, ParseDies, Parsed, HandleAtOnce,
       HandleInitialized, HandleThrows, Write, WriteThrows, Rescue

-----------------------------------------------------------------------------
\* The dispatcher is built, and connects its producer.
LEMMA OpenStep == ASSUME SInv, OpenCall \/ ConnectProducer PROVE SInv'
<1>1. CASE OpenCall
  BY <1>1 DEF SInv, Types, ObjectInCall, Lifetime, OpenCall, OpenDispatcher, P!Construct,
              P!client, P!library, P!Phases, P!Held
<1>2. CASE ConnectProducer
  BY <1>2 DEF SInv, Types, ObjectInCall, Lifetime, ConnectProducer, P!Connect, P!AllIdle, vars,
              P!client, P!library, P!Phases, P!Held
<1> QED
  BY <1>1, <1>2

\* Delivery reports are served: what they settle is no longer held.
LEMMA ServedHolds ==
  ASSUME fate \in [Messages -> P!Fates], fate' = P!Served
  PROVE  fate' \in [Messages -> P!Fates] /\ P!Held' \subseteq P!Held
BY DEF P!Served, P!Fates, P!Open, P!Unserved, P!Reported, P!Held

\* A producer is destroyed: nothing is held any more.
LEMMA GivenUpHolds ==
  ASSUME fate \in [Messages -> P!Fates], fate' = P!GivenUp
  PROVE  fate' \in [Messages -> P!Fates] /\ P!Held' = {}
BY DEF P!GivenUp, P!Fates, P!Held, P!Unserved

\* produce() is called and either takes the message over or refuses it.
LEMMA ProduceStep ==
  ASSUME SInv, CallProduce \/ ConnectAgain \/ QueueMessage \/ ProduceSucceeds \/ ProduceFails
  PROVE  SInv'
<1> USE DEF SInv, Types, ObjectInCall, Lifetime
<1>1. CASE CallProduce
  <2>1. Types'
    BY <1>1 DEF CallProduce, P!BeginProduce, P!object, P!library, P!Positions
  <2> QED
    BY <1>1, <2>1 DEF CallProduce, P!BeginProduce, P!object, P!library, P!Held, vars
<1>2. CASE ConnectAgain
  <2>1. CASE P!ResetProducer(Loop)
    <3>1. P!Held' = {} /\ fate' \in [Messages -> P!Fates]
      BY <2>1, GivenUpHolds DEF P!ResetProducer
    <3>2. Types'
      BY <2>1, <3>1 DEF P!ResetProducer, P!Positions
    <3> QED
      BY <1>2, <2>1, <3>1, <3>2 DEF ConnectAgain, P!ResetProducer, vars
  <2>2. CASE P!Connected(Loop)
    <3>1. Types'
      BY <2>2 DEF P!Connected, P!library, P!Positions
    <3> QED
      BY <1>2, <2>2, <3>1 DEF ConnectAgain, P!Connected, P!library, P!Held, vars
  <2> QED
    BY <1>2, <2>1, <2>2 DEF ConnectAgain
<1>3. CASE QueueMessage
  <2>1. Types'
    BY <1>3 DEF QueueMessage, P!Enqueue, P!object, P!Positions, P!Fates, P!Unserved
  <2> QED
    BY <1>3, <2>1 DEF QueueMessage, P!Enqueue, P!object, vars
<1>4. CASE ProduceSucceeds
  <2>1. fate' = P!Served
    BY <1>4 DEF ProduceSucceeds, P!Poll, P!Polled, P!Return
  <2>2. Types'
    BY <1>4, <2>1, ServedHolds DEF ProduceSucceeds, P!Poll, P!Polled, P!Return, P!object, P!Positions
  <2>3. P!Held' \subseteq P!Held
    BY <2>1, ServedHolds
  <2> QED
    BY <1>4, <2>2, <2>3 DEF ProduceSucceeds, P!Poll, P!Polled, P!Return, P!object, Dispatch
<1>5. CASE ProduceFails
  <2>1. P!Refuse(Loop) /\ (stage[Loop] = "created" => ~producer) /\ Dispatch
    BY <1>5 DEF ProduceFails, Refused, P!ConfRefused, P!NotConnected, P!EnqueueRefused
  <2>2. PICK m : fate' = [fate EXCEPT ![m] = "rejected"]
    BY <2>1 DEF P!Refuse
  <2>3. Types'
    BY <2>1, <2>2 DEF P!Refuse, P!Return, P!object, P!Positions, P!Fates, P!Open
  <2>4. P!Held' \subseteq P!Held
    BY <2>2 DEF P!Held, P!Unserved
  <2> QED
    BY <2>1, <2>3, <2>4 DEF P!Refuse, P!Return, P!object, Dispatch
<1> QED
  BY <1>1, <1>2, <1>3, <1>4, <1>5

\* The librdkafka producer is destroyed, and what it held is dropped.
LEMMA DestroyStep ==
  ASSUME SInv, P!Destroy, phase = "flushing"
  PROVE  SInv' /\ phase' = "gone"
<1>1. P!Held' = {} /\ fate' \in [Messages -> P!Fates]
  BY GivenUpHolds DEF P!Destroy, SInv, Types
<1> QED
  BY <1>1 DEF SInv, Types, ObjectInCall, Lifetime, P!Destroy, P!client, P!Phases

\* The dispatcher goes out of scope.
LEMMA CloseStep ==
  ASSUME SInv, BeginClose \/ ServeReports \/ CloseCall
  PROVE  SInv'
<1> USE DEF SInv, Types, ObjectInCall, Lifetime
<1>1. CASE BeginClose
  BY <1>1 DEF BeginClose, P!Disconnect, P!AllIdle, P!client, P!library, P!Phases, P!Held, vars
<1>2. CASE ServeReports
  <2>1. fate' = P!Served
    BY <1>2 DEF ServeReports, P!FlushServe
  <2> QED
    BY <1>2, <2>1, ServedHolds DEF ServeReports, P!FlushServe, P!object, P!client, vars
<1>3. CASE CloseCall
  <2>1. CASE P!FlushDrained \/ P!FlushTimesOut
    BY <2>1, DestroyStep DEF P!FlushDrained, P!FlushTimesOut
  <2>2. CASE ~producer /\ P!Disconnect
    BY <2>2 DEF P!Disconnect, P!AllIdle, P!client, P!library, P!Phases, P!Held
  <2> QED
    BY <1>3, <2>1, <2>2 DEF CloseCall
<1> QED
  BY <1>1, <1>2, <1>3

\* librdkafka and the broker: a message that is held stays held.
LEMMA KafkaStep ==
  ASSUME SInv, NEW m \in Messages, P!Kafka(m), UNCHANGED <<vars, write>>
  PROVE  SInv'
<1> USE DEF SInv, Types, ObjectInCall, Lifetime
<1>1. CASE P!Send(m) \/ P!BrokerAppend(m) \/ P!RequestLost(m)
  BY <1>1 DEF P!Send, P!BrokerAppend, P!RequestLost, P!object, P!client, P!Held, vars
<1>2. CASE P!Ack(m) \/ P!DeliveryFails(m)
  <2>1. fate' \in [Messages -> P!Fates] /\ P!Held' = P!Held
    BY <1>2 DEF P!Ack, P!DeliveryFails, P!Fates, P!Unserved, P!Held
  <2> QED
    BY <1>2, <2>1 DEF P!Ack, P!DeliveryFails, P!object, P!client, vars
<1> QED
  BY <1>1, <1>2 DEF P!Kafka

-----------------------------------------------------------------------------
\* Every step keeps the invariant.
LEMMA NextSInv == SInv /\ [NextComposed]_composed => SInv'
<1> SUFFICES ASSUME SInv, [NextComposed]_composed PROVE SInv'
  OBVIOUS
<1>1. CASE OpenCall \/ ConnectProducer
  BY <1>1, OpenStep
<1>2. CASE OtherOutcome
  BY <1>2, TransportStep DEF OtherOutcome, Dispatch
<1>3. CASE CallProduce \/ ConnectAgain \/ QueueMessage \/ ProduceSucceeds \/ ProduceFails
  BY <1>3, ProduceStep
<1>4. CASE BeginClose \/ ServeReports \/ CloseCall
  BY <1>4, CloseStep
<1>5. CASE Elsewhere /\ UNCHANGED <<produce, write>>
  BY <1>5, ElsewhereStaysOut, TransportStep
<1>6. CASE CloseStdin /\ UNCHANGED <<produce, write>>
  BY <1>6, TransportStep DEF CloseStdin
<1>7. CASE ReadLine /\ UNCHANGED produce /\ write' = None
  BY <1>7, TransportStep DEF ReadLine
<1>8. CASE (\E m \in Messages : P!Kafka(m)) /\ UNCHANGED <<vars, write>>
  BY <1>8, KafkaStep
<1>9. CASE UNCHANGED composed
  BY <1>9, TransportStep DEF composed, vars
<1> QED
  BY <1>1, <1>2, <1>3, <1>4, <1>5, <1>6, <1>7, <1>8, <1>9 DEF NextComposed, Thread, Tool

\* Answers are written, and lines read, outside of a call.
LEMMA AnswersOutside ==
  ASSUME [NextComposed]_composed, answers' # answers \/ taken' # taken
  PROVE  pc \notin {"dispatch", "leave"}
<1>1. CASE Tool
  BY <1>1 DEF Tool, OpenCall, OpenDispatcher, ConnectProducer, OtherOutcome, CallProduce,
              ConnectAgain, QueueMessage, ProduceSucceeds, ProduceFails, Dispatch, BeginClose, ServeReports,
              CloseCall, CloseDispatcher, vars
<1>2. CASE Elsewhere
  BY <1>2, ElsewhereStaysOut
<1>3. CASE ReadLine
  BY <1>3 DEF ReadLine
<1> QED
  BY <1>1, <1>2, <1>3 DEF NextComposed, Thread, CloseStdin, composed, vars

(***************************************************************************)
(* In stdio mode nothing is written to stdout and no line is read while a  *)
(* message waits for its delivery report, or while a producer exists:      *)
(* handle_call_tool() destroys its dispatcher on every path.               *)
(***************************************************************************)
THEOREM SettledFirst == ComposedSpec => SettledBeforeAnswer
<1>1. InitComposed => SInv
  BY InitSInv
<1>2. SInv /\ [NextComposed]_composed => SInv'
  BY NextSInv
<1>3. SInv /\ [NextComposed]_composed
        => [answers' # answers \/ taken' # taken => P!Held = {} /\ ~producer]_composed
  BY AnswersOutside DEF SInv, ObjectInCall, Lifetime
<1> QED
  BY <1>1, <1>2, <1>3, PTL DEF ComposedSpec, SettledBeforeAnswer

-----------------------------------------------------------------------------
\* Each step of the composition is a step of the transport, or none of its own.
LEMMA TransportSimulated == [NextComposed]_composed => [Next]_vars
<1> SUFFICES ASSUME [NextComposed]_composed PROVE [Next]_vars
  OBVIOUS
<1> USE DEF Next, Work
<1>1. CASE Tool
  BY <1>1 DEF Tool, OpenCall, ConnectProducer, OtherOutcome, CallProduce, ConnectAgain,
              QueueMessage,
              ProduceSucceeds, ProduceFails, BeginClose, ServeReports, CloseCall
<1>2. CASE Elsewhere
  BY <1>2 DEF Elsewhere
<1> QED
  BY <1>1, <1>2 DEF NextComposed, Thread, composed

(***************************************************************************)
(* The composition implements the transport: what holds of StdioTransport  *)
(* for every outcome of a tool holds for those that produce() has.         *)
(***************************************************************************)
THEOREM ImplementsTransport == ComposedSpec => Spec
<1>1. InitComposed => Init
  BY DEF InitComposed
<1> QED
  BY <1>1, TransportSimulated, PTL DEF ComposedSpec, Spec

(***************************************************************************)
(* So the transport's state stays within its types with the producer's     *)
(* calls in between.                                                       *)
(***************************************************************************)
THEOREM ComposedTyped == ComposedSpec => []TypeOK
BY ImplementsTransport, TransportTyped, PTL

(***************************************************************************)
(* And every request still gets its one answer, before the next line is    *)
(* read, whatever produce() and the destructor of the producer do.         *)
(***************************************************************************)
THEOREM ComposedSession == ComposedSpec => SessionSpec
BY ImplementsTransport, ImplementsSession, PTL

-----------------------------------------------------------------------------
(***************************************************************************)
(* Why an answer tells the fate of its message: the producer is inside     *)
(* produce() only on behalf of the tools/call in hand and of its message;  *)
(* a message is taken over or refused in the very step that decides what   *)
(* the answer will be; and after it nobody offers that message again until *)
(* the answer is out. A message that is refused was never sent.            *)
(***************************************************************************)
WriteInHand ==
  /\ write \in Messages \cup {None}
  /\ pc \in {"parse", "handle"} => write = None
  /\ stage[Loop] # "idle" => pc = "dispatch" /\ write # None /\ arg[Loop] = write
  /\ arg \in [{Loop} -> Messages \cup {None}]

Unpublished ==
  /\ \A m \in Messages : fate[m] \in P!Open => m \notin wire \cup logged
  /\ stage[Loop] \in {"connect", "created", "enqueue"} => fate[write] \in P!Open
  /\ stage[Loop] = "poll" => fate[write] \notin P!Open

ReplyTellsFate ==
  pc \in {"leave", "write"} /\ write # None =>
    \/ reply = none
    \/ reply.code = "result" /\ fate[write] \notin P!Open
    \/ reply.code = "isError" /\ fate[write] = "rejected"

AInv == SInv /\ WriteInHand /\ Unpublished /\ ReplyTellsFate

\* At the start no message was offered and no tool was called.
LEMMA InitAInv == InitComposed => AInv
<1> SUFFICES ASSUME InitComposed PROVE AInv
  OBVIOUS
<1>1. WriteInHand /\ ReplyTellsFate
  BY DEF InitComposed, Init, P!Init, WriteInHand, ReplyTellsFate
<1>2. Unpublished
  BY DEF InitComposed, P!Init, Unpublished
<1> QED
  BY <1>1, <1>2, InitSInv DEF AInv

\* A step that leaves the producer alone, and the call in hand as it is.
LEMMA ProducerUntouched ==
  ASSUME AInv, SInv', UNCHANGED produce, write' = write \/ write' = None,
         pc' \in {"parse", "handle"} => write' = None,
         stage[Loop] # "idle" => write' = write /\ pc' = "dispatch",
         pc' \in {"leave", "write"} /\ write' # None =>
           reply' = none \/ (reply' = reply /\ pc \in {"leave", "write"})
  PROVE  AInv'
BY DEF AInv, WriteInHand, Unpublished, ReplyTellsFate, produce

\* run() and handle_message() go on, without a tool.
LEMMA ElsewhereAInv ==
  ASSUME AInv, SInv', Elsewhere, UNCHANGED <<produce, write>>
  PROVE  AInv'
<1>1. stage[Loop] = "idle"
  BY ElsewhereStaysOut DEF AInv, WriteInHand
<1>2. pc' \in {"parse", "handle"} => write' = None
  BY DEF AInv, WriteInHand, Elsewhere, EndOfInput, Skip, ParseError, ParseDies, Parsed,
         HandleAtOnce, HandleInitialized, HandleThrows, Write, WriteThrows, Rescue
<1>3. pc' \in {"leave", "write"} => write' = None
  BY DEF AInv, WriteInHand, Elsewhere, EndOfInput, Skip, ParseError, ParseDies, Parsed,
         HandleAtOnce, HandleInitialized, HandleThrows, Write, WriteThrows, Rescue
<1> QED
  BY <1>1, <1>2, <1>3, ProducerUntouched

\* The tools/call begins, with a message that may be offered, and connects.
LEMMA OpenAInv ==
  ASSUME AInv, SInv', OpenCall \/ ConnectProducer \/ OtherOutcome
  PROVE  AInv'
<1> USE DEF AInv, WriteInHand, Unpublished, ReplyTellsFate
<1>1. CASE OpenCall
  BY <1>1 DEF OpenCall, OpenDispatcher, Offers, P!Construct, P!client, P!library
<1>2. CASE ConnectProducer
  BY <1>2 DEF ConnectProducer, P!Connect, P!client, P!library, vars
<1>3. CASE OtherOutcome
  BY <1>3, ProducerUntouched DEF OtherOutcome, Dispatch
<1> QED
  BY <1>1, <1>2, <1>3

\* Serving reports neither makes a message open nor changes one that is.
LEMMA ServedKeepsOpen ==
  ASSUME fate' = P!Served, NEW m \in Messages
  PROVE  (fate[m] \in P!Open \/ fate'[m] \in P!Open) => fate'[m] = fate[m]
BY DEF P!Served, P!Open

\* Nor does giving up what a producer held.
LEMMA GivenUpKeepsOpen ==
  ASSUME fate' = P!GivenUp, NEW m \in Messages
  PROVE  (fate[m] \in P!Open \/ fate'[m] \in P!Open) => fate'[m] = fate[m]
BY DEF P!GivenUp, P!Held, P!Unserved, P!Open

\* produce() takes the message of the call over, or refuses it.
LEMMA ProduceAInv ==
  ASSUME AInv, SInv', CallProduce \/ ConnectAgain \/ QueueMessage \/ ProduceSucceeds \/ ProduceFails
  PROVE  AInv'
<1> USE DEF AInv, WriteInHand, Unpublished, ReplyTellsFate
<1>1. stage \in [{Loop} -> P!Positions] /\ fate \in [Messages -> P!Fates]
  BY DEF SInv, Types
<1>2. CASE CallProduce
  BY <1>1, <1>2 DEF CallProduce, P!BeginProduce, P!object, P!library, vars
<1>3. CASE ConnectAgain
  <2>1. \A m \in Messages : (fate[m] \in P!Open \/ fate'[m] \in P!Open) => fate'[m] = fate[m]
    BY <1>3, GivenUpKeepsOpen DEF ConnectAgain, P!ResetProducer, P!Connected, P!library
  <2>2. /\ UNCHANGED <<vars, write, arg, wire, logged>>
        /\ stage[Loop] \in {"connect", "created"} /\ stage'[Loop] \in {"created", "enqueue"}
    BY <1>1, <1>3 DEF ConnectAgain, P!ResetProducer, P!Connected, P!library
  <2> QED
    BY <2>1, <2>2 DEF vars
<1>4. CASE QueueMessage
  <2>1. write \in Messages /\ fate' = [fate EXCEPT ![write] = "queued"]
    BY <1>4 DEF QueueMessage, P!Enqueue
  <2> QED
    BY <1>1, <1>4, <2>1 DEF QueueMessage, P!Enqueue, P!object, P!Open, vars
<1>5. CASE ProduceSucceeds
  <2>1. write \in Messages /\ pc = "dispatch" /\ pc' = "leave" /\ fate[write] \notin P!Open
    BY <1>5 DEF ProduceSucceeds, P!Poll, P!Polled, P!Return, Dispatch
  <2>2. /\ \A m \in Messages : (fate[m] \in P!Open \/ fate'[m] \in P!Open) => fate'[m] = fate[m]
        /\ UNCHANGED <<wire, logged, write>>
    BY <1>5, ServedKeepsOpen DEF ProduceSucceeds, P!Poll, P!Polled, P!Return
  <2>3. stage'[Loop] = "idle" /\ arg' \in [{Loop} -> Messages \cup {None}]
    BY <1>1, <1>5 DEF ProduceSucceeds, P!Poll, P!Polled, P!Return
  <2>4. reply'.code = "result"
    BY <1>5 DEF ProduceSucceeds, Succeeds, Response
  <2> QED
    BY <2>1, <2>2, <2>3, <2>4
<1>6. CASE ProduceFails
  <2>1. P!Refuse(Loop) /\ stage[Loop] \in {"connect", "created", "enqueue"} /\ Dispatch
    BY <1>6 DEF ProduceFails, Refused, P!ConfRefused, P!NotConnected, P!EnqueueRefused
  <2>2. /\ write \in Messages /\ pc = "dispatch" /\ pc' = "leave" /\ fate[write] \in P!Open
        /\ fate' = [fate EXCEPT ![write] = "rejected"]
        /\ UNCHANGED <<wire, logged, write>>
    BY <1>6, <2>1 DEF ProduceFails, P!Refuse, Dispatch
  <2>3. stage'[Loop] = "idle" /\ arg' \in [{Loop} -> Messages \cup {None}]
    BY <1>1, <2>1 DEF P!Refuse, P!Return
  <2>4. reply'.code = "isError"
    BY <1>6 DEF ProduceFails, Fails, Response
  <2> QED
    BY <1>1, <2>2, <2>3, <2>4
<1> QED
  BY <1>2, <1>3, <1>4, <1>5, <1>6

\* The dispatcher goes out of scope: what was refused stays refused.
LEMMA CloseAInv ==
  ASSUME AInv, SInv', BeginClose \/ ServeReports \/ CloseCall
  PROVE  AInv'
<1> USE DEF AInv, WriteInHand, Unpublished, ReplyTellsFate
<1>1. stage[Loop] = "idle" /\ UNCHANGED <<stage, arg, wire, logged, write, reply>>
  BY DEF BeginClose, ServeReports, CloseCall, CloseDispatcher, P!Disconnect, P!FlushServe,
         P!FlushDrained, P!FlushTimesOut, P!Destroy, P!client, P!library, vars
<1>2. pc = "leave" /\ pc' \notin {"parse", "handle"} /\ (pc' = "write" => reply # none)
  BY DEF BeginClose, ServeReports, CloseCall, CloseDispatcher, vars
<1>3. \A m \in Messages : (fate[m] \in P!Open \/ fate'[m] \in P!Open) => fate'[m] = fate[m]
  <2>1. CASE ServeReports
    BY <2>1, ServedKeepsOpen DEF ServeReports, P!FlushServe
  <2>2. CASE P!Destroy
    BY <2>2, GivenUpKeepsOpen DEF P!Destroy
  <2>3. CASE P!Disconnect
    BY <2>3 DEF P!Disconnect, P!library
  <2> QED
    BY <2>1, <2>2, <2>3 DEF BeginClose, CloseCall, P!FlushDrained, P!FlushTimesOut
<1>4. WriteInHand' /\ Unpublished'
  BY <1>1, <1>2, <1>3
<1>5. ReplyTellsFate'
  BY <1>1, <1>2, <1>3 DEF P!Open
<1> QED
  BY <1>4, <1>5

\* librdkafka sends, and the broker appends, only what produce() took over.
LEMMA KafkaAInv ==
  ASSUME AInv, SInv', NEW m \in Messages, P!Kafka(m), UNCHANGED <<vars, write>>
  PROVE  AInv'
<1> USE DEF AInv, WriteInHand, Unpublished, ReplyTellsFate
<1>1. CASE P!Send(m) \/ P!BrokerAppend(m) \/ P!RequestLost(m)
  BY <1>1 DEF P!Send, P!BrokerAppend, P!RequestLost, P!object, P!client, P!Open, vars
<1>2. CASE P!Ack(m) \/ P!DeliveryFails(m)
  <2>1. \A n \in Messages : (fate[n] \in P!Open \/ fate'[n] \in P!Open) => fate'[n] = fate[n]
    BY <1>2 DEF P!Ack, P!DeliveryFails, P!Open, SInv, Types
  <2> QED
    <3>1. UNCHANGED <<wire, logged, stage, arg, write, pc, reply>>
      BY <1>2 DEF P!Ack, P!DeliveryFails, P!client, vars
    <3>2. WriteInHand' /\ Unpublished'
      BY <2>1, <3>1
    <3>3. ReplyTellsFate'
      BY <2>1, <3>1 DEF P!Open
    <3> QED
      BY <3>2, <3>3
<1> QED
  BY <1>1, <1>2 DEF P!Kafka

\* Every step keeps the invariant.
LEMMA NextAInv == AInv /\ [NextComposed]_composed => AInv'
<1> SUFFICES ASSUME AInv, [NextComposed]_composed PROVE AInv'
  OBVIOUS
<1>1. SInv'
  BY NextSInv DEF AInv
<1>2. CASE Tool
  BY <1>1, <1>2, OpenAInv, ProduceAInv, CloseAInv DEF Tool
<1>3. CASE Elsewhere /\ UNCHANGED <<produce, write>>
  BY <1>1, <1>3, ElsewhereAInv
<1>4. CASE CloseStdin /\ UNCHANGED <<produce, write>>
  BY <1>1, <1>4, ProducerUntouched DEF CloseStdin, AInv, WriteInHand
<1>5. CASE ReadLine /\ UNCHANGED produce /\ write' = None
  BY <1>1, <1>5, ProducerUntouched DEF ReadLine, AInv, WriteInHand
<1>6. CASE (\E m \in Messages : P!Kafka(m)) /\ UNCHANGED <<vars, write>>
  BY <1>1, <1>6, KafkaAInv
<1>7. CASE UNCHANGED composed
  BY <1>1, <1>7, ProducerUntouched DEF composed, vars, AInv, WriteInHand
<1> QED
  BY <1>2, <1>3, <1>4, <1>5, <1>6, <1>7 DEF NextComposed, Thread

\* An answer is written by three steps, and carries the code that was emitted.
LEMMA AnswerWritten ==
  ASSUME TypeOK, [NextComposed]_composed, answers' # answers
  PROVE  /\ UNCHANGED write
         /\ \/ ParseError
            \/ Write /\ answers'[Len(answers')].code = reply.code
            \/ Rescue /\ answers'[Len(answers')].code = "INTERNAL_ERROR"
<1>1. ASSUME NEW id, NEW code, Emit(id, code)
      PROVE  answers'[Len(answers')].code = code
  BY <1>1 DEF Emit, TypeOK
<1>2. CASE Tool
  BY <1>2 DEF Tool, OpenCall, OpenDispatcher, ConnectProducer, OtherOutcome, CallProduce,
              ConnectAgain, QueueMessage, ProduceSucceeds, ProduceFails, Dispatch, BeginClose, ServeReports,
              CloseCall, CloseDispatcher, vars
<1>3. CASE Elsewhere /\ UNCHANGED <<produce, write>>
  BY <1>1, <1>3 DEF Elsewhere, EndOfInput, Skip, ParseDies, Parsed, HandleAtOnce,
                    HandleInitialized, HandleThrows, Write, WriteThrows, Rescue
<1> QED
  BY <1>2, <1>3 DEF NextComposed, Thread, CloseStdin, ReadLine, composed, vars

\* What the answer to produce_message says of its message, in the step that writes it.
LEMMA AnswerTells ==
  ASSUME TInv, AInv, [NextComposed]_composed, answers' # answers, write # None
  PROVE  LET code == answers'[Len(answers')].code IN
         /\ code = "result" => fate[write] \in P!Reported \cup {"dropped"}
         /\ code = "isError" => fate[write] = "rejected" /\ write \notin wire \cup logged
         /\ code \in {"result", "isError", "INTERNAL_ERROR"}
<1>1. CASE ParseError
  BY <1>1 DEF ParseError, AInv, WriteInHand
<1>2. CASE Write /\ answers'[Len(answers')].code = reply.code
  <2>1. /\ write \in Messages /\ reply # none
        /\ \/ reply.code = "result" /\ fate[write] \notin P!Open
           \/ reply.code = "isError" /\ fate[write] = "rejected"
    BY <1>2 DEF Write, TInv, InHand, AInv, WriteInHand, ReplyTellsFate
  <2>2. fate[write] \in P!Fates /\ fate[write] \notin P!Unserved
    BY <1>2, <2>1 DEF Write, AInv, SInv, Types, ObjectInCall, Lifetime, P!Held
  <2>3. fate[write] \in P!Open => write \notin wire \cup logged
    BY <2>1 DEF AInv, Unpublished
  <2> QED
    BY <1>2, <2>1, <2>2, <2>3 DEF P!Fates, P!Open
<1>3. CASE Rescue /\ answers'[Len(answers')].code = "INTERNAL_ERROR"
  BY <1>3
<1> QED
  BY <1>1, <1>2, <1>3, AnswerWritten DEF TInv

(***************************************************************************)
(* A result of produce_message tells that the message was taken over and   *)
(* is settled; an error result, that it is not in the topic and never will *)
(* be by this call: whatever connect(), the queue, the broker and flush()  *)
(* do in between, and however many calls offered the message before.       *)
(***************************************************************************)
THEOREM AnswersAreTrue == ComposedSpec => AnswersTellFate
<1>1. TInv /\ AInv /\ [NextComposed]_composed
        => [answers' # answers /\ write # None =>
              LET code == answers'[Len(answers')].code IN
              /\ code = "result" => fate[write] \in P!Reported \cup {"dropped"}
              /\ code = "isError" => fate[write] = "rejected" /\ write \notin wire \cup logged
              /\ code \in {"result", "isError", "INTERNAL_ERROR"}]_composed
  BY AnswerTells
<1>2. ComposedSpec => []TInv
  BY ImplementsTransport, TransportInvariance, PTL
<1> QED
  BY <1>1, <1>2, InitAInv, NextAInv, PTL DEF ComposedSpec, AnswersTellFate

-----------------------------------------------------------------------------
\* Each step of the composition is a step of the producer, or none of its own.
LEMMA ProducerSimulated == AInv /\ [NextComposed]_composed => [P!Next]_(P!vars)
<1> SUFFICES ASSUME AInv, [NextComposed]_composed PROVE [P!Next]_(P!vars)
  OBVIOUS
<1> USE DEF P!Next
<1>1. UNCHANGED produce => UNCHANGED P!vars
  BY DEF produce, P!vars
<1>2. CASE OpenCall \/ ConnectProducer
  BY <1>2 DEF OpenCall, ConnectProducer
<1>3. CASE CallProduce \/ ConnectAgain \/ QueueMessage \/ ProduceSucceeds \/ ProduceFails
  <2>1. write # None => write \in Messages
    BY DEF AInv, WriteInHand
  <2> QED
    BY <1>3, <2>1 DEF CallProduce, ConnectAgain, QueueMessage, ProduceSucceeds, ProduceFails,
                          Refused, P!Call, P!Step, P!Connecting
<1>4. CASE BeginClose \/ ServeReports \/ CloseCall
  BY <1>4 DEF BeginClose, ServeReports, CloseCall, P!Destructor
<1>5. CASE \E m \in Messages : P!Kafka(m)
  BY <1>5
<1> QED
  BY <1>1, <1>2, <1>3, <1>4, <1>5
     DEF NextComposed, Thread, Tool, OtherOutcome, composed, produce

(***************************************************************************)
(* The composition uses the producer as module KafkaProducer says: what is *)
(* proved of that class for every queue size and any callers holds of the  *)
(* one of each tools/call, whose only caller is the transport's thread.    *)
(***************************************************************************)
THEOREM ImplementsProducer == ComposedSpec => P!Spec
<1>1. InitComposed => P!Init
  BY DEF InitComposed
<1> QED
  BY <1>1, InitAInv, NextAInv, ProducerSimulated, PTL DEF ComposedSpec, P!Spec
=============================================================================
