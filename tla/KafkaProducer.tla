--------------------------- MODULE KafkaProducer ---------------------------
(***************************************************************************)
(* The class KafkaProducer (src/src/kafka/kafka_producer.cpp) over the     *)
(* librdkafka producer it wraps.                                           *)
(*                                                                         *)
(* The threads that call produce() (gRPC workers; the one stdio loop) are  *)
(* Callers. A message is one write a client wants done: a call that        *)
(* reports an error may be repeated by the client, one that reports        *)
(* success is not.                                                         *)
(*                                                                         *)
(* produce() only queues. librdkafka sends in the background, and the      *)
(* outcome of a message comes back as a delivery report that waits in the  *)
(* same bounded queue until poll() or flush() serves it. The code polls in *)
(* one place, after a call that queued its message, and flushes in one     *)
(* place, the destructor.                                                  *)
(*                                                                         *)
(* Nothing is locked: a call that found connected_ unset goes on into      *)
(* connect() and resets producer_, whatever another call has connected and *)
(* queued since. A reset() and a call into librdkafka are one step each;   *)
(* what happens when the one runs inside the other is the subject of       *)
(* module ClientHandle.                                                    *)
(***************************************************************************)
EXTENDS Naturals, FiniteSets

CONSTANTS
  Callers,    \* threads that may be inside produce()
  Messages,   \* the writes clients want done
  QueueMax,   \* queue.buffering.max.messages of librdkafka
  None        \* no message

ASSUME ProducerAssumption ==
  /\ IsFiniteSet(Messages)
  /\ QueueMax \in Nat \ {0}
  /\ None \notin Messages

VARIABLES
  phase,      \* of the KafkaProducer object: live, flushing (in its destructor), gone
  connected,  \* connected_
  producer,   \* whether producer_ holds a librdkafka producer
  pc,         \* where each caller is in produce()
  arg,        \* the message each caller is publishing
  resp,       \* the last answer the client got for each message
  fate,       \* what has become of each message
  wire,       \* messages in a produce request under way to the broker
  logged      \* messages in the topic

client == <<pc, arg, resp>>
library == <<fate, wire, logged>>
object == <<phase, connected, producer>>
vars == <<phase, connected, producer, pc, arg, resp, fate, wire, logged>>

-----------------------------------------------------------------------------
Phases == {"live", "flushing", "gone"}
Positions == {"idle", "connect", "created", "enqueue", "poll"}

(***************************************************************************)
(* fresh: not offered, rejected: refused by produce(), queued: accepted    *)
(* and waiting for its outcome, acked and failed: the outcome waits in the *)
(* queue, delivered and undelivered: dr_cb has run, dropped: the librdkafka*)
(* producer was destroyed first.                                           *)
(***************************************************************************)
Open == {"fresh", "rejected"}
Unserved == {"queued", "acked", "failed"}
Reported == {"delivered", "undelivered"}
Fates == Open \cup Unserved \cup Reported \cup {"dropped"}

\* What occupies the bounded queue: a message counts until its report is served.
Held == {m \in Messages : fate[m] \in Unserved}
QueueFull == Cardinality(Held) >= QueueMax
AllIdle == \A c \in Callers : pc[c] = "idle"

\* Mutant: dr_cb does not look at msg.err().
Served_IgnoringErrors ==
  [m \in Messages |-> IF fate[m] \in {"acked", "failed"} THEN "delivered" ELSE fate[m]]

\* The outcome of running dr_cb for every report that waits.
Served == [m \in Messages |->
             CASE fate[m] = "acked"  -> "delivered"
               [] fate[m] = "failed" -> "undelivered"
               [] OTHER              -> fate[m]]

Init ==
  /\ phase = "gone" /\ connected = FALSE /\ producer = FALSE
  /\ pc = [c \in Callers |-> "idle"]
  /\ arg = [c \in Callers |-> None]
  /\ resp = [m \in Messages |-> "none"]
  /\ fate = [m \in Messages |-> "fresh"]
  /\ wire = {} /\ logged = {}

-----------------------------------------------------------------------------
(* connect(), called by the constructor of MCPDispatcher before any call. *)
Connect ==
  /\ phase = "live" /\ AllIdle /\ ~connected
  /\ connected' = TRUE /\ producer' = TRUE
  /\ UNCHANGED <<phase, client, library>>

(***************************************************************************)
(* produce(), up to its test of connected_ and the same test at the head   *)
(* of connect(). A client offers a message that nobody is publishing and   *)
(* that was not accepted before.                                           *)
(***************************************************************************)
BeginProduce(c, m) ==
  /\ phase = "live" /\ pc[c] = "idle"
  /\ fate[m] \in Open
  /\ \A d \in Callers : arg[d] # m
  /\ pc' = [pc EXCEPT ![c] = IF connected THEN "enqueue" ELSE "connect"]
  /\ arg' = [arg EXCEPT ![c] = m]
  /\ resp' = [resp EXCEPT ![m] = "none"]
  /\ UNCHANGED <<object, library>>

\* produce() returns.
Return(c, answer) ==
  /\ resp' = [resp EXCEPT ![arg[c]] = answer]
  /\ pc' = [pc EXCEPT ![c] = "idle"]
  /\ arg' = [arg EXCEPT ![c] = None]

\* produce() returns an error: librdkafka has not taken the message.
Refuse(c) ==
  /\ fate' = [fate EXCEPT ![arg[c]] = "rejected"]
  /\ Return(c, "error")
  /\ UNCHANGED <<object, wire, logged>>

\* librdkafka gives up what the producer that is destroyed still holds.
GivenUp == [m \in Messages |-> IF m \in Held THEN "dropped" ELSE fate[m]]

\* "Not connected to Kafka": the configuration is refused, connect() catches it.
ConfRefused(c) == pc[c] = "connect" /\ Refuse(c)

\* producer_.reset(create(...)): a new producer, or nullptr, for what was there.
ResetProducer(c) ==
  /\ pc[c] = "connect"
  /\ producer' \in BOOLEAN
  /\ fate' = GivenUp
  /\ pc' = [pc EXCEPT ![c] = "created"]
  /\ UNCHANGED <<phase, connected, arg, resp, wire, logged>>

\* producer_ is set, by this call or by another one: connect() succeeds.
Connected(c) ==
  /\ pc[c] = "created" /\ producer
  /\ connected' = TRUE
  /\ pc' = [pc EXCEPT ![c] = "enqueue"]
  /\ UNCHANGED <<phase, producer, arg, resp, library>>

\* "Not connected to Kafka": producer_ is null.
NotConnected(c) == pc[c] = "created" /\ ~producer /\ Refuse(c)

\* producer_->produce() takes a copy of the message.
Enqueue(c) ==
  /\ pc[c] = "enqueue" /\ producer /\ ~QueueFull
  /\ fate' = [fate EXCEPT ![arg[c]] = "queued"]
  /\ pc' = [pc EXCEPT ![c] = "poll"]
  /\ UNCHANGED <<object, arg, resp, wire, logged>>

\* Mutant: the message flag RK_MSG_BLOCK, which waits for a place in the queue.
EnqueueRefused_Blocking(c) ==
  pc[c] = "enqueue" /\ producer /\ ~QueueFull /\ Refuse(c)

\* producer_->produce() returns an error, ERR__QUEUE_FULL or another: no poll.
EnqueueRefused(c) == pc[c] = "enqueue" /\ producer /\ Refuse(c)

Polled(c, answer) ==
  /\ pc[c] = "poll" /\ producer
  /\ fate' = Served
  /\ Return(c, answer)
  /\ UNCHANGED <<object, wire, logged>>

\* Mutants: the result of poll() taken for an error; a third kind of answer.
Poll_AsError(c) == Polled(c, "error")
Poll_AsPending(c) == Polled(c, "pending")

\* poll(0) serves every report that waits, then produce() returns success.
Poll(c) == Polled(c, "ok")

(***************************************************************************)
(* connected_ is set and producer_ is null, when the last of overlapping   *)
(* first calls failed to create its producer: the next use of producer_    *)
(* ends the process, with every call in it.                                *)
(***************************************************************************)
Crash(c) ==
  /\ pc[c] \in {"enqueue", "poll"} /\ ~producer
  /\ phase' = "gone" /\ connected' = FALSE
  /\ pc' = [d \in Callers |-> "idle"]
  /\ arg' = [d \in Callers |-> None]
  /\ UNCHANGED <<producer, resp, library>>

-----------------------------------------------------------------------------
\* producer_ = nullptr.
Destroy ==
  /\ phase' = "gone" /\ producer' = FALSE /\ connected' = FALSE
  /\ fate' = GivenUp
  /\ UNCHANGED <<client, wire, logged>>

\* Mutants: no flush before the producer is destroyed; calls still running.
Disconnect_WithoutFlush == phase = "live" /\ AllIdle /\ producer /\ Destroy
Disconnect_DuringCalls ==
  /\ phase = "live"
  /\ phase' = IF producer THEN "flushing" ELSE "gone"
  /\ connected' = (connected /\ producer)
  /\ UNCHANGED <<producer, client, library>>

(* ~KafkaProducer: disconnect(). Its owner destroys it when no call runs.  *)
Disconnect ==
  /\ phase = "live" /\ AllIdle
  /\ phase' = IF producer THEN "flushing" ELSE "gone"
  /\ connected' = (connected /\ producer)
  /\ UNCHANGED <<producer, client, library>>

\* flush(5000) serves reports while it waits for the queue to drain.
FlushServe ==
  /\ phase = "flushing"
  /\ \E m \in Messages : fate[m] \in {"acked", "failed"}
  /\ fate' = Served
  /\ UNCHANGED <<object, client, wire, logged>>

\* flush() returned with nothing left; producer_ = nullptr.
FlushDrained == phase = "flushing" /\ Held = {} /\ Destroy

\* Mutant: flush(-1), which waits for the broker without end.
FlushTimesOut_Never == FALSE

\* flush() gave up after its 5 s; its result is ignored and producer_ = nullptr.
FlushTimesOut == phase = "flushing" /\ Held # {} /\ Destroy

\* An object comes to life: one in the gRPC server, one for each tools/call in stdio mode.
Construct ==
  /\ phase = "gone"
  /\ phase' = "live"
  /\ UNCHANGED <<connected, producer, client, library>>

-----------------------------------------------------------------------------
(* librdkafka's sender and the broker. *)
\* A produce request is sent, or sent again when no acknowledgement came.
Send(m) ==
  /\ fate[m] = "queued" /\ m \notin wire
  /\ wire' = wire \cup {m}
  /\ UNCHANGED <<object, client, fate, logged>>

BrokerAppend(m) ==
  /\ m \in wire
  /\ wire' = wire \ {m} /\ logged' = logged \cup {m}
  /\ UNCHANGED <<object, client, fate>>

RequestLost(m) ==
  /\ m \in wire
  /\ wire' = wire \ {m}
  /\ UNCHANGED <<object, client, fate, logged>>

\* acks=1: the leader's acknowledgement arrives.
Ack(m) ==
  /\ fate[m] = "queued" /\ m \in logged
  /\ fate' = [fate EXCEPT ![m] = "acked"]
  /\ UNCHANGED <<object, client, wire, logged>>

\* message.timeout.ms passed, or the broker refused: the write may still land.
DeliveryFails(m) ==
  /\ fate[m] = "queued"
  /\ fate' = [fate EXCEPT ![m] = "failed"]
  /\ UNCHANGED <<object, client, wire, logged>>

-----------------------------------------------------------------------------
Call(c) == \E m \in Messages : BeginProduce(c, m)
Connecting(c) == ConfRefused(c) \/ ResetProducer(c) \/ Connected(c) \/ NotConnected(c)
Step(c) == Connecting(c) \/ Enqueue(c) \/ EnqueueRefused(c) \/ Poll(c) \/ Crash(c)
Destructor == FlushServe \/ FlushDrained \/ FlushTimesOut
Kafka(m) ==
  Send(m) \/ BrokerAppend(m) \/ RequestLost(m) \/ Ack(m) \/ DeliveryFails(m)

Next ==
  \/ Connect \/ Disconnect \/ Destructor \/ Construct
  \/ \E c \in Callers : Call(c) \/ Step(c)
  \/ \E m \in Messages : Kafka(m)

Spec == Init /\ [][Next]_vars

(***************************************************************************)
(* A call in progress goes on and flush() returns within its timeout. No   *)
(* fairness is assumed of clients, brokers or the network.                 *)
(***************************************************************************)
FairSpec ==
  /\ Spec
  /\ \A c \in Callers : WF_vars(Step(c))
  /\ WF_vars(FlushDrained \/ FlushTimesOut)

(***************************************************************************)
(* As FairSpec, with clients that keep offering what was not accepted.     *)
(***************************************************************************)
BusySpec == FairSpec /\ \A c \in Callers : WF_vars(Call(c))

-----------------------------------------------------------------------------
TypeOK ==
  /\ phase \in Phases /\ connected \in BOOLEAN /\ producer \in BOOLEAN
  /\ pc \in [Callers -> Positions]
  /\ arg \in [Callers -> Messages \cup {None}]
  /\ resp \in [Messages -> {"none", "ok", "error"}]
  /\ fate \in [Messages -> Fates]
  /\ wire \subseteq Messages /\ logged \subseteq Messages

(***************************************************************************)
(* What the calls, the handle, the records of the messages and the bounded *)
(* queue have to do with each other. Reports that nobody served count      *)
(* against the queue. With TypeOK this is inductive.                       *)
(***************************************************************************)
CallsApart ==
  /\ \A c \in Callers : pc[c] = "idle" <=> arg[c] = None
  /\ \A c, d \in Callers : c # d /\ arg[c] # None => arg[c] # arg[d]
  /\ \A c \in Callers :
       pc[c] \in {"connect", "created", "enqueue"} =>
         fate[arg[c]] \in Open /\ resp[arg[c]] = "none"
  /\ \A c \in Callers : pc[c] = "poll" => fate[arg[c]] \notin Open

HandleLifetime ==
  /\ phase = "flushing" => producer
  /\ phase = "gone" => ~producer /\ ~connected
  /\ producer /\ ~connected => \E c \in Callers : pc[c] = "created"
  /\ \A c \in Callers : pc[c] # "idle" => phase = "live"
  /\ \A c \in Callers : pc[c] \in {"enqueue", "poll"} => connected
  /\ Held # {} => producer /\ connected

RecordsAgree ==
  \A m \in Messages :
    /\ resp[m] = "error" => fate[m] = "rejected"
    /\ resp[m] = "ok" => fate[m] \notin Open
    /\ fate[m] \in Open => m \notin wire \cup logged
    /\ fate[m] \in {"acked", "delivered"} => m \in logged

QueueBound == Cardinality(Held) <= QueueMax

Consistent == CallsApart /\ HandleLifetime /\ RecordsAgree /\ QueueBound

(***************************************************************************)
(* A client that was told "error" can safely try again: the message is not *)
(* in the topic, nor on its way there, nor in the producer's queue.        *)
(***************************************************************************)
ErrorMeansNotPublished ==
  \A m \in Messages : resp[m] = "error" => m \notin wire \cup logged \cup Held

(***************************************************************************)
(* An accepted message is lost silently in two places only: the destructor *)
(* whose flush timed out while the object still held it; and the reset()   *)
(* of a call that found connected_ unset, and now throws away the producer *)
(* that another of the first calls has connected and used since.           *)
(***************************************************************************)
LossOnlyByTimeoutOrReset ==
  [][\A m \in Messages :
       fate[m] # "dropped" /\ fate'[m] = "dropped" =>
         /\ fate[m] \in Unserved
         /\ \/ phase = "flushing"
            \/ connected /\ \E c \in Callers : pc[c] = "connect" /\ pc'[c] = "created"]_vars

(***************************************************************************)
(* Every call of produce() is answered, unless the process dies with it.   *)
(***************************************************************************)
EveryCallReturns ==
  \A m \in Messages :
    (\E c \in Callers : arg[c] = m) ~> (resp[m] # "none" \/ phase = "gone")

(***************************************************************************)
(* Once the destructor runs, every message whose client was told "ok" is   *)
(* settled: reported to dr_cb or given up.                                 *)
(***************************************************************************)
DestructionSettles ==
  (phase = "flushing") ~>
    \A m \in Messages : resp[m] = "ok" => fate[m] \in Reported \cup {"dropped"}

(***************************************************************************)
(* What the code around poll(0) and dr_cb says: delivery callbacks are     *)
(* triggered and produce results logged, so a queue that is full of        *)
(* finished messages empties while clients keep calling produce().         *)
(***************************************************************************)
FullOfReports == QueueFull /\ \A m \in Held : fate[m] \in {"acked", "failed"}
MoreToWrite == \E m \in Messages : fate[m] \in Open
FullQueueDrains ==
  (phase = "live" /\ FullOfReports /\ MoreToWrite) ~> (phase # "live" \/ ~QueueFull)

-----------------------------------------------------------------------------
(***************************************************************************)
(* The class implements the promise of module Publication.                 *)
(***************************************************************************)
Promise == [m \in Messages |->
              CASE fate[m] = "fresh"     -> "unclaimed"
                [] fate[m] = "rejected"  -> "refused"
                [] fate[m] \in Unserved  -> "accepted"
                [] fate[m] = "delivered" -> "confirmed"
                [] OTHER                 -> "unconfirmed"]

Contract == INSTANCE Publication WITH promise <- Promise, published <- logged
ContractSpec == Contract!Spec
=============================================================================
