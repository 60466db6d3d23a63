------------------------ MODULE KafkaProducer_proofs ------------------------
(***************************************************************************)
(* Theorems about KafkaProducer for every set of callers and messages and  *)
(* every queue size.                                                       *)
(***************************************************************************)
EXTENDS KafkaProducer, FiniteSetTheorems, TLAPS

IInv == TypeOK /\ Consistent

(***************************************************************************)
(* The bound of the queue: Held is finite, a step that does not take a     *)
(* message over keeps the bound, and one that does needs a free place.     *)
(***************************************************************************)
LEMMA HeldFinite == IsFiniteSet(Held) /\ Cardinality(Held) \in Nat
<1>1. Held \in SUBSET Messages
  BY DEF Held
<1> QED
  BY <1>1, ProducerAssumption, FS_Subset, FS_CardinalityType

\* A step after which no new message is held keeps the bound.
LEMMA HeldShrinks ==
  ASSUME QueueBound, Held' \subseteq Held
  PROVE  QueueBound'
<1>1. Cardinality(Held') <= Cardinality(Held)
  BY HeldFinite, FS_Subset
<1>2. IsFiniteSet(Held')
  BY HeldFinite, FS_Subset
<1>3. Cardinality(Held') \in Nat
  BY <1>2, FS_CardinalityType
<1> QED
  BY <1>1, <1>3, HeldFinite, ProducerAssumption DEF QueueBound

\* produce() took one more message over, when the queue had a place.
LEMMA HeldGrows ==
  ASSUME ~QueueFull, NEW m, Held' = Held \cup {m}
  PROVE  QueueBound'
<1>1. /\ IsFiniteSet(Held \cup {m})
      /\ Cardinality(Held \cup {m}) = IF m \in Held THEN Cardinality(Held)
                                                   ELSE Cardinality(Held) + 1
  BY HeldFinite, FS_AddElement
<1>2. Cardinality(Held \cup {m}) <= QueueMax
  BY <1>1, HeldFinite, ProducerAssumption DEF QueueFull
<1> QED
  BY <1>2 DEF QueueBound

-----------------------------------------------------------------------------
\* Before the first KafkaProducer, with nothing offered, the invariant holds.
LEMMA InitIInv == Init => IInv
<1> SUFFICES ASSUME Init PROVE IInv
  OBVIOUS
<1>1. TypeOK
  BY ProducerAssumption DEF Init, TypeOK, Phases, Positions, Fates, Open
<1>2. Held = {}
  BY DEF Init, Held, Unserved
<1>3. QueueBound
  BY <1>2, FS_EmptySet, ProducerAssumption DEF QueueBound
<1>4. CallsApart /\ HandleLifetime /\ RecordsAgree
  BY <1>2 DEF Init, CallsApart, HandleLifetime, RecordsAgree, AllIdle
<1> QED
  BY <1>1, <1>3, <1>4 DEF IInv, Consistent

-----------------------------------------------------------------------------
(***************************************************************************)
(* Serving the waiting reports touches acked and failed messages only.     *)
(***************************************************************************)
LEMMA ServedFacts ==
  ASSUME TypeOK
  PROVE  /\ Served \in [Messages -> Fates]
         /\ \A m \in Messages :
              /\ fate[m] \in Open => Served[m] = fate[m]
              /\ fate[m] \notin Open => Served[m] \notin Open
              /\ Served[m] \in {"acked", "delivered"} => fate[m] \in {"acked", "delivered"}
              /\ Served[m] \in Unserved => fate[m] \in Unserved
BY DEF TypeOK, Served, Fates, Open, Unserved, Reported

\* What a step that serves reports, or gives up what is held, preserves.
LEMMA ServeKeeps ==
  ASSUME TypeOK, QueueBound, fate' = Served
  PROVE  /\ fate' \in [Messages -> Fates]
         /\ Held' \subseteq Held
         /\ QueueBound'
<1>1. Held' \subseteq Held
  BY ServedFacts DEF Held
<1> QED
  BY <1>1, ServedFacts, HeldShrinks

\* When a producer is destroyed, nothing is held; other messages keep their fate.
LEMMA GivenUpKeeps ==
  ASSUME TypeOK, QueueBound, fate' = GivenUp
  PROVE  /\ fate' \in [Messages -> Fates]
         /\ Held' = {}
         /\ QueueBound'
         /\ \A m \in Messages :
              /\ fate[m] \in Open => fate'[m] = fate[m]
              /\ fate[m] \notin Open => fate'[m] \notin Open
              /\ fate'[m] \in {"acked", "delivered"} => fate[m] \in {"acked", "delivered"}
<1>1. fate' \in [Messages -> Fates]
  BY DEF TypeOK, GivenUp, Held, Fates
<1>2. Held' = {}
  BY DEF TypeOK, GivenUp, Held, Unserved
<1>3. QueueBound'
  BY <1>2, HeldShrinks
<1>4. \A m \in Messages :
         /\ fate[m] \in Open => fate'[m] = fate[m]
         /\ fate[m] \notin Open => fate'[m] \notin Open
         /\ fate'[m] \in {"acked", "delivered"} => fate[m] \in {"acked", "delivered"}
  BY DEF TypeOK, GivenUp, Held, Open, Unserved
<1> QED
  BY <1>1, <1>2, <1>3, <1>4

-----------------------------------------------------------------------------
(* One lemma per action, or for the actions that touch the same state. *)
LEMMA ConnectIInv == IInv /\ Connect => IInv'
<1> SUFFICES ASSUME IInv, Connect PROVE IInv'
  OBVIOUS
<1> USE DEF IInv, Consistent
<1>1. TypeOK'
  BY DEF TypeOK, Connect, client, library
<1>2. Held' = Held
  BY DEF Connect, library, Held
<1>3. QueueBound'
  BY <1>2, HeldShrinks
<1>4. CallsApart' /\ RecordsAgree'
  BY DEF Connect, CallsApart, RecordsAgree, client, library
<1>5. HandleLifetime'
  BY <1>2 DEF Connect, HandleLifetime, AllIdle, client, library
<1> QED
  BY <1>1, <1>3, <1>4, <1>5

\* produce() goes past its test of connected_, one way or the other.
LEMMA BeginProduceIInv ==
  ASSUME IInv, NEW c \in Callers, NEW m \in Messages, BeginProduce(c, m)
  PROVE  IInv'
<1> USE DEF IInv, Consistent, BeginProduce, object, library
<1>1. TypeOK'
  BY DEF TypeOK, Positions
<1>2. Held' = Held
  BY DEF Held
<1>3. QueueBound'
  BY <1>2, HeldShrinks
<1>4. CallsApart'
  BY ProducerAssumption DEF TypeOK, CallsApart
<1>5. HandleLifetime'
  BY <1>2 DEF TypeOK, HandleLifetime
<1>6. RecordsAgree'
  BY DEF TypeOK, RecordsAgree
<1> QED
  BY <1>1, <1>3, <1>4, <1>5, <1>6

\* The error returns: the message was not queued, and connect() left no producer.
LEMMA RefuseIInv ==
  ASSUME IInv, NEW c \in Callers, ConfRefused(c) \/ NotConnected(c) \/ EnqueueRefused(c)
  PROVE  IInv'
<1> USE DEF IInv, Consistent
<1>1. /\ pc[c] \in {"connect", "created", "enqueue"}
      /\ pc[c] = "created" => ~producer
      /\ Refuse(c)
  BY DEF ConfRefused, NotConnected, EnqueueRefused
<1> USE <1>1 DEF Refuse, Return, object
<1>2. arg[c] \in Messages /\ fate[arg[c]] \in Open
  BY DEF TypeOK, CallsApart
<1>3. TypeOK'
  BY <1>2 DEF TypeOK, Fates, Open, Positions
<1>4. Held' \subseteq Held
  BY <1>2 DEF Held, TypeOK, Unserved
<1>5. QueueBound'
  BY <1>4, HeldShrinks
<1>6. CallsApart'
  BY <1>2 DEF TypeOK, CallsApart, Open
<1>7. HandleLifetime'
  BY <1>4 DEF TypeOK, HandleLifetime
<1>8. RecordsAgree'
  BY <1>2 DEF TypeOK, RecordsAgree, Open
<1> QED
  BY <1>3, <1>5, <1>6, <1>7, <1>8

\* A producer replaces whatever was there: what that one held is dropped.
LEMMA ResetProducerIInv ==
  ASSUME IInv, NEW c \in Callers, ResetProducer(c)
  PROVE  IInv'
<1> USE DEF IInv, Consistent, ResetProducer
<1>1. /\ fate' \in [Messages -> Fates] /\ Held' = {} /\ QueueBound'
      /\ \A m \in Messages :
           /\ fate[m] \in Open => fate'[m] = fate[m]
           /\ fate[m] \notin Open => fate'[m] \notin Open
           /\ fate'[m] \in {"acked", "delivered"} => fate[m] \in {"acked", "delivered"}
  BY GivenUpKeeps
<1>2. TypeOK'
  BY <1>1 DEF TypeOK, Positions
<1>3. CallsApart'
  BY <1>1 DEF TypeOK, CallsApart
<1>4. HandleLifetime'
  BY <1>1 DEF TypeOK, HandleLifetime
<1>5. RecordsAgree'
  BY <1>1 DEF TypeOK, RecordsAgree, Open
<1> QED
  BY <1>1, <1>2, <1>3, <1>4, <1>5

\* connect() found a producer and sets connected_.
LEMMA ConnectedIInv ==
  ASSUME IInv, NEW c \in Callers, Connected(c)
  PROVE  IInv'
<1> USE DEF IInv, Consistent, Connected, library
<1>1. TypeOK'
  BY DEF TypeOK, Positions
<1>2. Held' = Held
  BY DEF Held
<1>3. QueueBound'
  BY <1>2, HeldShrinks
<1>4. CallsApart'
  BY DEF TypeOK, CallsApart
<1>5. HandleLifetime'
  BY <1>2 DEF TypeOK, HandleLifetime
<1>6. RecordsAgree'
  BY DEF RecordsAgree
<1> QED
  BY <1>1, <1>3, <1>4, <1>5, <1>6

\* The process dies of a null producer_: no message is held then, and no call is left.
LEMMA CrashIInv ==
  ASSUME IInv, NEW c \in Callers, Crash(c)
  PROVE  IInv'
<1> USE DEF IInv, Consistent, Crash, library
<1>1. TypeOK'
  BY DEF TypeOK, Phases, Positions
<1>2. Held' = Held /\ Held = {}
  BY DEF Held, HandleLifetime
<1>3. QueueBound'
  BY <1>2, HeldShrinks
<1>4. CallsApart'
  BY ProducerAssumption DEF TypeOK, CallsApart
<1>5. HandleLifetime'
  BY <1>2 DEF TypeOK, HandleLifetime
<1>6. RecordsAgree'
  BY DEF RecordsAgree
<1> QED
  BY <1>1, <1>3, <1>4, <1>5, <1>6

\* librdkafka takes a message whose fate is open, into a queue that has a place.
LEMMA EnqueueIInv ==
  ASSUME IInv, NEW c \in Callers, Enqueue(c)
  PROVE  IInv'
<1> USE DEF IInv, Consistent, Enqueue, object
<1>1. arg[c] \in Messages
  BY DEF TypeOK, CallsApart
<1>2. TypeOK'
  BY <1>1 DEF TypeOK, Fates, Unserved, Positions
<1>3. Held' = Held \cup {arg[c]}
  BY <1>1 DEF Held, TypeOK, Unserved
<1>4. QueueBound'
  BY <1>3, HeldGrows
<1>5. CallsApart'
  BY <1>1 DEF TypeOK, CallsApart, Open
<1>6. HandleLifetime'
  BY DEF TypeOK, HandleLifetime
<1>7. RecordsAgree'
  BY <1>1 DEF TypeOK, RecordsAgree, CallsApart, Open
<1> QED
  BY <1>2, <1>4, <1>5, <1>6, <1>7

\* poll(0) and the success return: the message of the call was queued before.
LEMMA PollIInv ==
  ASSUME IInv, NEW c \in Callers, Poll(c)
  PROVE  IInv'
<1> USE DEF IInv, Consistent, Poll, Polled, Return, object
<1>1. arg[c] \in Messages
  BY DEF TypeOK, CallsApart
<1>2. /\ fate' \in [Messages -> Fates]
      /\ Held' \subseteq Held
      /\ QueueBound'
  BY ServeKeeps
<1>3. TypeOK'
  BY <1>1, <1>2 DEF TypeOK, Positions
<1>4. CallsApart'
  BY <1>1, ServedFacts DEF TypeOK, CallsApart
<1>5. HandleLifetime'
  BY <1>2 DEF TypeOK, HandleLifetime
<1>6. RecordsAgree'
  BY <1>1, ServedFacts DEF TypeOK, RecordsAgree, CallsApart, Open
<1> QED
  BY <1>2, <1>3, <1>4, <1>5, <1>6

\* The destructor starts when no call runs, and flushes if there is a producer.
LEMMA DisconnectIInv == IInv /\ Disconnect => IInv'
<1> SUFFICES ASSUME IInv, Disconnect PROVE IInv'
  OBVIOUS
<1> USE DEF IInv, Consistent, Disconnect, client, library
<1>1. TypeOK'
  BY DEF TypeOK, Phases
<1>2. Held' = Held
  BY DEF Held
<1>3. QueueBound'
  BY <1>2, HeldShrinks
<1>4. CallsApart' /\ RecordsAgree'
  BY DEF CallsApart, RecordsAgree
<1>5. HandleLifetime'
  BY <1>2 DEF TypeOK, HandleLifetime, AllIdle
<1> QED
  BY <1>1, <1>3, <1>4, <1>5

\* flush() serves reports: the held messages become fewer.
LEMMA FlushServeIInv == IInv /\ FlushServe => IInv'
<1> SUFFICES ASSUME IInv, FlushServe PROVE IInv'
  OBVIOUS
<1> USE DEF IInv, Consistent, FlushServe, client, object
<1>1. /\ fate' \in [Messages -> Fates]
      /\ Held' \subseteq Held
      /\ QueueBound'
  BY ServeKeeps
<1>2. TypeOK'
  BY <1>1 DEF TypeOK
<1>3. CallsApart'
  BY ServedFacts DEF TypeOK, CallsApart, HandleLifetime
<1>4. HandleLifetime'
  BY <1>1 DEF TypeOK, HandleLifetime
<1>5. RecordsAgree'
  BY ServedFacts DEF TypeOK, RecordsAgree, Open
<1> QED
  BY <1>1, <1>2, <1>3, <1>4, <1>5

\* Both ends of the destructor.
LEMMA DestroyIInv == IInv /\ phase = "flushing" /\ Destroy => IInv'
<1> SUFFICES ASSUME IInv, phase = "flushing", Destroy PROVE IInv'
  OBVIOUS
<1> USE DEF IInv, Consistent, Destroy, client
<1>1. /\ fate' \in [Messages -> Fates] /\ Held' = {} /\ QueueBound'
      /\ \A m \in Messages :
           /\ fate[m] \in Open => fate'[m] = fate[m]
           /\ fate[m] \notin Open => fate'[m] \notin Open
           /\ fate'[m] \in {"acked", "delivered"} => fate[m] \in {"acked", "delivered"}
  BY GivenUpKeeps
<1>2. TypeOK'
  BY <1>1 DEF TypeOK, Phases
<1>3. \A d \in Callers : pc[d] = "idle"
  BY DEF TypeOK, HandleLifetime
<1>4. CallsApart'
  BY <1>3 DEF TypeOK, CallsApart
<1>5. HandleLifetime'
  BY <1>1, <1>3 DEF HandleLifetime
<1>6. RecordsAgree'
  BY <1>1 DEF TypeOK, RecordsAgree, Open
<1> QED
  BY <1>1, <1>2, <1>4, <1>5, <1>6

\* A new object starts without a producer.
LEMMA ConstructIInv == IInv /\ Construct => IInv'
<1> SUFFICES ASSUME IInv, Construct PROVE IInv'
  OBVIOUS
<1> USE DEF IInv, Consistent, Construct, client, library
<1>1. TypeOK'
  BY DEF TypeOK, Phases
<1>2. Held' = Held
  BY DEF Held
<1>3. QueueBound'
  BY <1>2, HeldShrinks
<1>4. CallsApart' /\ RecordsAgree'
  BY DEF CallsApart, RecordsAgree
<1>5. HandleLifetime'
  BY <1>2 DEF TypeOK, HandleLifetime
<1> QED
  BY <1>1, <1>3, <1>4, <1>5

\* The wire and the topic change only for messages that were accepted.
LEMMA NetworkIInv ==
  ASSUME IInv, NEW m \in Messages, Send(m) \/ BrokerAppend(m) \/ RequestLost(m)
  PROVE  IInv'
<1> USE DEF IInv, Consistent, Send, BrokerAppend, RequestLost, client, object
<1>1. TypeOK'
  BY DEF TypeOK
<1>2. Held' = Held
  BY DEF Held
<1>3. QueueBound'
  BY <1>2, HeldShrinks
<1>4. CallsApart'
  BY DEF CallsApart
<1>5. HandleLifetime'
  BY <1>2 DEF HandleLifetime
<1>6. RecordsAgree'
  BY DEF TypeOK, RecordsAgree, Open
<1> QED
  BY <1>1, <1>3, <1>4, <1>5, <1>6

\* An outcome is known: the message keeps its place in the queue.
LEMMA OutcomeIInv ==
  ASSUME IInv, NEW m \in Messages, Ack(m) \/ DeliveryFails(m)
  PROVE  IInv'
<1> USE DEF IInv, Consistent, Ack, DeliveryFails, client, object
<1>1. TypeOK'
  BY DEF TypeOK, Fates, Unserved
<1>2. Held' \subseteq Held
  BY DEF TypeOK, Held, Unserved
<1>3. QueueBound'
  BY <1>2, HeldShrinks
<1>4. CallsApart'
  BY DEF TypeOK, CallsApart, Open
<1>5. HandleLifetime'
  BY <1>2 DEF HandleLifetime
<1>6. RecordsAgree'
  BY DEF TypeOK, RecordsAgree, Open
<1> QED
  BY <1>1, <1>3, <1>4, <1>5, <1>6

-----------------------------------------------------------------------------
\* Every step keeps the invariant: one case for each action.
LEMMA NextIInv == IInv /\ [Next]_vars => IInv'
<1> SUFFICES ASSUME IInv, [Next]_vars PROVE IInv'
  OBVIOUS
<1>1. CASE Connect
  BY <1>1, ConnectIInv
<1>2. CASE Disconnect
  BY <1>2, DisconnectIInv
<1>3. CASE Destructor
  BY <1>3, FlushServeIInv, DestroyIInv DEF Destructor, FlushDrained, FlushTimesOut
<1>4. CASE Construct
  BY <1>4, ConstructIInv
<1>5. ASSUME NEW c \in Callers, Call(c) PROVE IInv'
  BY <1>5, BeginProduceIInv DEF Call
<1>6. ASSUME NEW c \in Callers, Step(c) PROVE IInv'
  BY <1>6, RefuseIInv, ResetProducerIInv, ConnectedIInv, EnqueueIInv, PollIInv, CrashIInv
     DEF Step, Connecting
<1>7. ASSUME NEW m \in Messages, Kafka(m) PROVE IInv'
  BY <1>7, NetworkIInv, OutcomeIInv DEF Kafka
<1>8. CASE UNCHANGED vars
  <2> USE <1>8 DEF vars, IInv, Consistent
  <2>1. Held' = Held
    BY DEF Held
  <2>2. QueueBound'
    BY <2>1, HeldShrinks
  <2> QED
    BY <2>1, <2>2 DEF TypeOK, CallsApart, HandleLifetime, RecordsAgree
<1> QED
  BY <1>1, <1>2, <1>3, <1>4, <1>5, <1>6, <1>7, <1>8 DEF Next

(***************************************************************************)
(* The inductive invariant holds in every reachable state.                 *)
(***************************************************************************)
LEMMA InvariantHolds == Spec => []IInv
<1>1. Init => IInv
  BY InitIInv
<1>2. IInv /\ [Next]_vars => IInv'
  BY NextIInv
<1> QED
  BY <1>1, <1>2, PTL DEF Spec

(***************************************************************************)
(* In every reachable state the calls are apart, the handle lives as long  *)
(* as it is needed, the records of each message agree, and the queue holds *)
(* no more than it may.                                                    *)
(***************************************************************************)
THEOREM ConsistencyHolds == Spec => []Consistent
<1>1. IInv => Consistent
  BY DEF IInv
<1> QED
  BY <1>1, InvariantHolds, PTL

(***************************************************************************)
(* The type invariant of produce(), the destructor and the library.        *)
(***************************************************************************)
THEOREM TypeCorrect == Spec => []TypeOK
<1>1. IInv => TypeOK
  BY DEF IInv
<1> QED
  BY <1>1, InvariantHolds, PTL

(***************************************************************************)
(* A message whose last answer was an error is nowhere on its way to the   *)
(* topic: repeating the call cannot publish it twice.                      *)
(***************************************************************************)
THEOREM ErrorIsFinal == Spec => []ErrorMeansNotPublished
<1>1. IInv => ErrorMeansNotPublished
  BY DEF IInv, Consistent, TypeOK, RecordsAgree, ErrorMeansNotPublished, Held, Open, Unserved
<1> QED
  BY <1>1, InvariantHolds, PTL

(***************************************************************************)
(* The only ways for an accepted message to vanish without a delivery      *)
(* report: the destructor that gave up its flush, and the reset() of a     *)
(* call that overlapped the first connection, whatever the callers do.     *)
(***************************************************************************)
THEOREM SilentLoss == Spec => LossOnlyByTimeoutOrReset
<1> DEFINE A == \A m \in Messages :
                  fate[m] # "dropped" /\ fate'[m] = "dropped" =>
                    /\ fate[m] \in Unserved
                    /\ \/ phase = "flushing"
                       \/ connected /\ \E c \in Callers : pc[c] = "connect" /\ pc'[c] = "created"
<1>1. IInv /\ [Next]_vars => [A]_vars
  <2> SUFFICES ASSUME IInv, Next, NEW m \in Messages,
                      fate[m] # "dropped", fate'[m] = "dropped"
               PROVE  /\ fate[m] \in Unserved
                      /\ \/ phase = "flushing"
                         \/ connected /\ \E c \in Callers : pc[c] = "connect" /\ pc'[c] = "created"
    OBVIOUS
  <2> USE DEF IInv, TypeOK
  <2>1. fate' # fate
    OBVIOUS
  <2>2. ~(Connect \/ Disconnect \/ Construct)
    BY <2>1 DEF Connect, Disconnect, Construct, library
  <2>3. ~FlushServe /\ \A c \in Callers : ~Poll(c)
    BY DEF FlushServe, Poll, Polled, Served
  <2>4. ASSUME NEW c \in Callers PROVE ~Call(c)
    BY <2>1 DEF Call, BeginProduce, library
  <2>5. ASSUME NEW c \in Callers, ~ResetProducer(c) PROVE ~Step(c)
    BY <2>1, <2>3, <2>5 DEF Step, Connecting, ConfRefused, Connected, NotConnected, Enqueue,
                            EnqueueRefused, Refuse, Crash, library
  <2>6. ASSUME NEW n \in Messages PROVE ~Kafka(n)
    BY <2>1 DEF Kafka, Send, BrokerAppend, RequestLost, Ack, DeliveryFails
  <2>7. \/ phase = "flushing" /\ Destroy
        \/ \E c \in Callers : ResetProducer(c)
    BY <2>2, <2>3, <2>4, <2>5, <2>6 DEF Next, Destructor, FlushDrained, FlushTimesOut
  <2>8. fate' = GivenUp
    BY <2>7 DEF Destroy, ResetProducer
  <2>9. m \in Held
    BY <2>8 DEF GivenUp
  <2>10. ASSUME NEW c \in Callers, ResetProducer(c)
         PROVE  connected /\ pc[c] = "connect" /\ pc'[c] = "created"
    BY <2>9, <2>10 DEF ResetProducer, Consistent, HandleLifetime
  <2> QED
    BY <2>7, <2>9, <2>10 DEF Held
<1> QED
  BY <1>1, InvariantHolds, PTL DEF Spec, LossOnlyByTimeoutOrReset

(***************************************************************************)
(* When one thread makes all the calls, as in stdio mode, no reset() finds *)
(* a producer that is in use: only the destructor's flush loses messages.  *)
(***************************************************************************)
THEOREM SilentLossAlone ==
  ASSUME \A c, d \in Callers : c = d
  PROVE  Spec => [][\A m \in Messages :
                      fate[m] # "dropped" /\ fate'[m] = "dropped" => phase = "flushing"]_vars
<1> DEFINE Alone == \A c \in Callers : pc[c] = "connect" => ~connected
           A == \A m \in Messages :
                  fate[m] # "dropped" /\ fate'[m] = "dropped" =>
                    /\ fate[m] \in Unserved
                    /\ \/ phase = "flushing"
                       \/ connected /\ \E c \in Callers : pc[c] = "connect" /\ pc'[c] = "created"
           B == \A m \in Messages :
                  fate[m] # "dropped" /\ fate'[m] = "dropped" => phase = "flushing"
<1>1. Init => Alone
  BY DEF Init
<1>2. IInv /\ Alone /\ [Next]_vars => Alone'
  <2> SUFFICES ASSUME IInv, Alone, [Next]_vars, NEW c \in Callers, pc'[c] = "connect"
               PROVE  ~connected'
    OBVIOUS
  <2> USE DEF IInv, TypeOK
  <2>1. CASE \E m \in Messages : BeginProduce(c, m)
    BY <2>1 DEF BeginProduce, object
  <2>2. CASE Step(c) \/ Connect \/ Disconnect \/ Destructor
    BY <2>2 DEF Step, Connecting, ConfRefused, ResetProducer, Connected, NotConnected, Refuse,
                Return, Enqueue, EnqueueRefused, Poll, Polled, Crash, Connect, Disconnect,
                Destructor, FlushServe, FlushDrained, FlushTimesOut, Destroy, AllIdle,
                client, object
  <2>3. CASE Construct \/ (\E m \in Messages : Kafka(m)) \/ UNCHANGED vars
    BY <2>3 DEF Construct, Kafka, Send, BrokerAppend, RequestLost, Ack, DeliveryFails,
                client, object, vars
  <2> QED
    BY <2>1, <2>2, <2>3 DEF Next, Call
<1>3. Alone /\ [A]_vars => [B]_vars
  OBVIOUS
<1>4. Spec => [][A]_vars
  BY SilentLoss DEF LossOnlyByTimeoutOrReset
<1> QED
  BY <1>1, <1>2, <1>3, <1>4, InvariantHolds, PTL DEF Spec

-----------------------------------------------------------------------------
(* The class implements module Publication. *)
LEMMA RefineInit == Init => Contract!Init
<1> SUFFICES ASSUME Init PROVE Contract!Init
  OBVIOUS
<1>1. \A m \in Messages : fate[m] = "fresh"
  BY DEF Init
<1>2. Promise = [m \in Messages |-> "unclaimed"]
  BY <1>1 DEF Promise, Unserved
<1> QED
  BY <1>2 DEF Init, Contract!Init

\* A step that changes what no client was promised.
LEMMA RefineStutter ==
  ASSUME fate' = fate, logged' = logged
  PROVE  UNCHANGED Contract!vars
BY DEF Contract!vars, Promise

\* An error return of produce() is a refusal.
LEMMA RefineRefuse ==
  ASSUME TypeOK, NEW m \in Messages, fate[m] \in Open,
         fate' = [fate EXCEPT ![m] = "rejected"], logged' = logged
  PROVE  Contract!Refuse(m)
BY DEF TypeOK, Contract!Refuse, Contract!Open, Promise, Open, Unserved

\* librdkafka taking a message over is an acceptance.
LEMMA RefineAccept ==
  ASSUME TypeOK, NEW m \in Messages, fate[m] \in Open,
         fate' = [fate EXCEPT ![m] = "queued"], logged' = logged
  PROVE  Contract!Accept(m)
BY DEF TypeOK, Contract!Accept, Contract!Open, Promise, Open, Unserved

\* dr_cb settles what it reports; it confirms only what is in the topic.
LEMMA RefineServe ==
  ASSUME IInv, fate' = Served, logged' = logged
  PROVE  Contract!Next
<1> DEFINE confirmed == {m \in Messages : fate[m] = "acked"}
           failed == {m \in Messages : fate[m] = "failed"}
<1>1. Contract!Settle(confirmed, failed)
  BY DEF IInv, Consistent, TypeOK, RecordsAgree, Contract!Settle, Promise, Served,
         Fates, Open, Unserved, Reported
<1> QED
  BY <1>1 DEF Contract!Next

\* Destroying a producer settles, unconfirmed, what it still held.
LEMMA RefineDestroy ==
  ASSUME IInv, fate' = GivenUp, logged' = logged
  PROVE  Contract!Next
<1>1. Contract!Settle({}, Held)
  BY DEF IInv, TypeOK, Contract!Settle, Promise, GivenUp, Held, Fates, Open, Unserved, Reported
<1> QED
  BY <1>1 DEF Contract!Next, Held

\* The sender and the broker publish, or change nothing that was promised.
LEMMA RefineKafka ==
  ASSUME IInv, NEW m \in Messages, Kafka(m)
  PROVE  Contract!Next \/ UNCHANGED Contract!vars
<1> USE DEF IInv, Consistent, TypeOK
<1>1. CASE Send(m) \/ RequestLost(m)
  BY <1>1, RefineStutter DEF Send, RequestLost
<1>2. CASE BrokerAppend(m)
  <2>1. Contract!Publish(m)
    BY <1>2 DEF BrokerAppend, RecordsAgree, Contract!Publish, Contract!Open, Promise,
                Fates, Open, Unserved, Reported
  <2> QED
    BY <2>1 DEF Contract!Next
<1>3. CASE Ack(m) \/ DeliveryFails(m)
  BY <1>3 DEF Ack, DeliveryFails, Contract!vars, Promise, Unserved
<1> QED
  BY <1>1, <1>2, <1>3 DEF Kafka

\* A step of produce() refuses, accepts, settles, or promises nothing.
LEMMA RefineStep ==
  ASSUME IInv, NEW c \in Callers, Call(c) \/ Step(c)
  PROVE  Contract!Next \/ UNCHANGED Contract!vars
<1> USE DEF IInv, Consistent
<1>1. CASE Call(c) \/ Connected(c) \/ Crash(c)
  BY <1>1, RefineStutter DEF Call, BeginProduce, Connected, Crash, library
<1>2. ASSUME pc[c] \in {"connect", "created", "enqueue"}
      PROVE  arg[c] \in Messages /\ fate[arg[c]] \in Open
  BY <1>2 DEF TypeOK, CallsApart
<1>3. CASE Enqueue(c)
  <2>1. Contract!Accept(arg[c])
    BY <1>2, <1>3, RefineAccept DEF Enqueue
  <2> QED
    BY <1>2, <1>3, <2>1 DEF Contract!Next, Enqueue
<1>4. CASE ConfRefused(c) \/ NotConnected(c) \/ EnqueueRefused(c)
  <2>1. arg[c] \in Messages /\ fate[arg[c]] \in Open /\ Refuse(c)
    BY <1>2, <1>4 DEF ConfRefused, NotConnected, EnqueueRefused
  <2>2. Contract!Refuse(arg[c])
    BY <2>1, RefineRefuse DEF Refuse
  <2> QED
    BY <2>1, <2>2 DEF Contract!Next
<1>5. CASE ResetProducer(c)
  BY <1>5, RefineDestroy DEF ResetProducer
<1>6. CASE Poll(c)
  BY <1>6, RefineServe DEF Poll, Polled
<1> QED
  BY <1>1, <1>3, <1>4, <1>5, <1>6 DEF Step, Connecting

\* Every step of KafkaProducer is a step of Publication or a stutter.
LEMMA RefineNext == IInv /\ [Next]_vars => [Contract!Next]_(Contract!vars)
<1> SUFFICES ASSUME IInv, [Next]_vars
             PROVE  Contract!Next \/ UNCHANGED Contract!vars
  OBVIOUS
<1>1. CASE Connect \/ Disconnect \/ Construct
  BY <1>1, RefineStutter DEF Connect, Disconnect, Construct, library
<1>2. CASE Destructor
  BY <1>2, RefineServe, RefineDestroy
     DEF Destructor, FlushServe, FlushDrained, FlushTimesOut, Destroy
<1>3. CASE UNCHANGED vars
  BY <1>3, RefineStutter DEF vars
<1> QED
  BY <1>1, <1>2, <1>3, RefineStep, RefineKafka DEF Next

(***************************************************************************)
(* KafkaProducer implements Publication: a message is taken over at most   *)
(* once, only a message taken over reaches the topic, and only a message   *)
(* in the topic is confirmed.                                              *)
(***************************************************************************)
THEOREM ImplementsPublication == Spec => ContractSpec
<1>1. Init => Contract!Init
  BY RefineInit
<1>2. IInv /\ [Next]_vars => [Contract!Next]_(Contract!vars)
  BY RefineNext
<1> QED
  BY <1>1, <1>2, InvariantHolds, PTL DEF Spec, ContractSpec, Contract!Spec

=============================================================================
