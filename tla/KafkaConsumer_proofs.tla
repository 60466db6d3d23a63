------------------------ MODULE KafkaConsumer_proofs ------------------------
(***************************************************************************)
(* What consume() returns, for every set of threads and partitions, any    *)
(* max_messages and any length of the log. That no partition is fetched in *)
(* vain holds however the calls overlap; that a call gets the messages it  *)
(* asked for is proved for calls that do not share a partition. (What two  *)
(* readers of one partition do to each other is the run shared_partition.) *)
(***************************************************************************)
EXTENDS KafkaConsumer, SequenceTheorems, TLAPS

InLoop(c) == pc[c] \in {"loop", "stop"}

(***************************************************************************)
(* Why nothing is fetched in vain: start() is the only way into the loop,  *)
(* and stop() the only way out of it. (The types need to know that start() *)
(* refuses PARTITION_UA: a position is advanced only if there is one.)     *)
(***************************************************************************)
Started == \A c \in Callers : InLoop(c) => partition[c] # PARTITION_UA

Fetched ==
  \A p \in Partitions :
    fetching[p] => \E c \in Callers : InLoop(c) /\ partition[c] = p

FInv == TypeOK /\ Started /\ Fetched

(***************************************************************************)
(* Why the messages come in order: the partition's position belongs to the *)
(* call that reads it. Between start() and stop() it passes every message  *)
(* that was taken and, once it has a message, stays within the log, so     *)
(* librdkafka can only reset it forward. If the asked offset was there and *)
(* still is, the position was never reset: it counts the messages taken.   *)
(***************************************************************************)
Distinct ==
  \A c, d \in Callers :
    /\ pc[c] # "idle" /\ pc[d] # "idle"
    /\ partition[c] = partition[d] /\ partition[c] # PARTITION_UA
    => c = d

Bounded == \A p \in Partitions : lo[p] <= hi[p]

Ordered(c) ==
  /\ \A i, j \in DOMAIN results[c] : i < j => results[c][i] < results[c][j]
  /\ \A i \in DOMAIN results[c] : results[c][i] < position[partition[c]]
  /\ results[c] # <<>> => position[partition[c]] <= hi[partition[c]]

Exact(c) ==
  inRange[c] =>
    /\ asked[c] \in Offsets
    /\ lo[partition[c]] <= asked[c] =>
         /\ position[partition[c]] = asked[c] + Len(results[c])
         /\ position[partition[c]] <= hi[partition[c]]
         /\ \A i \in DOMAIN results[c] : results[c][i] = asked[c] + i - 1

CallInv(c) ==
  /\ InLoop(c) => Ordered(c) /\ Exact(c)
  /\ ~InLoop(c) => results[c] = <<>> /\ ~inRange[c]

KInv == FInv /\ Distinct /\ Bounded /\ \A c \in Callers : CallInv(c)

-----------------------------------------------------------------------------
\* No call is in progress, and the log is empty.
LEMMA InitFInv == Init => FInv
<1> SUFFICES ASSUME Init PROVE FInv
  OBVIOUS
<1> USE ConsumerAssumption DEF Init, TypeOK
<1>1. /\ left \in [Callers -> 0 .. MaxMessages]
      /\ lo \in [Partitions -> Offsets] /\ hi \in [Partitions -> Offsets]
  BY DEF Offsets
<1>2. /\ asked \in [Callers -> Askable] /\ position \in [Partitions -> Askable]
  BY DEF Askable
<1>3. results \in [Callers -> Seq(Offsets)]
  OBVIOUS
<1>4. Started /\ Fetched
  BY DEF Started, Fetched, InLoop
<1> QED
  BY <1>1, <1>2, <1>3, <1>4 DEF FInv

\* What a call leaves behind is within its types.
LEMMA ReturnTyped ==
  ASSUME TypeOK, NEW c \in Callers, Return(c)
  PROVE  /\ pc' \in [Callers -> {"idle", "start", "loop", "stop"}]
         /\ partition' \in [Callers -> Partitions \cup {PARTITION_UA}]
         /\ asked' \in [Callers -> Askable]
         /\ left' \in [Callers -> 0 .. MaxMessages]
         /\ endless' \in [Callers -> BOOLEAN] /\ inRange' \in [Callers -> BOOLEAN]
         /\ results' \in [Callers -> Seq(Offsets)]
<1> USE ConsumerAssumption DEF TypeOK, Return
<1>1. left' \in [Callers -> 0 .. MaxMessages]
  OBVIOUS
<1>2. asked' \in [Callers -> Askable]
  BY DEF Askable
<1>3. results' \in [Callers -> Seq(Offsets)]
  OBVIOUS
<1> QED
  BY <1>1, <1>2, <1>3

\* The message that a call takes is one that the partition has.
LEMMA TakenOffset ==
  ASSUME TypeOK, Started, NEW c \in Callers, Take(c)
  PROVE  /\ partition[c] \in Partitions
         /\ position[partition[c]] \in Offsets
         /\ position[partition[c]] + 1 \in Offsets
<1>1. partition[c] \in Partitions
  BY DEF TypeOK, Started, InLoop, Take
<1>2. /\ lo[partition[c]] \in Offsets /\ hi[partition[c]] \in Offsets
      /\ position[partition[c]] \in Askable
  BY <1>1 DEF TypeOK
<1> QED
  BY <1>1, <1>2, ConsumerAssumption DEF Take, HasNext, Offsets

\* The steps of one call keep the types.
LEMMA CallTyped ==
  ASSUME TypeOK, Started, NEW c \in Callers, Arguments(c) \/ Step(c) \/ ErrorEvent(c)
  PROVE  TypeOK'
<1> USE DEF TypeOK, fetch, broker
<1>1. CASE Arguments(c)
  BY <1>1 DEF Arguments, Begin
<1>2. CASE Refused(c)
  BY <1>2, ReturnTyped DEF Refused
<1>3. CASE Start(c)
  BY <1>3 DEF Start
<1>4. CASE Take(c)
  <2>1. position' \in [Partitions -> Askable]
    BY <1>4, TakenOffset DEF Take, Askable
  <2>2. left' \in [Callers -> 0 .. MaxMessages]
    BY <1>4, ConsumerAssumption DEF Take
  <2>3. Append(results[c], position[partition[c]]) \in Seq(Offsets)
    BY <1>4, TakenOffset
  <2>4. results' \in [Callers -> Seq(Offsets)]
    BY <1>4, <2>3 DEF Take
  <2> QED
    BY <1>4, <2>1, <2>2, <2>4 DEF Take
<1>5. CASE LeaveLoop(c)
  BY <1>5 DEF LeaveLoop
<1>6. CASE Stop(c)
  BY <1>6, ReturnTyped DEF Stop, Askable
<1>7. CASE ErrorEvent(c)
  BY <1>7, ConsumerAssumption DEF ErrorEvent
<1> QED
  BY <1>1, <1>2, <1>3, <1>4, <1>5, <1>6, <1>7 DEF Step

\* So do librdkafka on its own and the broker.
LEMMA PartitionTyped ==
  ASSUME TypeOK, NEW p \in Partitions, Resolve(p) \/ Reset(p) \/ Written(p) \/ Deleted(p)
  PROVE  TypeOK'
<1> USE ConsumerAssumption DEF TypeOK, call, fetch
<1>1. ASSUME NEW o \in Offsets, position' = [position EXCEPT ![p] = o]
      PROVE  position' \in [Partitions -> Askable]
  BY <1>1 DEF Askable
<1>2. CASE Resolve(p)
  BY <1>1, <1>2 DEF Resolve, broker
<1>3. CASE Reset(p)
  BY <1>1, <1>3 DEF Reset, broker
<1>4. CASE Written(p)
  BY <1>4 DEF Written, Offsets
<1>5. CASE Deleted(p)
  BY <1>5 DEF Deleted, Offsets
<1> QED
  BY <1>2, <1>3, <1>4, <1>5

\* A call enters the loop by start(), and leaves it by stop().
LEMMA NextFInv == FInv /\ [Next]_vars => FInv'
<1> SUFFICES ASSUME FInv, [Next]_vars PROVE FInv'
  OBVIOUS
<1>1. CASE UNCHANGED vars
  BY <1>1 DEF vars, FInv, TypeOK, Started, Fetched, InLoop
<1>2. ASSUME NEW c \in Callers, Arguments(c) \/ Step(c) \/ ErrorEvent(c)
      PROVE  FInv'
  <2> USE DEF FInv, Started, Fetched, InLoop
  <2>1. TypeOK /\ TypeOK'
    BY <1>2, CallTyped
  <2>2. CASE Arguments(c)
    <3>1. PICK p : /\ pc[c] = "idle" /\ UNCHANGED fetching
                   /\ pc' = [pc EXCEPT ![c] = "start"]
                   /\ partition' = [partition EXCEPT ![c] = p]
      BY <2>2 DEF Arguments, Begin, fetch
    <3> QED
      BY <2>1, <3>1 DEF TypeOK
  <2>3. CASE Refused(c)
    BY <2>1, <2>3 DEF Refused, Return, TypeOK, fetch
  <2>4. CASE Start(c)
    BY <2>1, <2>4 DEF Start, TypeOK
  <2>5. CASE Take(c) \/ ErrorEvent(c)
    BY <2>1, <2>5 DEF Take, ErrorEvent, fetch
  <2>6. CASE LeaveLoop(c)
    BY <2>1, <2>6 DEF LeaveLoop, TypeOK, fetch
  <2>7. CASE Stop(c)
    BY <2>1, <2>7 DEF Stop, Return, TypeOK
  <2> QED
    BY <1>2, <2>2, <2>3, <2>4, <2>5, <2>6, <2>7 DEF Step
<1>3. ASSUME NEW p \in Partitions, Resolve(p) \/ Reset(p) \/ Written(p) \/ Deleted(p)
      PROVE  FInv'
  <2>1. TypeOK'
    BY <1>3, PartitionTyped DEF FInv
  <2>2. UNCHANGED <<pc, partition, fetching>>
    BY <1>3 DEF Resolve, Reset, Written, Deleted, call, fetch
  <2> QED
    BY <2>1, <2>2 DEF FInv, Started, Fetched, InLoop
<1> QED
  BY <1>1, <1>2, <1>3 DEF Next

(***************************************************************************)
(* The types hold however the calls overlap.                               *)
(***************************************************************************)
THEOREM TypeCorrect == Spec => []TypeOK
<1>1. FInv => TypeOK
  BY DEF FInv
<1> QED
  BY <1>1, InitFInv, NextFInv, PTL DEF Spec

(***************************************************************************)
(* librdkafka fetches a partition only while some call of consume() reads  *)
(* it, whichever of them started and stopped it.                           *)
(***************************************************************************)
THEOREM NothingFetchedInVain == Spec => []FetchEndsWithCalls
<1>1. FInv => FetchEndsWithCalls
  BY DEF FInv, Fetched, InLoop, FetchEndsWithCalls, Reading
<1> QED
  BY <1>1, InitFInv, NextFInv, PTL DEF Spec

-----------------------------------------------------------------------------
\* A step by one call leaves a call alone that reads another partition.
LEMMA OthersUndisturbed ==
  ASSUME NEW c, CallInv(c),
         UNCHANGED <<pc[c], partition[c], asked[c], inRange[c], results[c], lo, hi>>,
         InLoop(c) => UNCHANGED position[partition[c]]
  PROVE  CallInv(c)'
BY DEF CallInv, InLoop, Ordered, Exact

\* A call outside the loop has taken nothing.
LEMMA NothingTaken ==
  ASSUME NEW c, results[c] = <<>>, ~InLoop(c), ~inRange[c]
  PROVE  CallInv(c)
BY DEF CallInv

\* At the start no call reads anything.
LEMMA InitKInv == Init => KInv
<1> SUFFICES ASSUME Init PROVE KInv
  OBVIOUS
<1>1. FInv /\ Distinct
  BY InitFInv DEF Init, Distinct
<1>2. Bounded
  BY DEF Init, Bounded
<1>3. \A c \in Callers : CallInv(c)
  BY DEF Init, CallInv, InLoop
<1> QED
  BY <1>1, <1>2, <1>3 DEF KInv

\* A call begins to read only a partition that no other call reads.
LEMMA BeginStep ==
  ASSUME ~Shared, KInv, FInv', NEW c \in Callers, Arguments(c)
  PROVE  KInv'
<1>1. PICK p \in Partitions \cup {PARTITION_UA} :
        /\ pc[c] = "idle" /\ (p = PARTITION_UA \/ Reading(p) = {})
        /\ pc' = [pc EXCEPT ![c] = "start"]
        /\ partition' = [partition EXCEPT ![c] = p]
        /\ \A d \in Callers \ {c} : UNCHANGED asked[d]
        /\ UNCHANGED <<inRange, results, position, lo, hi>>
  BY DEF Arguments, Begin, fetch, broker, KInv, FInv, TypeOK
<1>2. Distinct'
  BY <1>1 DEF KInv, FInv, TypeOK, Distinct, Reading
<1>3. Bounded'
  BY <1>1 DEF KInv, Bounded
<1>4. ASSUME NEW d \in Callers PROVE CallInv(d)'
  <2>1. CASE d = c
    BY <1>1, <2>1 DEF KInv, FInv, TypeOK, CallInv, InLoop
  <2>2. CASE d # c
    BY <1>1, <2>2, OthersUndisturbed DEF KInv, FInv, TypeOK
  <2> QED
    BY <2>1, <2>2
<1> QED
  BY <1>2, <1>3, <1>4 DEF KInv

\* start() puts the position where the call asked for it.
LEMMA StartStep ==
  ASSUME KInv, FInv', NEW c \in Callers, Start(c)
  PROVE  KInv'
<1> DEFINE p == partition[c]
<1>1. /\ Distinct' /\ Bounded'
  BY DEF Start, broker, KInv, FInv, TypeOK, Distinct, Bounded
<1>2. p \in Partitions
  BY DEF Start, KInv, FInv, TypeOK
<1>3. CallInv(c)'
  <2>1. results'[c] = <<>> /\ InLoop(c)' /\ partition'[c] = p
    BY DEF Start, KInv, FInv, TypeOK, CallInv, InLoop
  <2>2. position'[p] = asked[c] /\ asked'[c] = asked[c] /\ lo' = lo /\ hi' = hi
    BY <1>2 DEF Start, broker, KInv, FInv, TypeOK
  <2>3. inRange'[c] => asked[c] \in lo[p] .. hi[p]
    BY DEF Start, KInv, FInv, TypeOK
  <2>4. lo[p] \in Offsets /\ hi[p] \in Offsets
    BY <1>2 DEF KInv, FInv, TypeOK
  <2>5. inRange'[c] => asked[c] \in Offsets /\ asked[c] <= hi[p]
    BY <2>3, <2>4, ConsumerAssumption DEF Offsets
  <2>6. Ordered(c)'
    BY <2>1 DEF Ordered
  <2>7. Exact(c)'
    BY <2>1, <2>2, <2>5, ConsumerAssumption DEF Exact, Offsets
  <2> QED
    BY <2>1, <2>6, <2>7 DEF CallInv
<1>4. ASSUME NEW d \in Callers, d # c PROVE CallInv(d)'
  <2>1. InLoop(d) => partition[d] # p
    BY <1>2, <1>4, ConsumerAssumption
       DEF KInv, FInv, Distinct, InLoop, Start, PARTITION_UA
  <2> QED
    BY <1>2, <1>4, <2>1, OthersUndisturbed DEF Start, broker, KInv, FInv, TypeOK
<1> QED
  BY <1>1, <1>3, <1>4 DEF KInv

\* A message is taken: the log's next after all that were taken before.
LEMMA TakeStep ==
  ASSUME KInv, FInv', NEW c \in Callers, Take(c)
  PROVE  KInv'
<1> DEFINE p == partition[c]
           o == position[p]
<1>1. /\ Distinct' /\ Bounded'
  BY DEF Take, broker, KInv, Distinct, Bounded
<1>2. p \in Partitions /\ o \in Offsets
  BY TakenOffset DEF KInv, FInv
<1>3. /\ lo[p] \in Offsets /\ hi[p] \in Offsets /\ o < hi[p]
      /\ results[c] \in Seq(Offsets) /\ asked[c] \in Askable
  BY <1>2, ConsumerAssumption DEF KInv, FInv, TypeOK, Take, HasNext, Offsets
<1>4. CallInv(c)'
  <2>1. /\ InLoop(c) /\ InLoop(c)' /\ partition'[c] = p /\ asked'[c] = asked[c]
        /\ inRange'[c] = inRange[c] /\ lo' = lo /\ hi' = hi
    BY DEF Take, broker, InLoop
  <2>2. results'[c] = Append(results[c], o) /\ position'[p] = o + 1
    BY <1>2 DEF Take, KInv, FInv, TypeOK
  <2> DEFINE n == Len(results[c])
  <2>3. /\ n \in Nat /\ DOMAIN results[c] = 1 .. n
        /\ Len(results'[c]) = n + 1 /\ DOMAIN results'[c] = 1 .. n + 1
        /\ results'[c][n + 1] = o
        /\ \A i \in 1 .. n : results'[c][i] = results[c][i] /\ results[c][i] \in Offsets
    BY <1>2, <1>3, <2>2
  <2>4. Ordered(c) /\ Exact(c)
    BY <2>1 DEF KInv, CallInv
  <2>5. \A i \in 1 .. n : results[c][i] \in Nat /\ results[c][i] < o
    <3>1. \A i \in 1 .. n : results[c][i] < o
      BY <2>3, <2>4 DEF Ordered
    <3>2. Offsets \subseteq Nat
      BY ConsumerAssumption DEF Offsets
    <3> QED
      BY <2>3, <3>1, <3>2
  <2>6. o \in Nat
    BY <1>2, ConsumerAssumption DEF Offsets
  <2>7. Ordered(c)'
    <3>1. ASSUME NEW i \in 1 .. n + 1, NEW j \in 1 .. n + 1, i < j
          PROVE  results'[c][i] < results'[c][j]
      <4>1. i \in 1 .. n /\ results'[c][i] = results[c][i]
        BY <2>3, <3>1
      <4>2. CASE j = n + 1
        BY <2>3, <2>5, <4>1, <4>2
      <4>3. CASE j \in 1 .. n
        BY <2>3, <2>4, <3>1, <4>1, <4>3 DEF Ordered
      <4> QED
        BY <2>3, <4>2, <4>3
    <3>2. ASSUME NEW i \in 1 .. n + 1
          PROVE  results'[c][i] < o + 1
      <4>1. CASE i = n + 1
        BY <2>3, <2>6, <4>1
      <4>2. CASE i \in 1 .. n
        <5>1. results'[c][i] \in Nat /\ results'[c][i] < o
          BY <2>3, <2>5, <4>2
        <5> HIDE DEF n, o
        <5> QED
          BY <2>6, <5>1
      <4> QED
        BY <2>3, <4>1, <4>2
    <3>3. o + 1 <= hi[p]
      BY <1>3, <2>6, ConsumerAssumption DEF Offsets
    <3> HIDE DEF n, o
    <3> QED
      BY <2>1, <2>2, <2>3, <3>1, <3>2, <3>3 DEF Ordered
  <2>8. Exact(c)'
    <3> SUFFICES ASSUME inRange[c], lo[p] <= asked[c]
                 PROVE  /\ o + 1 = asked[c] + (n + 1) /\ o + 1 <= hi[p]
                        /\ \A i \in 1 .. n + 1 : results'[c][i] = asked[c] + i - 1
      BY <2>1, <2>2, <2>3, <2>4 DEF Exact
    <3>1. o = asked[c] + n /\ asked[c] \in Nat
      BY <2>4, ConsumerAssumption DEF Exact, Offsets
    <3>2. \A i \in 1 .. n : results'[c][i] = asked[c] + i - 1
      BY <2>3, <2>4 DEF Exact
    <3>3. o + 1 <= hi[p]
      BY <1>3, <2>6, ConsumerAssumption DEF Offsets
    <3>4. \A i \in 1 .. n + 1 : results'[c][i] = asked[c] + i - 1
      <4> SUFFICES ASSUME NEW i \in 1 .. n + 1 PROVE results'[c][i] = asked[c] + i - 1
        OBVIOUS
      <4>1. CASE i = n + 1
        <5>1. results'[c][i] = o
          BY <2>3, <4>1
        <5> HIDE DEF n, o
        <5> QED
          BY <2>3, <3>1, <4>1, <5>1
      <4>2. CASE i \in 1 .. n
        BY <3>2, <4>2
      <4> QED
        BY <2>3, <4>1, <4>2
    <3>5. o + 1 = asked[c] + (n + 1)
      <4> HIDE DEF n, o
      <4> QED
        BY <2>3, <3>1
    <3> QED
      BY <3>3, <3>4, <3>5
  <2> QED
    BY <2>1, <2>7, <2>8 DEF CallInv
<1>5. ASSUME NEW d \in Callers, d # c PROVE CallInv(d)'
  <2>1. InLoop(d) => partition[d] # p
    BY <1>2, <1>5, ConsumerAssumption
       DEF KInv, FInv, Distinct, InLoop, Take, PARTITION_UA
  <2> QED
    BY <1>2, <1>5, <2>1, OthersUndisturbed DEF Take, broker, KInv, FInv, TypeOK
<1> QED
  BY <1>1, <1>4, <1>5 DEF KInv

\* A round without a message, and the end of the loop, change none of that.
LEMMA RoundStep ==
  ASSUME KInv, FInv', NEW c \in Callers, ErrorEvent(c) \/ LeaveLoop(c)
  PROVE  KInv'
<1>1. /\ UNCHANGED <<partition, asked, inRange, results, position, lo, hi>>
      /\ \A d \in Callers : InLoop(d)' = InLoop(d) /\ (pc'[d] # "idle") = (pc[d] # "idle")
  BY DEF ErrorEvent, LeaveLoop, fetch, broker, InLoop, KInv, FInv, TypeOK
<1>2. Distinct' /\ Bounded'
  BY <1>1 DEF KInv, Distinct, Bounded
<1>3. ASSUME NEW d \in Callers PROVE CallInv(d)'
  BY <1>1 DEF KInv, CallInv, Ordered, Exact
<1> QED
  BY <1>2, <1>3 DEF KInv

\* A call returns; stop() ends the partition of that call only.
LEMMA ReturnStep ==
  ASSUME KInv, FInv', NEW c \in Callers, Refused(c) \/ Stop(c)
  PROVE  KInv'
<1>1. /\ Return(c) /\ UNCHANGED <<lo, hi>> /\ pc[c] # "idle"
      /\ \A q \in Partitions \ {partition[c]} : UNCHANGED position[q]
  BY DEF Refused, Stop, fetch, broker, KInv, FInv, TypeOK
<1>2. Distinct' /\ Bounded'
  BY <1>1 DEF Return, KInv, FInv, TypeOK, Distinct, Bounded
<1>3. CallInv(c)'
  BY <1>1, NothingTaken DEF Return, KInv, FInv, TypeOK, CallInv, InLoop
<1>4. ASSUME NEW d \in Callers, d # c PROVE CallInv(d)'
  <2>1. InLoop(d) => partition[d] # partition[c] /\ partition[d] \in Partitions
    BY <1>1, <1>4 DEF KInv, FInv, Started, TypeOK, Distinct, InLoop
  <2>2. UNCHANGED <<pc[d], partition[d], asked[d], inRange[d], results[d], lo, hi>>
    BY <1>1, <1>4 DEF Return, KInv, FInv, TypeOK
  <2>3. InLoop(d) => UNCHANGED position[partition[d]]
    BY <1>1, <2>1, <2>2
  <2> QED
    BY <2>2, <2>3, OthersUndisturbed DEF KInv
<1> QED
  BY <1>2, <1>3, <1>4 DEF KInv

\* The position moves within the log, forward, and not at all while the next
\* message is there.
LEMMA MovedForward ==
  ASSUME KInv, NEW p \in Partitions, NEW c \in Callers, InLoop(c), partition[c] = p,
         UNCHANGED <<partition, asked, inRange, results, lo, hi>>,
         position'[p] \in Int, position'[p] <= hi[p],
         results[c] # <<>> => position[p] <= position'[p],
         inRange[c] /\ lo[p] <= asked[c] => position'[p] = position[p]
  PROVE  Ordered(c)' /\ Exact(c)'
<1>1. Ordered(c) /\ Exact(c)
  BY DEF KInv, CallInv
<1>2. Exact(c)'
  BY <1>1 DEF Exact
<1>3. /\ results[c] \in Seq(Offsets) /\ position[p] \in Int
      /\ \A i \in DOMAIN results[c] : results[c][i] \in Int
  BY ConsumerAssumption
     DEF KInv, FInv, TypeOK, Askable, Offsets, OFFSET_END, OFFSET_BEGINNING
<1>4. ASSUME NEW i \in DOMAIN results[c]
      PROVE  results[c][i] < position'[p]
  <2>1. results[c] # <<>> /\ results[c][i] < position[p]
    BY <1>1, <1>3, <1>4 DEF Ordered
  <2>2. results[c][i] \in Int /\ position[p] \in Int /\ position[p] <= position'[p]
    BY <1>3, <2>1
  <2> QED
    BY <2>1, <2>2
<1>5. Ordered(c)'
  BY <1>1, <1>4 DEF Ordered
<1> QED
  BY <1>2, <1>5

\* librdkafka resolves or resets the position of a partition.
LEMMA RepositionStep ==
  ASSUME KInv, FInv', NEW p \in Partitions, Resolve(p) \/ Reset(p)
  PROVE  KInv'
<1> USE ConsumerAssumption
<1>1. /\ UNCHANGED <<pc, partition, asked, inRange, results, lo, hi>>
      /\ position' = [position EXCEPT ![p] = position'[p]]
      /\ position'[p] \in {lo[p], hi[p]}
  BY DEF Resolve, Reset, call, broker, KInv, FInv, TypeOK
<1>2. /\ lo[p] \in Nat /\ hi[p] \in Nat /\ lo[p] <= hi[p] /\ position[p] \in Int
  BY DEF KInv, FInv, TypeOK, Bounded, Askable, Offsets, OFFSET_END, OFFSET_BEGINNING
<1>3. position[p] < lo[p] \/ position[p] > hi[p]
  BY <1>2 DEF Resolve, Reset, OFFSET_END, OFFSET_BEGINNING
<1>4. ASSUME NEW c \in Callers, InLoop(c), partition[c] = p
      PROVE  Ordered(c)' /\ Exact(c)'
  <2>1. Ordered(c) /\ Exact(c) /\ asked[c] \in Int
    BY <1>4 DEF KInv, CallInv, FInv, TypeOK, Askable, Offsets, OFFSET_END,
                OFFSET_BEGINNING
  <2>2. results[c] # <<>> => position[p] <= position'[p]
    BY <1>1, <1>2, <1>3, <1>4, <2>1 DEF Ordered
  <2>3. inRange[c] /\ lo[p] <= asked[c] => FALSE
    BY <1>2, <1>3, <1>4, <2>1 DEF Exact
  <2> QED
    BY <1>1, <1>2, <1>4, <2>2, <2>3, MovedForward
<1>5. ASSUME NEW c \in Callers, InLoop(c), partition[c] # p
      PROVE  CallInv(c)'
  <2>1. position'[partition[c]] = position[partition[c]]
    BY <1>1, <1>5 DEF KInv, FInv, Started, TypeOK
  <2> QED
    BY <1>1, <2>1, OthersUndisturbed DEF KInv
<1>6. \A c \in Callers : CallInv(c)'
  BY <1>1, <1>4, <1>5 DEF KInv, CallInv, InLoop
<1>7. Distinct' /\ Bounded'
  BY <1>1 DEF KInv, Distinct, Bounded
<1> QED
  BY <1>6, <1>7 DEF KInv

\* The broker's log grows at its end and shrinks at its start.
LEMMA BrokerStep ==
  ASSUME KInv, FInv', NEW p \in Partitions, Written(p) \/ Deleted(p)
  PROVE  KInv'
<1> USE ConsumerAssumption
<1>1. /\ UNCHANGED <<pc, partition, asked, inRange, results, position>>
      /\ \A q \in Partitions : /\ lo[q] \in Nat /\ hi[q] \in Nat
                               /\ lo'[q] \in Nat /\ hi'[q] \in Nat
                               /\ lo[q] <= lo'[q] /\ hi[q] <= hi'[q] /\ lo'[q] <= hi'[q]
  <2>1. UNCHANGED <<pc, partition, asked, inRange, results, position>>
    BY DEF Written, Deleted, call, fetch
  <2>2. \A q \in Partitions : lo[q] \in Nat /\ hi[q] \in Nat /\ lo[q] <= hi[q]
    BY DEF KInv, FInv, TypeOK, Bounded, Offsets
  <2>3. CASE Written(p)
    <3>1. lo' = lo /\ hi' = [hi EXCEPT ![p] = hi[p] + 1] /\ hi \in [Partitions -> Offsets]
      BY <2>3 DEF Written, KInv, FInv, TypeOK
    <3> QED
      BY <2>1, <2>2, <3>1
  <2>4. CASE Deleted(p)
    <3>1. /\ hi' = hi /\ lo' = [lo EXCEPT ![p] = lo[p] + 1] /\ lo[p] < hi[p]
          /\ lo \in [Partitions -> Offsets]
      BY <2>4 DEF Deleted, KInv, FInv, TypeOK
    <3> QED
      BY <2>1, <2>2, <3>1
  <2> QED
    BY <2>3, <2>4
<1>2. ASSUME NEW c \in Callers, InLoop(c)
      PROVE  Ordered(c)' /\ Exact(c)'
  <2> DEFINE q == partition[c]
  <2>1. /\ Ordered(c) /\ Exact(c) /\ q \in Partitions /\ position[q] \in Int
        /\ asked[c] \in Int
    BY <1>2 DEF KInv, CallInv, FInv, Started, TypeOK, Askable, Offsets, OFFSET_END,
                OFFSET_BEGINNING
  <2>2. lo'[q] <= asked[c] => lo[q] <= asked[c]
    BY <1>1, <2>1
  <2>3. position[q] <= hi[q] => position[q] <= hi'[q]
    BY <1>1, <2>1
  <2>4. Ordered(c)'
    BY <1>1, <2>1, <2>3 DEF Ordered
  <2>5. Exact(c)'
    BY <1>1, <2>1, <2>2, <2>3 DEF Exact
  <2> QED
    BY <2>4, <2>5
<1>3. \A c \in Callers : CallInv(c)'
  BY <1>1, <1>2 DEF KInv, CallInv, InLoop
<1>4. Distinct' /\ Bounded'
  BY <1>1 DEF KInv, Distinct, Bounded
<1> QED
  BY <1>3, <1>4 DEF KInv

\* Every step keeps the invariant, if no two calls read one partition.
LEMMA NextKInv ==
  ASSUME ~Shared
  PROVE  KInv /\ [Next]_vars => KInv'
<1> SUFFICES ASSUME KInv, [Next]_vars PROVE KInv'
  OBVIOUS
<1>1. FInv'
  BY NextFInv DEF KInv
<1>2. CASE UNCHANGED vars
  BY <1>1, <1>2 DEF vars, KInv, Distinct, Bounded, CallInv, InLoop, Ordered, Exact
<1>3. CASE Next
  BY <1>1, <1>3, BeginStep, StartStep, TakeStep, RoundStep, ReturnStep, RepositionStep,
     BrokerStep DEF Next, Step
<1> QED
  BY <1>2, <1>3

\* The invariant holds in every reachable state.
LEMMA Invariance ==
  ASSUME ~Shared
  PROVE  Spec => []KInv
BY InitKInv, NextKInv, PTL DEF Spec

-----------------------------------------------------------------------------
(***************************************************************************)
(* The messages of a call are strictly increasing offsets of the log, with *)
(* whatever offset it began, and whatever was written, deleted and reset   *)
(* while it ran.                                                           *)
(***************************************************************************)
THEOREM MessagesInOrder ==
  ASSUME ~Shared
  PROVE  Spec => []InLogOrder
<1>1. KInv => InLogOrder
  <2> SUFFICES ASSUME KInv, NEW c \in Callers
               PROVE  /\ \A i, j \in DOMAIN results[c] : i < j => results[c][i] < results[c][j]
                      /\ \A i \in DOMAIN results[c] : results[c][i] < hi[partition[c]]
    BY DEF InLogOrder
  <2>1. CASE InLoop(c)
    <3>1. Ordered(c)
      BY <2>1 DEF KInv, CallInv
    <3>2. /\ partition[c] \in Partitions /\ position[partition[c]] \in Int
          /\ hi[partition[c]] \in Int
      BY <2>1, ConsumerAssumption DEF KInv, FInv, Started, TypeOK, Askable, Offsets,
                                      OFFSET_END, OFFSET_BEGINNING
    <3>3. \A i \in DOMAIN results[c] : results[c][i] \in Int
      BY ConsumerAssumption DEF KInv, FInv, TypeOK, Offsets
    <3>4. ASSUME NEW i \in DOMAIN results[c] PROVE results[c][i] < hi[partition[c]]
      <4>1. /\ results[c] # <<>> /\ results[c][i] \in Int
            /\ results[c][i] < position[partition[c]]
        BY <3>1, <3>3, <3>4 DEF KInv, FInv, TypeOK, Ordered
      <4>2. position[partition[c]] <= hi[partition[c]]
        BY <3>1, <4>1 DEF Ordered
      <4> QED
        BY <3>2, <4>1, <4>2
    <3> QED
      BY <3>1, <3>4 DEF Ordered
  <2>2. CASE ~InLoop(c)
    BY <2>2 DEF KInv, CallInv
  <2> QED
    BY <2>1, <2>2
<1> QED
  BY <1>1, Invariance, PTL

(***************************************************************************)
(* A call that asked for an offset the partition has gets the messages     *)
(* from it on, without gap or repetition, unless retention deletes the     *)
(* asked offset before the call has ended.                                 *)
(***************************************************************************)
THEOREM ReadsWhatWasAsked ==
  ASSUME ~Shared
  PROVE  Spec => []ReadsFromAsked
<1>1. KInv => ReadsFromAsked
  BY DEF KInv, CallInv, Exact, ReadsFromAsked
<1> QED
  BY <1>1, Invariance, PTL
=============================================================================
