--------------------------- MODULE KafkaConsumer ---------------------------
(***************************************************************************)
(* KafkaConsumer::consume() over the librdkafka consumer it wraps.         *)
(*                                                                         *)
(* A call starts fetching one partition from an offset, takes messages one *)
(* at a time until it has asked max_messages times or one wait timed out,  *)
(* and stops the partition. The timeout is the client's, unchecked, and -1 *)
(* makes librdkafka wait without end. librdkafka keeps one fetch state for *)
(* each partition of its client: start() moves it, consume() takes from    *)
(* it, stop() ends it, whichever call started it. The handler of the gRPC  *)
(* server calls consume() from all its worker threads on one client; the   *)
(* stdio transport has one thread, and a client for each call.             *)
(*                                                                         *)
(* A message is its offset. A partition holds the offsets from lo up to,   *)
(* not including, hi. connect() is the subject of module ClientHandle.     *)
(***************************************************************************)
EXTENDS Integers, Sequences

CONSTANTS
  Callers,      \* threads that may be inside consume()
  Partitions,   \* the partitions of the topic
  MaxMessages,  \* max_messages_per_request of the configuration
  MaxOffset,    \* bound on the offsets appended, for model checking
  Shared        \* whether two calls may read one partition at once

ASSUME ConsumerAssumption ==
  /\ MaxMessages \in Nat /\ MaxOffset \in Nat /\ Shared \in BOOLEAN
  /\ -1 \notin Partitions

\* RdKafka::Topic: PARTITION_UA, and the two logical offsets a client may ask for.
PARTITION_UA == -1
OFFSET_END == -1
OFFSET_BEGINNING == -2
Offsets == 0 .. MaxOffset
Askable == Offsets \cup {OFFSET_END, OFFSET_BEGINNING}

VARIABLES
  pc,        \* where each call is
  partition, \* its arguments: the partition,
  asked,     \*   start_offset,
  left,      \*   how many of max_messages waits are left,
  endless,   \*   and whether timeout_ms is -1
  inRange,   \* whether the partition had the asked offset, or ended there, at start()
  results,   \* the offsets it has taken
  fetching,  \* whether the client fetches each partition
  position,  \* the next offset to take from it, or a logical one to resolve
  lo, hi     \* what the broker holds

call == <<pc, partition, asked, left, endless, inRange, results>>
fetch == <<fetching, position>>
broker == <<lo, hi>>
vars == <<pc, partition, asked, left, endless, inRange, results, fetching, position, lo, hi>>

Init ==
  /\ pc = [c \in Callers |-> "idle"]
  /\ partition = [c \in Callers |-> PARTITION_UA]
  /\ asked = [c \in Callers |-> OFFSET_END]
  /\ left = [c \in Callers |-> 0]
  /\ endless = [c \in Callers |-> FALSE]
  /\ inRange = [c \in Callers |-> FALSE]
  /\ results = [c \in Callers |-> <<>>]
  /\ fetching = [p \in Partitions |-> FALSE]
  /\ position = [p \in Partitions |-> OFFSET_END]
  /\ lo = [p \in Partitions |-> 0]
  /\ hi = [p \in Partitions |-> 0]

Reading(p) == {c \in Callers : pc[c] # "idle" /\ partition[c] = p}

\* The call returns its results; its variables go out of scope.
Return(c) ==
  /\ pc' = [pc EXCEPT ![c] = "idle"]
  /\ partition' = [partition EXCEPT ![c] = PARTITION_UA]
  /\ asked' = [asked EXCEPT ![c] = OFFSET_END]
  /\ left' = [left EXCEPT ![c] = 0]
  /\ endless' = [endless EXCEPT ![c] = FALSE]
  /\ inRange' = [inRange EXCEPT ![c] = FALSE]
  /\ results' = [results EXCEPT ![c] = <<>>]

-----------------------------------------------------------------------------
(* consume() is called; the handlers have capped max_messages. *)
Begin(c, p, o, n, e) ==
  /\ pc[c] = "idle"
  /\ Shared \/ p = PARTITION_UA \/ Reading(p) = {}
  /\ pc' = [pc EXCEPT ![c] = "start"]
  /\ partition' = [partition EXCEPT ![c] = p]
  /\ asked' = [asked EXCEPT ![c] = o]
  /\ left' = [left EXCEPT ![c] = n]
  /\ endless' = [endless EXCEPT ![c] = e]
  /\ UNCHANGED <<inRange, results, fetch, broker>>

\* Not connected, no topic handle, or start() refused, as for PARTITION_UA: no messages.
Refused(c) ==
  /\ pc[c] = "start" /\ Return(c)
  /\ UNCHANGED <<fetch, broker>>

\* Mutant: the offset is taken for the last one that was read.
Start_AfterAsked(c) ==
  LET p == partition[c] IN
  /\ pc[c] = "start" /\ p # PARTITION_UA
  /\ fetching' = [fetching EXCEPT ![p] = TRUE]
  /\ position' = [position EXCEPT ![p] = IF asked[c] \in 0 .. MaxOffset - 1
                                        THEN asked[c] + 1 ELSE asked[c]]
  /\ inRange' = [inRange EXCEPT ![c] = asked[c] \in lo[p] .. hi[p]]
  /\ pc' = [pc EXCEPT ![c] = "loop"]
  /\ UNCHANGED <<partition, asked, left, endless, results, broker>>

\* start() moves the partition's fetch state, also when it was fetching.
Start(c) ==
  LET p == partition[c] IN
  /\ pc[c] = "start" /\ p # PARTITION_UA
  /\ fetching' = [fetching EXCEPT ![p] = TRUE]
  /\ position' = [position EXCEPT ![p] = asked[c]]
  /\ inRange' = [inRange EXCEPT ![c] = asked[c] \in lo[p] .. hi[p]]
  /\ pc' = [pc EXCEPT ![c] = "loop"]
  /\ UNCHANGED <<partition, asked, left, endless, results, broker>>

\* The next message of the partition is there to be taken.
HasNext(p) == fetching[p] /\ position[p] \in lo[p] .. hi[p] - 1

\* Mutant: the same message is taken again.
Take_Again(c) ==
  LET p == partition[c] IN
  /\ pc[c] = "loop" /\ left[c] > 0
  /\ HasNext(p)
  /\ results' = [results EXCEPT ![c] = Append(@, position[p])]
  /\ left' = [left EXCEPT ![c] = @ - 1]
  /\ UNCHANGED <<pc, partition, asked, endless, inRange, fetch, broker>>

\* One round of the loop that got a message.
Take(c) ==
  LET p == partition[c] IN
  /\ pc[c] = "loop" /\ left[c] > 0
  /\ HasNext(p)
  /\ results' = [results EXCEPT ![c] = Append(@, position[p])]
  /\ position' = [position EXCEPT ![p] = @ + 1]
  /\ left' = [left EXCEPT ![c] = @ - 1]
  /\ UNCHANGED <<pc, partition, asked, endless, inRange, fetching, broker>>

\* Mutant: the loop runs once more than max_messages.
ErrorEvent_OnceMore(c) ==
  /\ pc[c] = "loop" /\ left[c] >= 0
  /\ left' = [left EXCEPT ![c] = @ - 1]
  /\ UNCHANGED <<pc, partition, asked, endless, inRange, results, fetch, broker>>

\* A round that got an error event: logged, skipped, and counted.
ErrorEvent(c) ==
  /\ pc[c] = "loop" /\ left[c] > 0
  /\ left' = [left EXCEPT ![c] = @ - 1]
  /\ UNCHANGED <<pc, partition, asked, endless, inRange, results, fetch, broker>>

\* Mutants: the loop waits until it has something to return; it returns without stop().
LeaveLoop_WithMessages(c) ==
  /\ pc[c] = "loop"
  /\ left[c] = 0 \/ results[c] # <<>>
  /\ pc' = [pc EXCEPT ![c] = "stop"]
  /\ UNCHANGED <<partition, asked, left, endless, inRange, results, fetch, broker>>
LeaveLoop_Returning(c) == pc[c] = "loop" /\ Return(c) /\ UNCHANGED <<fetch, broker>>

\* A round whose wait timed out, as it may unless it is endless, or no round left.
LeaveLoop(c) ==
  /\ pc[c] = "loop"
  /\ left[c] = 0 \/ ~endless[c]
  /\ pc' = [pc EXCEPT ![c] = "stop"]
  /\ UNCHANGED <<partition, asked, left, endless, inRange, results, fetch, broker>>

\* stop() ends the partition's fetch state; the position means nothing from then on.
Stop(c) ==
  /\ pc[c] = "stop" /\ Return(c)
  /\ fetching' = [fetching EXCEPT ![partition[c]] = FALSE]
  /\ position' = [position EXCEPT ![partition[c]] = OFFSET_END]
  /\ UNCHANGED broker

-----------------------------------------------------------------------------
(* librdkafka resolves a logical offset. *)
Resolve(p) ==
  /\ fetching[p]
  /\ \/ position[p] = OFFSET_END /\ position' = [position EXCEPT ![p] = hi[p]]
     \/ position[p] = OFFSET_BEGINNING /\ position' = [position EXCEPT ![p] = lo[p]]
  /\ UNCHANGED <<call, fetching, broker>>

\* An offset out of range: librdkafka resets it, by policy to either end.
Reset(p) ==
  /\ fetching[p]
  /\ position[p] \in Offsets /\ position[p] \notin lo[p] .. hi[p]
  /\ \E o \in {lo[p], hi[p]} : position' = [position EXCEPT ![p] = o]
  /\ UNCHANGED <<call, fetching, broker>>

\* Somebody writes to the partition.
Written(p) ==
  /\ hi[p] < MaxOffset
  /\ hi' = [hi EXCEPT ![p] = @ + 1]
  /\ UNCHANGED <<call, fetch, lo>>

\* Retention deletes its oldest message.
Deleted(p) ==
  /\ lo[p] < hi[p]
  /\ lo' = [lo EXCEPT ![p] = @ + 1]
  /\ UNCHANGED <<call, fetch, hi>>

Arguments(c) ==
  \E p \in Partitions \cup {PARTITION_UA}, o \in Askable, n \in 0 .. MaxMessages,
     e \in BOOLEAN :
    Begin(c, p, o, n, e)
Step(c) == Refused(c) \/ Start(c) \/ Take(c) \/ LeaveLoop(c) \/ Stop(c)

Next ==
  \/ \E c \in Callers : Arguments(c) \/ Step(c) \/ ErrorEvent(c)
  \/ \E p \in Partitions : Resolve(p) \/ Reset(p) \/ Written(p) \/ Deleted(p)

Spec == Init /\ [][Next]_vars

(***************************************************************************)
(* Every call into librdkafka returns, with a message that is there or at  *)
(* the latest by its timeout, if it has one. No error event is owed.       *)
(***************************************************************************)
FairSpec == Spec /\ \A c \in Callers : WF_vars(Step(c))

-----------------------------------------------------------------------------
TypeOK ==
  /\ pc \in [Callers -> {"idle", "start", "loop", "stop"}]
  /\ partition \in [Callers -> Partitions \cup {PARTITION_UA}]
  /\ asked \in [Callers -> Askable]
  /\ left \in [Callers -> 0 .. MaxMessages]
  /\ endless \in [Callers -> BOOLEAN] /\ inRange \in [Callers -> BOOLEAN]
  /\ results \in [Callers -> Seq(Offsets)]
  /\ fetching \in [Partitions -> BOOLEAN]
  /\ position \in [Partitions -> Askable]
  /\ lo \in [Partitions -> Offsets] /\ hi \in [Partitions -> Offsets]

(***************************************************************************)
(* A call that asked for an offset the partition has gets the messages     *)
(* from that offset on, none twice and none left out, as long as retention *)
(* has not overtaken it.                                                   *)
(***************************************************************************)
ReadsFromAsked ==
  \A c \in Callers :
    inRange[c] /\ lo[partition[c]] <= asked[c]
      => \A i \in DOMAIN results[c] : results[c][i] = asked[c] + i - 1

(***************************************************************************)
(* Whatever was asked, a call's messages are in the order of the log, and  *)
(* they are in the log or were deleted from it.                            *)
(***************************************************************************)
InLogOrder ==
  \A c \in Callers :
    /\ \A i, j \in DOMAIN results[c] : i < j => results[c][i] < results[c][j]
    /\ \A i \in DOMAIN results[c] : results[c][i] < hi[partition[c]]

(***************************************************************************)
(* No partition is fetched, into memory nobody will read, once no call     *)
(* reads it.                                                               *)
(***************************************************************************)
FetchEndsWithCalls == \A p \in Partitions : fetching[p] => Reading(p) # {}

(***************************************************************************)
(* Every call with a timeout returns, whatever the broker does, and a call *)
(* without one returns unless a message it waits for never comes.          *)
(***************************************************************************)
Starved(c) ==
  /\ endless[c] /\ pc[c] = "loop" /\ left[c] > 0
  /\ ~HasNext(partition[c])
EveryCallReturns == \A c \in Callers : (pc[c] # "idle") ~> (pc[c] = "idle" \/ Starved(c))
=============================================================================
