---------------------------- MODULE Publication ----------------------------
(***************************************************************************)
(* What the produce_message tool promises for each message a client wants  *)
(* published, whatever threads, queues and brokers lie behind it:          *)
(*                                                                         *)
(*   - a message is accepted at most once: a refused one may be offered    *)
(*     again, an accepted one never is;                                    *)
(*   - only an accepted message can reach the topic;                       *)
(*   - an accepted message is confirmed only when it is in the topic, and  *)
(*     what has been decided about it is never revised.                    *)
(*                                                                         *)
(* An accepted message may also end unconfirmed (its delivery report is an *)
(* error, or the client object is destroyed first), and a write that was   *)
(* already under way may still land after that.                            *)
(***************************************************************************)
CONSTANT Messages

VARIABLES
  promise,    \* what the tool has told, or knows, about each message
  published   \* the messages that are in the topic

vars == <<promise, published>>

Open == {"unclaimed", "refused"}
Settled == {"confirmed", "unconfirmed"}

Init ==
  /\ promise = [m \in Messages |-> "unclaimed"]
  /\ published = {}

\* The call reports an error: nothing was taken over.
Refuse(m) ==
  /\ promise[m] \in Open
  /\ promise' = [promise EXCEPT ![m] = "refused"]
  /\ UNCHANGED published

\* The message is taken over.
Accept(m) ==
  /\ promise[m] \in Open
  /\ promise' = [promise EXCEPT ![m] = "accepted"]
  /\ UNCHANGED published

\* An accepted message lands in the topic, late or not.
Publish(m) ==
  /\ promise[m] \notin Open
  /\ published' = published \cup {m}
  /\ UNCHANGED promise

\* Some accepted messages are settled: the confirmed ones are in the topic.
Settle(confirmed, unconfirmed) ==
  /\ \A m \in confirmed \cup unconfirmed : promise[m] = "accepted"
  /\ confirmed \subseteq published
  /\ promise' = [m \in Messages |->
                   IF m \in confirmed THEN "confirmed"
                   ELSE IF m \in unconfirmed THEN "unconfirmed"
                   ELSE promise[m]]
  /\ UNCHANGED published

Next ==
  \/ \E m \in Messages : Refuse(m) \/ Accept(m) \/ Publish(m)
  \/ \E confirmed, unconfirmed \in SUBSET Messages : Settle(confirmed, unconfirmed)

Spec == Init /\ [][Next]_vars
=============================================================================
