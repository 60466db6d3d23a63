--------------------------- MODULE JsonRpcSession ---------------------------
(***************************************************************************)
(* What a client of the stdio transport may rely on, whatever the server   *)
(* does between a line and its answer: lines are dealt with one after the  *)
(* other; a call (a request with an id) gets exactly one answer, with its  *)
(* id, before the next line is looked at; a line without an id gets at     *)
(* most one, with a null id; the session ends between two lines, except    *)
(* that a line that is not readable as JSON may end it.                    *)
(***************************************************************************)
EXTENDS Sequences

CONSTANTS Ids, NoId

VARIABLES
  owed,     \* what the line in hand is owed
  answers,  \* the ids of the answers written so far
  over      \* whether the session has ended

vars == <<owed, answers, over>>

nothing == [sort |-> "nothing", id |-> NoId]
Claims == [sort : {"call"}, id : Ids] \cup [sort : {"note", "unreadable"}, id : {NoId}]

Init == owed = nothing /\ answers = <<>> /\ over = FALSE

Receive ==
  /\ ~over /\ owed = nothing
  /\ owed' \in Claims
  /\ UNCHANGED <<answers, over>>

Answer ==
  /\ ~over /\ owed # nothing
  /\ answers' = Append(answers, owed.id)
  /\ owed' = nothing
  /\ UNCHANGED over

Silence ==
  /\ ~over /\ owed.sort = "note"
  /\ owed' = nothing
  /\ UNCHANGED <<answers, over>>

Close ==
  /\ ~over /\ owed.sort \in {"nothing", "unreadable"}
  /\ over' = TRUE
  /\ owed' = nothing
  /\ UNCHANGED answers

Next == Receive \/ Answer \/ Silence \/ Close

Spec == Init /\ [][Next]_vars
=============================================================================
