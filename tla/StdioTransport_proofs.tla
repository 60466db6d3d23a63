----------------------- MODULE StdioTransport_proofs -----------------------
(***************************************************************************)
(* What a client of the stdio transport may rely on, for every set of ids  *)
(* and any number of lines: run() with its handlers implements module      *)
(* JsonRpcSession.                                                         *)
(***************************************************************************)
EXTENDS StdioTransport, SequenceTheorems, TLAPS

(***************************************************************************)
(* Why: only a line that was parsed is handled, and notifications never    *)
(* get as far as an answer; so whatever is about to be written, by run()   *)
(* or by its catch clause, belongs to the line in hand.                    *)
(***************************************************************************)
Handling == {"handle", "dispatch", "leave", "write", "rescue"}
Answering == Handling \ {"handle"}

InHand ==
  /\ pc \in Handling => line.kind \in Readable
  /\ pc \in Answering => line.kind # "initialized"
  /\ pc = "leave" => reply = none \/ reply.id = line.id
  /\ pc = "write" => reply # none /\ reply.id = line.id

TInv == TypeOK /\ InHand

-----------------------------------------------------------------------------
\* No line was read, and nothing was written.
LEMMA InitTInv == Init => TInv
<1> SUFFICES ASSUME Init PROVE TInv
  OBVIOUS
<1>1. taken \in 0 .. MaxLines /\ answers \in Seq([id : Ids \cup {NoId}, code : Codes])
  BY StdioAssumption DEF Init
<1>2. line \in Lines /\ reply \in Replies
  BY DEF Init, Lines, Replies
<1> QED
  BY <1>1, <1>2 DEF Init, TInv, TypeOK, InHand, Positions, Handling, Answering

\* What is written is an answer with the id of some line, or with none.
LEMMA Emitted ==
  ASSUME TypeOK, NEW id \in Ids \cup {NoId}, NEW code \in Codes, Emit(id, code)
  PROVE  answers' \in Seq([id : Ids \cup {NoId}, code : Codes])
BY DEF TypeOK, Emit

\* The id of a line is a request id or absent.
LEMMA LineId == ASSUME TypeOK PROVE line.id \in Ids \cup {NoId}
BY DEF TypeOK, Lines

\* A response to the line in hand is one.
LEMMA Responded ==
  ASSUME TypeOK, NEW code \in Codes, NEW utf8 \in BOOLEAN
  PROVE  /\ Response(code, utf8) \in Replies /\ Response(code, utf8) # none
         /\ Response(code, utf8).id = line.id
<1>1. Response(code, utf8) \in [id : Ids \cup {NoId}, code : Codes, utf8 : BOOLEAN]
  BY LineId DEF Response
<1>2. Response(code, utf8).code = code /\ none.code = "none" /\ code # "none"
  BY DEF Response, none, Codes
<1> QED
  BY <1>1, <1>2 DEF Replies, Response

\* run(): a line is read, skipped, refused by the parser or handed on.
LEMMA ReadStep ==
  ASSUME TInv, CloseStdin \/ ReadLine \/ EndOfInput \/ Skip \/ ParseError \/ ParseDies \/ Parsed
  PROVE  TInv'
<1> USE DEF TInv, TypeOK, InHand, Positions, Handling, Answering
<1>1. CASE CloseStdin
  BY <1>1 DEF CloseStdin
<1>2. CASE ReadLine
  <2>1. taken' \in 0 .. MaxLines
    BY <1>2, StdioAssumption DEF ReadLine
  <2> QED
    BY <1>2, <2>1 DEF ReadLine
<1>3. CASE EndOfInput
  BY <1>3 DEF EndOfInput
<1>4. CASE Skip
  BY <1>4 DEF Skip
<1>5. CASE ParseError
  <2>1. answers' \in Seq([id : Ids \cup {NoId}, code : Codes])
    BY <1>5, Emitted DEF ParseError, Codes
  <2> QED
    BY <1>5, <2>1 DEF ParseError
<1>6. CASE ParseDies
  BY <1>6 DEF ParseDies
<1>7. CASE Parsed
  BY <1>7 DEF Parsed
<1> QED
  BY <1>1, <1>2, <1>3, <1>4, <1>5, <1>6, <1>7

\* handle_message() builds a response to the line, none, or throws.
LEMMA HandleStep ==
  ASSUME TInv, HandleAtOnce \/ HandleInitialized \/ HandleThrows \/ OpenDispatcher
  PROVE  TInv'
<1> USE DEF TInv, TypeOK, InHand, Positions, Handling, Answering
<1>1. CASE HandleAtOnce
  <2>1. AnswerTo[line.kind] \in Codes
    BY <1>1 DEF HandleAtOnce, AnswerTo, Codes
  <2>2. line.kind # "initialized"
    BY <1>1 DEF HandleAtOnce, AnswerTo
  <2> QED
    BY <1>1, <2>1, <2>2, Responded DEF HandleAtOnce
<1>2. CASE HandleInitialized
  BY <1>2 DEF HandleInitialized
<1>3. CASE HandleThrows
  BY <1>3 DEF HandleThrows
<1>4. CASE OpenDispatcher
  BY <1>4 DEF OpenDispatcher, Calls
<1> QED
  BY <1>1, <1>2, <1>3, <1>4

\* dispatch() returns a result or an error for the line, or throws.
LEMMA DispatchStep ==
  ASSUME TInv, Dispatch \/ CloseDispatcher
  PROVE  TInv'
<1> USE DEF TInv, TypeOK, InHand, Positions, Handling, Answering
<1>1. CASE Dispatch
  <2>1. \/ reply' = none
        \/ \E code \in Codes, utf8 \in BOOLEAN : reply' = Response(code, utf8)
    BY <1>1 DEF Dispatch, Succeeds, Fails, Throws, Codes
  <2>2. reply' \in Replies /\ (reply' = none \/ reply'.id = line.id)
    BY <2>1, Responded DEF Replies
  <2> QED
    BY <1>1, <2>2 DEF Dispatch
<1>2. CASE CloseDispatcher
  BY <1>2 DEF CloseDispatcher
<1> QED
  BY <1>1, <1>2

\* The answer is written, by run() or by its catch clause.
LEMMA WriteStep ==
  ASSUME TInv, Write \/ WriteThrows \/ Rescue
  PROVE  TInv'
<1> USE DEF TInv, TypeOK, InHand, Positions, Handling, Answering
<1>1. none \in Replies
  BY DEF Replies
<1>2. CASE Write
  <2>1. reply.id \in Ids \cup {NoId} /\ reply.code \in Codes
    BY <1>2 DEF Write, Replies
  <2>2. answers' \in Seq([id : Ids \cup {NoId}, code : Codes])
    BY <1>2, <2>1, Emitted DEF Write
  <2> QED
    BY <1>1, <1>2, <2>2 DEF Write
<1>3. CASE WriteThrows
  BY <1>1, <1>3 DEF WriteThrows
<1>4. CASE Rescue
  <2>1. answers' \in Seq([id : Ids \cup {NoId}, code : Codes])
    BY <1>4, LineId, Emitted DEF Rescue, Codes
  <2> QED
    BY <1>4, <2>1 DEF Rescue
<1> QED
  BY <1>2, <1>3, <1>4

\* Every step keeps the invariant.
LEMMA NextTInv == TInv /\ [Next]_vars => TInv'
<1>1. TInv /\ UNCHANGED vars => TInv'
  BY DEF vars, TInv, TypeOK, InHand
<1>2. TInv /\ Next => TInv'
  BY ReadStep, HandleStep, DispatchStep, WriteStep DEF Next, Work
<1> QED
  BY <1>1, <1>2

\* The invariant holds in every reachable state.
LEMMA TransportInvariance == Spec => []TInv
BY InitTInv, NextTInv, PTL DEF Spec

(***************************************************************************)
(* The state of the transport stays within its types; in particular every  *)
(* answer carries the id of a request, or null, and a known code.          *)
(***************************************************************************)
THEOREM TransportTyped == Spec => []TypeOK
<1>1. TInv => TypeOK
  BY DEF TInv
<1> QED
  BY <1>1, TransportInvariance, PTL

-----------------------------------------------------------------------------
(***************************************************************************)
(* The refinement: what the line in hand is owed, before and after a step. *)
(***************************************************************************)
Nothing == [sort |-> "nothing", id |-> NoId]
Owed == IF pc = "read" \/ Over THEN Nothing ELSE Claim
Ided == [i \in DOMAIN answers |-> answers[i].id]

\* The refinement mapping of module StdioTransport, under these names.
LEMMA Mapping ==
  /\ Session!Init <=> Owed = Nothing /\ Ided = <<>> /\ Over = FALSE
  /\ Session!Receive <=> /\ ~Over /\ Owed = Nothing /\ Owed' \in Session!Claims
                         /\ Ided' = Ided /\ Over' = Over
  /\ Session!Answer <=> /\ ~Over /\ Owed # Nothing /\ Ided' = Append(Ided, Owed.id)
                        /\ Owed' = Nothing /\ Over' = Over
  /\ Session!Silence <=> /\ ~Over /\ Owed.sort = "note" /\ Owed' = Nothing
                         /\ Ided' = Ided /\ Over' = Over
  /\ Session!Close <=> /\ ~Over /\ Owed.sort \in {"nothing", "unreadable"} /\ Over' = TRUE
                       /\ Owed' = Nothing /\ Ided' = Ided
  /\ UNCHANGED Session!vars <=> Owed' = Owed /\ Ided' = Ided /\ Over' = Over
BY DEF Session!Init, Session!Receive, Session!Answer, Session!Silence, Session!Close,
       Session!vars, Session!nothing, Nothing, Owed, Ided, Over

\* A line that waits for its answer is owed something, and what it is owed has its id.
LEMMA Claimed ==
  ASSUME line.id \in Ids \cup {NoId}
  PROVE  /\ Claim # Nothing
         /\ line.kind \in Readable \ {"initialized"} => Claim.id = line.id
         /\ line.kind \in Unreadable /\ line.id = NoId => Claim.sort = "unreadable"
<1>1. Claim.sort \in {"call", "note", "unreadable"} /\ Nothing.sort = "nothing"
  BY DEF Claim, Nothing
<1>2. line.kind \in Unreadable /\ line.id = NoId => Claim.sort = "unreadable"
  BY DEF Claim, IsCall
<1>3. line.kind # "initialized" => Claim.id = line.id
  BY DEF Claim, IsCall
<1> QED
  BY <1>1, <1>2, <1>3

\* Whatever line is read next, the session knows what it is owed.
LEMMA ClaimKnown == ASSUME line' \in Lines PROVE Claim' \in Session!Claims
<1>1. /\ line'.kind \in Unreadable \cup {"blank"} => line'.id = NoId
      /\ line'.id \in Ids \cup {NoId}
  BY DEF Lines, Readable, Unreadable, Calls
<1> QED
  BY <1>1 DEF Claim, IsCall, Session!Claims, Unreadable

\* Writing an answer appends its id.
LEMMA IdsAppended ==
  ASSUME TypeOK, NEW id \in Ids \cup {NoId}, NEW code \in Codes, Emit(id, code)
  PROVE  Ided' = Append(Ided, id)
<1> DEFINE Answer == [id : Ids \cup {NoId}, code : Codes]
           answer == [id |-> id, code |-> code]
           n == Len(answers)
<1>1. answers \in Seq(Answer) /\ answer \in Answer /\ answers' = Append(answers, answer)
  BY DEF TypeOK, Emit
<1> HIDE DEF Answer, answer
<1>2. /\ n \in Nat /\ DOMAIN answers = 1 .. n
      /\ answers' \in Seq(Answer) /\ Len(answers') = n + 1 /\ DOMAIN answers' = 1 .. n + 1
      /\ \A i \in 1 .. n : answers'[i] = answers[i]
      /\ answers'[n + 1] = answer
  BY <1>1
<1>3. \A i \in 1 .. n + 1 : answers'[i] \in Answer
  BY <1>2
<1>4. /\ answer.id = id /\ \A a \in Answer : a.id \in Ids \cup {NoId}
  BY DEF Answer, answer
<1>5. /\ Ided \in Seq(Ids \cup {NoId}) /\ Len(Ided) = n
      /\ \A i \in 1 .. n : Ided[i] = answers[i].id
  BY <1>1, <1>2, <1>4 DEF Ided
<1>6. /\ Ided' \in Seq(Ids \cup {NoId}) /\ Len(Ided') = n + 1
      /\ \A i \in 1 .. n + 1 : Ided'[i] = answers'[i].id
  BY <1>2, <1>3, <1>4 DEF Ided
<1> HIDE DEF n
<1>7. /\ Append(Ided, id) \in Seq(Ids \cup {NoId}) /\ Len(Append(Ided, id)) = n + 1
      /\ \A i \in 1 .. n : Append(Ided, id)[i] = Ided[i]
      /\ Append(Ided, id)[n + 1] = id
  BY <1>5
<1>8. ASSUME NEW i \in 1 .. n + 1 PROVE Ided'[i] = Append(Ided, id)[i]
  <2>1. CASE i = n + 1
    BY <1>2, <1>4, <1>6, <1>7, <2>1
  <2>2. CASE i \in 1 .. n
    BY <1>2, <1>5, <1>6, <1>7, <2>2
  <2>3. i = n + 1 \/ i \in 1 .. n
    <3>1. n \in Nat
      BY <1>2
    <3> QED
      BY <3>1
  <2> QED
    BY <2>1, <2>2, <2>3
<1> QED
  BY <1>6, <1>7, <1>8, SeqEqual

\* An answer with the id of the line settles it.
LEMMA AnswerSettles ==
  ASSUME TypeOK, ~Over, pc # "read", pc' = "read", Claim.id = line.id,
         NEW code \in Codes, Emit(line.id, code)
  PROVE  Session!Answer
BY Mapping, Claimed, LineId, IdsAppended DEF Owed, Over

\* The session begins with nothing owed.
LEMMA SessionInit == Init => Session!Init
<1> SUFFICES ASSUME Init PROVE Session!Init
  OBVIOUS
<1>1. Ided = <<>>
  BY DEF Init, Ided
<1> QED
  BY <1>1, Mapping DEF Init, Owed, Over

\* Each step of the transport is one of the session or leaves it unchanged.
LEMMA SessionStep ==
  ASSUME TInv, [Next]_vars
  PROVE  [Session!Next]_(Session!vars)
<1> USE DEF TInv, Over
<1>1. ASSUME UNCHANGED <<line, answers>>, ~Over, ~Over', pc # "read", pc' # "read"
      PROVE  UNCHANGED Session!vars
  <2>1. Claim' = Claim /\ Ided' = Ided
    BY <1>1 DEF Claim, IsCall, Ided
  <2> QED
    BY <1>1, <2>1, Mapping DEF Owed
<1>2. CASE CloseStdin \/ UNCHANGED vars
  <2>1. Claim' = Claim /\ Ided' = Ided /\ pc' = pc
    BY <1>2 DEF CloseStdin, vars, Claim, IsCall, Ided
  <2> QED
    BY <2>1, Mapping DEF Owed
<1>3. CASE ReadLine
  <2>1. Claim' \in Session!Claims
    BY <1>3, ClaimKnown DEF ReadLine
  <2> QED
    BY <1>3, <2>1, Mapping DEF ReadLine, Owed, Ided, Session!Next
<1>4. CASE EndOfInput
  BY <1>4, Mapping DEF EndOfInput, Owed, Ided, Nothing, Session!Next
<1>5. CASE Skip
  <2>1. line.id = NoId
    BY <1>5 DEF Skip, TypeOK, Lines, Readable, Calls
  <2>2. Claim.sort = "note"
    BY <1>5, <2>1 DEF Skip, Claim, IsCall, Unreadable
  <2> QED
    BY <1>5, <2>2, Mapping DEF Skip, Owed, Ided, Session!Next
<1>6. CASE ParseError
  <2>1. line.id = NoId /\ Claim.id = line.id
    BY <1>6 DEF ParseError, TypeOK, Lines, Readable, Calls, Claim, IsCall
  <2>2. Session!Answer
    BY <1>6, <2>1, AnswerSettles DEF ParseError, Codes
  <2> QED
    BY <2>2 DEF Session!Next
<1>7. CASE ParseDies
  <2>1. line.kind \in Unreadable /\ line.id = NoId
    BY <1>7 DEF ParseDies, TypeOK, Lines, Readable, Calls, Unreadable
  <2>2. Claim.sort = "unreadable"
    BY <2>1, LineId, Claimed
  <2> QED
    BY <1>7, <2>2, Mapping DEF ParseDies, Owed, Ided, Session!Next
<1>8. CASE Parsed \/ HandleAtOnce \/ HandleThrows \/ OpenDispatcher \/ Dispatch
           \/ CloseDispatcher \/ WriteThrows
  BY <1>1, <1>8 DEF Parsed, HandleAtOnce, HandleThrows, OpenDispatcher, Dispatch,
                    CloseDispatcher, WriteThrows
<1>9. CASE HandleInitialized
  <2>1. Claim.sort = "note"
    BY <1>9 DEF HandleInitialized, Claim, IsCall, Unreadable
  <2> QED
    BY <1>9, <2>1, Mapping DEF HandleInitialized, Owed, Ided, Session!Next
<1>10. CASE Write
  <2>1. reply.id = line.id /\ reply.code \in Codes
    BY <1>10 DEF Write, InHand, TypeOK, Replies
  <2>2. Claim.id = line.id
    BY <1>10, LineId, Claimed DEF Write, InHand, Answering, Handling
  <2>3. Session!Answer
    BY <1>10, <2>1, <2>2, AnswerSettles DEF Write
  <2> QED
    BY <2>3 DEF Session!Next
<1>11. CASE Rescue
  <2>1. Claim.id = line.id
    BY <1>11, LineId, Claimed DEF Rescue, InHand, Answering, Handling
  <2>2. Session!Answer
    BY <1>11, <2>1, AnswerSettles DEF Rescue, Codes
  <2> QED
    BY <2>2 DEF Session!Next
<1> QED
  BY <1>2, <1>3, <1>4, <1>5, <1>6, <1>7, <1>8, <1>9, <1>10, <1>11 DEF Next, Work

(***************************************************************************)
(* run() implements the session of module JsonRpcSession: every request    *)
(* gets one answer, its own, before the next line is looked at, whichever  *)
(* of the parser, the handlers, the tool and dump() throws; the process    *)
(* ends between two lines, or on a line that is not JSON.                  *)
(***************************************************************************)
THEOREM ImplementsSession == Spec => SessionSpec
<1>1. TInv /\ [Next]_vars => [Session!Next]_(Session!vars)
  BY SessionStep
<1> QED
  BY <1>1, SessionInit, TransportInvariance, PTL DEF Spec, SessionSpec, Session!Spec
=============================================================================
