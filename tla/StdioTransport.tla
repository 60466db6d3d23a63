--------------------------- MODULE StdioTransport ---------------------------
(***************************************************************************)
(* The stdio transport: StdioTransport::run() and the handlers it calls,   *)
(* with the MCPDispatcher that lives for the length of one tools/call.     *)
(*                                                                         *)
(* One thread reads a line, parses it, handles it and writes the answer.   *)
(* Three things may throw: the parser (parse_error is caught beside it,    *)
(* out_of_range for a number no double holds is not), a handler that meets *)
(* a value of another type than it asks for, and json::dump() in           *)
(* write_response(), on text that is not UTF-8. What is thrown by a        *)
(* handler or by its write_response() is caught in run() and becomes an    *)
(* answer; what is thrown in a catch clause, or by the parser, leaves run()*)
(* and main().                                                             *)
(*                                                                         *)
(* A line is reduced to what these paths tell apart, its kind, and its id. *)
(***************************************************************************)
EXTENDS Naturals, Sequences

CONSTANTS
  Ids,      \* request ids
  NoId,     \* the absent id, null in an answer
  MaxLines  \* bound on the lines a client sends, for model checking

ASSUME StdioAssumption == MaxLines \in Nat /\ NoId \notin Ids

(***************************************************************************)
(* malformed: not JSON. garbled: not JSON, and the parser's message quotes *)
(* bytes that are not UTF-8. overflow: a number too large for a double.    *)
(***************************************************************************)
Unreadable == {"malformed", "garbled", "overflow"}

(***************************************************************************)
(* envelope: no "2.0" or no method. initialize_typed: its clientInfo is    *)
(* not an object. unnamed_call: tools/call without a tool name.            *)
(* endless_call: one whose arguments ask Kafka to wait for messages for    *)
(* ever (timeout_ms -1).                                                   *)
(***************************************************************************)
Calls == {"call", "endless_call"}
Readable == Calls \cup {"envelope", "initialize", "initialize_typed", "initialized",
                       "tools_list", "unnamed_call", "ping", "unknown"}

Lines ==
  [kind : Unreadable \cup {"blank"}, id : {NoId}]
    \cup [kind : Readable, id : Ids \cup {NoId}]

\* The answers that take no call into the Kafka layer.
AnswerTo == [envelope     |-> "INVALID_REQUEST",
             initialize   |-> "result",
             tools_list   |-> "result",
             unnamed_call |-> "INVALID_PARAMS",
             ping         |-> "result",
             unknown      |-> "METHOD_NOT_FOUND"]

Codes == {"result", "isError", "PARSE_ERROR", "INVALID_REQUEST",
          "METHOD_NOT_FOUND", "INVALID_PARAMS", "INTERNAL_ERROR"}

VARIABLES
  eof,         \* the client has closed stdin
  taken,       \* how many lines were read
  pc,          \* where the thread is
  line,        \* the line in hand
  dispatcher,  \* whether the MCPDispatcher of a tools/call exists
  reply,       \* the response handle_message() built, or none
  answers      \* what was written to stdout

vars == <<eof, taken, pc, line, dispatcher, reply, answers>>

none == [id |-> NoId, code |-> "none", utf8 |-> TRUE]
Replies == [id : Ids \cup {NoId}, code : Codes, utf8 : BOOLEAN] \cup {none}
Positions == {"read", "parse", "handle", "dispatch", "leave", "write", "rescue",
              "exited", "died"}
Over == pc \in {"exited", "died"}

Response(code, utf8) == [id |-> line.id, code |-> code, utf8 |-> utf8]
Emit(id, code) == answers' = Append(answers, [id |-> id, code |-> code])

Init ==
  /\ eof = FALSE /\ taken = 0 /\ pc = "read"
  /\ line = [kind |-> "blank", id |-> NoId]
  /\ dispatcher = FALSE /\ reply = none /\ answers = <<>>

-----------------------------------------------------------------------------
(* The client. *)
CloseStdin ==
  /\ ~eof /\ ~Over
  /\ eof' = TRUE
  /\ UNCHANGED <<taken, pc, line, dispatcher, reply, answers>>

(* run(). *)
ReadLine ==
  /\ pc = "read" /\ ~eof /\ taken < MaxLines
  /\ line' \in Lines
  /\ taken' = taken + 1
  /\ pc' = "parse"
  /\ UNCHANGED <<eof, dispatcher, reply, answers>>

\* Mutant: the loop ends when stop() is called, and nobody calls it.
EndOfInput_NeedsStop == FALSE

EndOfInput ==
  /\ pc = "read" /\ eof
  /\ pc' = "exited"
  /\ UNCHANGED <<eof, taken, line, dispatcher, reply, answers>>

Skip ==
  /\ pc = "parse" /\ line.kind = "blank"
  /\ pc' = "read"
  /\ UNCHANGED <<eof, taken, line, dispatcher, reply, answers>>

ParseError ==
  /\ pc = "parse" /\ line.kind = "malformed"
  /\ Emit(NoId, "PARSE_ERROR")
  /\ pc' = "read"
  /\ UNCHANGED <<eof, taken, line, dispatcher, reply>>

\* write_response() throws in the catch clause, or parse() throws what is not caught.
ParseDies ==
  /\ pc = "parse" /\ line.kind \in {"garbled", "overflow"}
  /\ pc' = "died"
  /\ UNCHANGED <<eof, taken, line, dispatcher, reply, answers>>

Parsed ==
  /\ pc = "parse" /\ line.kind \in Readable
  /\ pc' = "handle"
  /\ UNCHANGED <<eof, taken, line, dispatcher, reply, answers>>

-----------------------------------------------------------------------------
(* handle_message(). *)
HandleAtOnce ==
  /\ pc = "handle" /\ line.kind \in DOMAIN AnswerTo
  /\ reply' = Response(AnswerTo[line.kind], TRUE)
  /\ pc' = "write"
  /\ UNCHANGED <<eof, taken, line, dispatcher, answers>>

\* notifications/initialized: a null response, which run() does not write.
HandleInitialized ==
  /\ pc = "handle" /\ line.kind = "initialized"
  /\ pc' = "read"
  /\ UNCHANGED <<eof, taken, line, dispatcher, reply, answers>>

HandleThrows ==
  /\ pc = "handle" /\ line.kind = "initialize_typed"
  /\ pc' = "rescue"
  /\ UNCHANGED <<eof, taken, line, dispatcher, reply, answers>>

\* handle_call_tool() builds a dispatcher, which connects its three clients.
OpenDispatcher ==
  /\ pc = "handle" /\ line.kind \in Calls
  /\ dispatcher' = TRUE
  /\ pc' = "dispatch"
  /\ UNCHANGED <<eof, taken, line, reply, answers>>

(***************************************************************************)
(* dispatch() and the tool it calls: a result, which the size cap may have *)
(* cut inside a character; an error text; or an exception, from arguments  *)
(* of the wrong type, which are read before its try.                       *)
(***************************************************************************)
Succeeds == \E utf8 \in BOOLEAN : reply' = Response("result", utf8)
Fails == reply' = Response("isError", TRUE)
Throws == reply' = none

Dispatch ==
  /\ pc = "dispatch"
  /\ Succeeds \/ Fails \/ Throws
  /\ pc' = "leave"
  /\ UNCHANGED <<eof, taken, line, dispatcher, answers>>

\* The dispatcher is destroyed, on return and on unwinding; its producer flushes.
CloseDispatcher ==
  /\ pc = "leave"
  /\ dispatcher' = FALSE
  /\ pc' = IF reply = none THEN "rescue" ELSE "write"
  /\ UNCHANGED <<eof, taken, line, reply, answers>>

-----------------------------------------------------------------------------
(* write_response() in run(): dump() throws before anything is written. *)
Write ==
  /\ pc = "write" /\ reply.utf8
  /\ Emit(reply.id, reply.code)
  /\ reply' = none
  /\ pc' = "read"
  /\ UNCHANGED <<eof, taken, line, dispatcher>>

\* Mutants: a part of the answer is out when dump() throws; the write is retried.
WriteThrows_Late ==
  /\ pc = "write" /\ ~reply.utf8
  /\ Emit(reply.id, reply.code)
  /\ reply' = none
  /\ pc' = "rescue"
  /\ UNCHANGED <<eof, taken, line, dispatcher>>
WriteThrows_Retried == pc = "write" /\ ~reply.utf8 /\ UNCHANGED vars

WriteThrows ==
  /\ pc = "write" /\ ~reply.utf8
  /\ reply' = none
  /\ pc' = "rescue"
  /\ UNCHANGED <<eof, taken, line, dispatcher, answers>>

\* Mutant: the exception's own code is put into the answer.
Rescue_OtherCode ==
  /\ pc = "rescue"
  /\ Emit(line.id, "EXCEPTION")
  /\ pc' = "read"
  /\ UNCHANGED <<eof, taken, line, dispatcher, reply>>

\* The catch clause of run().
Rescue ==
  /\ pc = "rescue"
  /\ Emit(line.id, "INTERNAL_ERROR")
  /\ pc' = "read"
  /\ UNCHANGED <<eof, taken, line, dispatcher, reply>>

Work ==
  \/ EndOfInput \/ Skip \/ ParseError \/ ParseDies \/ Parsed
  \/ HandleAtOnce \/ HandleInitialized \/ HandleThrows
  \/ OpenDispatcher \/ Dispatch \/ CloseDispatcher
  \/ Write \/ WriteThrows \/ Rescue

Next == CloseStdin \/ ReadLine \/ Work

Spec == Init /\ [][Next]_vars

(***************************************************************************)
(* The one thread goes on: every Kafka call of a tool has a timeout, but   *)
(* for the one of an endless call. The client need not send anything, nor  *)
(* close stdin.                                                            *)
(***************************************************************************)
Waiting == pc = "dispatch" /\ line.kind = "endless_call"
FairSpec == Spec /\ WF_vars(Work /\ ~Waiting)

-----------------------------------------------------------------------------
TypeOK ==
  /\ eof \in BOOLEAN /\ taken \in 0 .. MaxLines
  /\ pc \in Positions /\ line \in Lines
  /\ dispatcher \in BOOLEAN /\ reply \in Replies
  /\ answers \in Seq([id : Ids \cup {NoId}, code : Codes])

(***************************************************************************)
(* Every line is dealt with, and the process ends once stdin is closed,    *)
(* unless an endless call is waiting: it cannot be interrupted, not even   *)
(* by closing stdin.                                                       *)
(***************************************************************************)
EveryLineSettled == (pc # "read") ~> (pc = "read" \/ Over \/ Waiting)
ExitsAtEof == eof ~> (Over \/ Waiting)

(***************************************************************************)
(* What the class comment says: the process runs until stdin is closed.    *)
(***************************************************************************)
RunsUntilStdinClosed == Over => eof

-----------------------------------------------------------------------------
(***************************************************************************)
(* The transport implements module JsonRpcSession. It takes the method     *)
(* notifications/initialized for a notification even if it has an id.      *)
(***************************************************************************)
IsCall == line.id # NoId /\ line.kind # "initialized"
Claim == [sort |-> CASE line.kind \in Unreadable -> "unreadable"
                     [] IsCall                   -> "call"
                     [] OTHER                    -> "note",
          id   |-> IF IsCall THEN line.id ELSE NoId]

Session == INSTANCE JsonRpcSession WITH
  owed    <- IF pc = "read" \/ Over THEN [sort |-> "nothing", id |-> NoId] ELSE Claim,
  answers <- [i \in DOMAIN answers |-> answers[i].id],
  over    <- Over
SessionSpec == Session!Spec
=============================================================================
