----------------------------- MODULE MCToolCall -----------------------------
(* Small instances of ToolCall for TLC. *)
EXTENDS ToolCall

CONSTANTS t1, t2

\* With 4 and 8 bits: fitting numbers, one that wraps to 0, one only a uint64_t
\* holds. As caps on the size of a result, 3 leaves one item of two.
MCNumbers == {-1, 0, 3, 16, 130}

\* The name of one topic is part of the name of the other.
MCWithin == {<<t1, t1>>, <<t2, t2>>, <<t1, t2>>}
=============================================================================
