--------------------------- MODULE MCStdioProduce ---------------------------
(* Small instances of StdioProduce for TLC. *)
EXTENDS StdioProduce
=============================================================================
