--------------------------- MODULE MCClientHandle ---------------------------
(* Small instances of ClientHandle for TLC. *)
EXTENDS ClientHandle
=============================================================================
