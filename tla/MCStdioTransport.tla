-------------------------- MODULE MCStdioTransport --------------------------
(* Small instances of StdioTransport for TLC. *)
EXTENDS StdioTransport
=============================================================================
