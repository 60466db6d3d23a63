---------------------------- MODULE MCGrpcServer ----------------------------
(* Small instances of GrpcServer for TLC. *)
EXTENDS GrpcServer
=============================================================================
