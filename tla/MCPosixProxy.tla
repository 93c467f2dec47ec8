---------------------------- MODULE MCPosixProxy ----------------------------
(* TLC instances of PosixProxy; its constants are numbers. *)
EXTENDS PosixProxy
=============================================================================
