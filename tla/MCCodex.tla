------------------------------ MODULE MCCodex --------------------------------
(* CodexClient instantiated for TLC. *)
EXTENDS CodexClient
=============================================================================
