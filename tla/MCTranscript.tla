---------------------------- MODULE MCTranscript ----------------------------
(* Transcript instantiated for TLC. *)
EXTENDS Transcript

CONSTANTS ada, bob

One  == {ada}
Pair == {ada, bob}
=============================================================================
