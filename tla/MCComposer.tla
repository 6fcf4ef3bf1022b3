------------------------------ MODULE MCComposer ------------------------------
(* The front end instantiated for TLC. *)
EXTENDS Composer
===============================================================================
