----------------------------- MODULE MCApprovals -----------------------------
(* Approvals instantiated for TLC. *)
EXTENDS Approvals
=============================================================================
