---------------------------- MODULE MCApprovals ----------------------------
(* Approvals for TLC: calls of several sessions that share one wire id. *)
EXTENDS Approvals

SharedWireId == [r \in Requests |-> CHOOSE k \in Keys : TRUE]
=============================================================================
