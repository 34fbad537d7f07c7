-------------------------- MODULE MCAuditForwarder --------------------------
(* AuditForwarder as TLC checks it: the configurations give every constant. *)
EXTENDS AuditForwarder
=============================================================================
