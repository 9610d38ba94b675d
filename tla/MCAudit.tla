------------------------------ MODULE MCAudit ------------------------------
(***************************************************************************)
(* A small instance of AuditTrail: two intents, two starts, and one kind   *)
(* of fault in each behaviour.                                             *)
(***************************************************************************)
EXTENDS AuditTrail

OneFault == {{f} : f \in FaultKinds}

=============================================================================
