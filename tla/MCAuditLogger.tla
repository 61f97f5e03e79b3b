---------------------------- MODULE MCAuditLogger ----------------------------
(***************************************************************************)
(* AuditLogger for the model checker.                                      *)
(***************************************************************************)
EXTENDS AuditLogger
=============================================================================
