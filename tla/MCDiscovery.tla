----------------------------- MODULE MCDiscovery -----------------------------
(***************************************************************************)
(* Discovery for the model checker.  Callers are interchangeable, but the  *)
(* run checks liveness, so they are not declared symmetric.                *)
(***************************************************************************)
EXTENDS Discovery
=============================================================================
