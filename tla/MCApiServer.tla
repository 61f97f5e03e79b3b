----------------------------- MODULE MCApiServer -----------------------------
(***************************************************************************)
(* ApiServer for the model checker.                                        *)
(***************************************************************************)
EXTENDS ApiServer
=============================================================================
