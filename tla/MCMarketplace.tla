---------------------------- MODULE MCMarketplace ----------------------------
(***************************************************************************)
(* Versions of an entry for the model checker: one needs a secret, has a   *)
(* default policy and refers to a key it does not ask for, one needs two   *)
(* secrets and refers to one of them, one has nothing of the kind.         *)
(***************************************************************************)
EXTENDS Marketplace

Guard(allowed, denied) == [allowed |-> allowed, denied |-> denied]

V1 == [version |-> 1, required |-> {"token"}, declared |-> {"hook"},
       policy |-> Guard({<<"read">>}, {<<"drop">>})]
V2 == [version |-> 2, required |-> {"token", "hook"}, declared |-> {"token"},
       policy |-> Guard({}, {})]
V3 == [version |-> 3, required |-> {}, declared |-> {}, policy |-> None]

Versions == {V1, V2, V3}
=============================================================================
