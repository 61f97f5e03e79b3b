---------------------- MODULE MCMCPServerController ----------------------
(***************************************************************************)
(* Specs for the model checker.  They differ in what the reconciler reacts *)
(* to: the port shows in every child, the image only in the Deployment.    *)
(***************************************************************************)
EXTENDS MCPServerController

Base == [image |-> "v1", port |-> 1, minReplicas |-> Unset, secrets |-> {},
         annotations |-> "none"]

OtherPort  == [Base EXCEPT !.port = 2]
OtherImage == [Base EXCEPT !.image = "v2"]
WithSecret == [Base EXCEPT !.image = "v2", !.secrets = SecretNames]

OneSpec      == {Base}
PortSpecs    == {Base, OtherPort}
ImageSpecs   == {Base, OtherImage}
SecretSpecs  == {Base, WithSecret}
BrokenV2     == {"v2"}
=============================================================================
