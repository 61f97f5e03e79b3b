----------------------- MODULE MCMCPAgentController -----------------------
(***************************************************************************)
(* Agents and client IDs for the model checker.                            *)
(***************************************************************************)
EXTENDS MCPAgentController

CONSTANTS a1, a2, id1, id2

\* Two agents of different names: each has its own default ID.
OwnDefaults   == [a \in Agents |-> IF a = a1 THEN id1 ELSE id2]
\* Two agents of one name in two namespaces.
SameDefault   == [a \in Agents |-> id1]
NoChoice      == [a \in Agents |-> {Unset}]
\* The only agent may go from its default ID to another one, and back.
EitherId      == [a \in Agents |-> {Unset, id2}]

\* a1 is deleted and created again.
FirstTwice == [a \in Agents |-> IF a = a1 THEN 2 ELSE 1]
Once       == [a \in Agents |-> 1]
=============================================================================
