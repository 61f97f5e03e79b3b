------------------------- MODULE AgentRegistration -------------------------
(***************************************************************************)
(* What the MCPAgent reconciler promises to anyone who watches the agents  *)
(* and their credentials Secrets: an agent is protected by the finalizer,  *)
(* then Registering, before it is ever Active or Failed; no phase is       *)
(* written to one that is being deleted or has been replaced; credentials  *)
(* appear only for an agent that is there and protected, and are never     *)
(* overwritten; a protected agent disappears only after it was asked to.   *)
(*                                                                         *)
(* There is no cache, no worker and no Keycloak here.                      *)
(***************************************************************************)

CONSTANT Agents

VARIABLES
    reg,     \* reg[a]: [phase, deleting, finalizer] of a, or Absent
    creds    \* creds[a]: a's Secret: "none", a's "own", or "old": of an earlier a

vars == <<reg, creds>>

Absent == [phase |-> "absent", deleting |-> FALSE, finalizer |-> FALSE]
There(a) == reg[a].phase # "absent"
Unregistered == {"", "Pending"}

Init == reg = [a \in Agents |-> Absent] /\ creds = [a \in Agents |-> "none"]

Becomes(a, phase, deleting, finalizer) ==
    /\ reg' = [reg EXCEPT ![a] =
         [phase |-> phase, deleting |-> deleting, finalizer |-> finalizer]]
    /\ UNCHANGED creds

Create(a) == ~There(a) /\ Becomes(a, "", FALSE, FALSE)

\* What the agent owned is left to the garbage collector.
Vanish(a) ==
    /\ reg' = [reg EXCEPT ![a] = Absent]
    /\ creds' = [creds EXCEPT ![a] = IF creds[a] = "own" THEN "old" ELSE creds[a]]

Delete(a) ==
    /\ There(a) /\ ~reg[a].deleting
    /\ IF reg[a].finalizer THEN Becomes(a, reg[a].phase, TRUE, TRUE) ELSE Vanish(a)

Release(a) == There(a) /\ reg[a].deleting /\ Vanish(a)

Protect(a) ==
    /\ There(a) /\ ~reg[a].deleting /\ ~reg[a].finalizer
    /\ Becomes(a, reg[a].phase, FALSE, TRUE)

Protected(a) == There(a) /\ ~reg[a].deleting /\ reg[a].finalizer

Register(a) ==
    /\ Protected(a) /\ reg[a].phase \in Unregistered
    /\ Becomes(a, "Registering", FALSE, TRUE)

Decide(a) ==
    /\ Protected(a) /\ reg[a].phase \notin Unregistered
    /\ \E phase \in {"Active", "Failed"} : Becomes(a, phase, FALSE, TRUE)

Suspend(a) ==
    /\ There(a)
    /\ Becomes(a, "Suspended", reg[a].deleting, reg[a].finalizer)

\* The agent may have been asked to go in the meantime, but not be gone.
Store(a) ==
    /\ There(a) /\ reg[a].finalizer /\ creds[a] = "none"
    /\ creds' = [creds EXCEPT ![a] = "own"]
    /\ UNCHANGED reg

\* The garbage collector, or someone who deletes the Secret.
Lose(a) ==
    /\ creds[a] # "none" /\ creds' = [creds EXCEPT ![a] = "none"]
    /\ UNCHANGED reg

Next == \E a \in Agents :
    \/ Create(a) \/ Delete(a) \/ Release(a) \/ Protect(a) \/ Register(a) \/ Decide(a)
    \/ Suspend(a) \/ Store(a) \/ Lose(a)

Spec == Init /\ [][Next]_vars
=============================================================================
