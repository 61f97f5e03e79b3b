------------------------ MODULE MCPServerLifecycle ------------------------
(***************************************************************************)
(* What the MCPServer reconciler promises to anyone who watches only the   *)
(* custom resource: the phase moves along the edges of the state machine,  *)
(* one edge at a time, never on a server that is being deleted or is not   *)
(* yet protected by the finalizer; every move acknowledges the generation  *)
(* it was decided for, which is the current one (an edit is never claimed  *)
(* as seen before it is); a Running server moves to Updating and a Failed  *)
(* one to Pending only if the spec changed; and a protected server         *)
(* disappears only after it was asked to.                                  *)
(*                                                                         *)
(* There is no cache, no worker and no child object here.                  *)
(***************************************************************************)
EXTENDS Naturals

CONSTANTS None,      \* the MCPServer does not exist
          Foreign    \* a phase other writers may set and the dispatch does not know

VARIABLE life   \* [gen, phase, obsGen, deleting, finalizer], or None

Outcome(next) == {next, "Failed"}

\* The phases a reconcile may move to from `phase`; `drift`: the spec changed since.
Edges(phase, drift) ==
    CASE phase \in {"", "Pending"} -> Outcome("Deploying")
      [] phase \in {"Deploying", "Updating"} -> Outcome("Running")
      [] phase = "Running" -> IF drift THEN {"Updating"} ELSE {"Deploying"}
      [] phase = "Failed"  -> IF drift THEN {"Pending"} ELSE {}
      [] phase = Foreign   -> {"Pending"}

Init == life = None

Create == /\ life = None
          /\ life' = [gen |-> 1, phase |-> "", obsGen |-> 0, deleting |-> FALSE,
                      finalizer |-> FALSE]

Edit == life # None /\ life' = [life EXCEPT !.gen = @ + 1]

Delete == /\ life # None /\ ~life.deleting
          /\ life' = IF life.finalizer THEN [life EXCEPT !.deleting = TRUE] ELSE None

Release == life # None /\ life.deleting /\ life' = None

Protect == /\ life # None /\ ~life.deleting /\ ~life.finalizer
           /\ life' = [life EXCEPT !.finalizer = TRUE]

Move == /\ life # None /\ ~life.deleting /\ life.finalizer
        /\ \E p \in Edges(life.phase, life.gen # life.obsGen) :
              life' = [life EXCEPT !.phase = p, !.obsGen = life.gen]

ForeignMove == life # None /\ life' = [life EXCEPT !.phase = Foreign]

Next == Create \/ Edit \/ Delete \/ Release \/ Protect \/ Move \/ ForeignMove

Spec == Init /\ [][Next]_life
=============================================================================
