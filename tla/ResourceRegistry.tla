-------------------------- MODULE ResourceRegistry --------------------------
(***************************************************************************)
(* What the REST API promises its clients: every request that reads or     *)
(* changes resources takes effect at one moment between its arrival and    *)
(* its answer, or fails and says so.  A request that the end of the        *)
(* process cuts off has no answer, and may or may not have taken effect;   *)
(* the answer of one that was decided may be lost.                         *)
(***************************************************************************)
EXTENDS Naturals

CONSTANTS Clients, Keys, Collection, None   \* Collection[k]: what k is a key of

VARIABLES
    objects,   \* objects[k]: the resource of that key, or None
    uids,      \* UIDs given out
    calls,     \* calls[r]: client r's request: where it is, what it asks, its answer
    faults     \* failing calls of the Kubernetes API, and lost answers

vars == <<objects, uids, calls, faults>>

Existing(coll) == {k \in Keys : Collection[k] = coll /\ objects[k] # None}

Init ==
    /\ objects = [k \in Keys |-> None]
    /\ uids = 0 /\ faults = 0
    /\ calls = [r \in Clients |-> [at |-> "new"]]

-----------------------------------------------------------------------------
Becomes(r, call) == calls' = [calls EXCEPT ![r] = call]

Open(r, op, key) ==
    /\ calls[r].at \in {"new", "lost"}
    /\ Becomes(r, [at |-> "open", op |-> op, key |-> key])
    /\ UNCHANGED <<objects, uids, faults>>

Asks(r, op) == calls[r].at = "open" /\ calls[r].op = op

Decide(r, status, answer) ==
    Becomes(r, [at |-> "decided", status |-> status, uids |-> answer])

List(r) ==
    /\ Asks(r, "list")
    /\ Decide(r, 200, {objects[k].uid : k \in Existing(Collection[calls[r].key])})
    /\ UNCHANGED <<objects, uids, faults>>

Get(r) ==
    LET object == objects[calls[r].key]
    IN  /\ Asks(r, "get")
        /\ IF object = None THEN Decide(r, 404, {}) ELSE Decide(r, 200, {object.uid})
        /\ UNCHANGED <<objects, uids, faults>>

Fresh == [uid |-> uids + 1, deleting |-> FALSE]

Create(r) ==
    LET k == calls[r].key
    IN  /\ Asks(r, "create") /\ objects[k] = None
        /\ objects' = [objects EXCEPT ![k] = Fresh] /\ uids' = uids + 1
        /\ Decide(r, 201, {uids + 1})
        /\ UNCHANGED faults

\* The name is taken, or the object or the request is not valid.
Refuse(r) ==
    /\ Asks(r, "create") /\ \E status \in {400, 500} : Decide(r, status, {})
    /\ UNCHANGED <<objects, uids, faults>>

\* A resource that is deleted is gone, or goes when its finalizers are done.
Removed(object) == {None, [uid |-> object.uid, deleting |-> TRUE]}

\* Of a resource that is there, whichever it is; one that is not there is an error.
Delete(r) ==
    LET k == calls[r].key
    IN  /\ Asks(r, "delete")
        /\ \/ /\ objects[k] # None /\ Decide(r, 200, {})
              /\ \E left \in Removed(objects[k]) : objects' = [objects EXCEPT ![k] = left]
           \/ /\ objects[k] = None /\ \E status \in {404, 500} : Decide(r, status, {})
              /\ UNCHANGED objects
        /\ UNCHANGED <<uids, faults>>

\* What a request that fails may have done.
Effect(r) ==
    LET k == calls[r].key
    IN  \/ UNCHANGED <<objects, uids>>
        \/ /\ Asks(r, "create") /\ objects[k] = None
           /\ objects' = [objects EXCEPT ![k] = Fresh] /\ uids' = uids + 1
        \/ /\ Asks(r, "delete") /\ objects[k] # None
           /\ \E left \in Removed(objects[k]) : objects' = [objects EXCEPT ![k] = left]
           /\ UNCHANGED uids

Fail(r) ==
    /\ calls[r].at = "open" /\ calls[r].op \in {"list", "get", "create", "delete"} /\ faults' = faults + 1
    /\ \E status \in {404, 500} : Decide(r, status, {})
    /\ Effect(r)

\* Requests that concern no resource.
Other(r) ==
    /\ calls[r].at = "open" /\ calls[r].op \in {"health", "options"}
    /\ \E status \in {200, 204} : Decide(r, status, {})
    /\ UNCHANGED <<objects, uids, faults>>

\* The answer is sent, and the client may ask again.
Close(r) ==
    /\ calls[r].at = "decided" /\ Becomes(r, [at |-> "new"])
    /\ UNCHANGED <<objects, uids, faults>>

\* The answer does not reach the client; what was decided stands.
Lose(r) ==
    /\ calls[r].at = "decided" /\ Becomes(r, [at |-> "lost"]) /\ faults' = faults + 1
    /\ UNCHANGED <<objects, uids>>

\* The process ends: no request is open any more.
Cut ==
    /\ calls' = [r \in Clients |->
         IF calls[r].at \in {"open", "decided"} THEN [at |-> "cut"] ELSE calls[r]]
    /\ UNCHANGED <<objects, uids, faults>>

\* Other clients of Kubernetes, and the controllers.
Foreign(k) ==
    /\ \/ /\ objects[k] = None
          /\ objects' = [objects EXCEPT ![k] = Fresh] /\ uids' = uids + 1
       \/ /\ objects[k] # None
          /\ \E left \in Removed(objects[k]) : objects' = [objects EXCEPT ![k] = left]
          /\ UNCHANGED uids
    /\ UNCHANGED <<calls, faults>>

Next ==
    \/ \E r \in Clients :
        \/ \E op \in {"list", "get", "create", "delete", "health", "options"}, k \in Keys : Open(r, op, k)
        \/ List(r) \/ Get(r) \/ Create(r) \/ Refuse(r) \/ Delete(r) \/ Fail(r) \/ Other(r) \/ Close(r) \/ Lose(r)
    \/ Cut
    \/ \E k \in Keys : Foreign(k)

Spec == Init /\ [][Next]_vars
=============================================================================
