------------------------- MODULE MCPPolicyController -------------------------
(***************************************************************************)
(* The MCPPolicy reconciler (internal/controller/mcppolicy_controller.go). *)
(* It translates the rules and reports in the status which version of the  *)
(* MCPPolicy it has translated; nothing is sent to Cerbos.  One name is    *)
(* modelled.                                                               *)
(*                                                                         *)
(* Every path of Reconcile has at most one call that changes anything, an  *)
(* update of the MCPPolicy itself, which is refused unless the copy that   *)
(* was read is the stored one.  So a reconcile is one step, with a copy    *)
(* that may be out of date by the time of the call.                        *)
(***************************************************************************)
EXTENDS CerbosTranslation

CONSTANTS
    RuleLists,   \* what spec.rules may be
    Requests,    \* what agents may ask for
    None,        \* no MCPPolicy, no cerbosPolicyId
    MaxChanges,  \* bound: creations, edits and deletions
    MaxFaults    \* bound: failing calls and restarts

Plain(words) ==
    words = [i \in DOMAIN words |-> words[i]] /\ \A i \in DOMAIN words : words[i] # ":"

\* There is always a rule (MinItems), and no third effect.  A method has no ":" of its own, and no role that
\* is given to people reads like the one made of an agent's name.
ASSUME RulesAssumption == \A rules \in RuleLists :
    /\ Len(rules) \in Nat \ {0} /\ DOMAIN rules = 1..Len(rules)
    /\ \A i \in DOMAIN rules :
        /\ rules[i].effect \in {"ALLOW", "DENY"}
        /\ (\A a \in rules[i].actions : Plain(a)) /\ (\A role \in rules[i].roles : Plain(role))
ASSUME RequestsAssumption ==
    \A q \in Requests : Plain(q.method) /\ \A role \in q.roles : Plain(role)
ASSUME PolicyBoundsAssumption == MaxChanges \in Nat /\ MaxFaults \in Nat

VARIABLES
    policy,   \* the MCPPolicy in the API server; id: the rules of the version that
              \* status.cerbosPolicyId names
    held,     \* the informer's copy, with which Reconcile works
    fresh,    \* held carries the resourceVersion of policy
    cerbos,   \* CERBOS_URL is set
    queued,   \* the key is in the work queue, or waits there for a delay
    changes, faults

vars == <<policy, held, fresh, cerbos, queued, changes, faults>>

Phases == {"", "Pending", "Synced", "Failed"}
Policy == [rules : RuleLists, phase : Phases, id : RuleLists \cup {None},
           deleting : BOOLEAN, finalizer : BOOLEAN]
ASSUME NoneAssumption == None \notin RuleLists \cup Policy

TypeOK ==
    /\ policy \in Policy \cup {None} /\ held \in Policy \cup {None}
    /\ fresh \in BOOLEAN /\ cerbos \in BOOLEAN /\ queued \in BOOLEAN
    /\ changes \in Nat /\ faults \in Nat

Init ==
    /\ policy = None /\ held = None /\ fresh = TRUE
    /\ cerbos \in BOOLEAN /\ queued = FALSE
    /\ changes = 0 /\ faults = 0

-----------------------------------------------------------------------------
(***************************************************************************)
(* Reconcile                                                               *)
(***************************************************************************)
Fault == faults < MaxFaults /\ faults' = faults + 1

\* Mutant: the resourceVersion is not checked.
PutUnchecked(new, again) ==
    /\ policy # None /\ policy' = new /\ fresh' = FALSE /\ queued' = again
    /\ UNCHANGED <<held, cerbos, changes, faults>>

\* Mutant: an error is not requeued.
PutNoRetry(new, again) ==
    /\ \/ fresh /\ policy' = new /\ fresh' = FALSE /\ queued' = again /\ UNCHANGED faults
       \/ /\ \/ ~fresh /\ UNCHANGED faults
             \/ Fault
          /\ queued' = FALSE /\ UNCHANGED <<policy, fresh>>
    /\ UNCHANGED <<held, cerbos, changes>>

\* Update or Status().Update of the held copy: refused if it is out of date.  The
\* call may fail, or be done although its answer is lost; every error is requeued.
Put(new, again) ==
    /\ \/ /\ fresh /\ policy' = new /\ fresh' = FALSE
          /\ \/ queued' = again /\ UNCHANGED faults
             \/ queued' = TRUE /\ Fault
       \/ /\ \/ ~fresh /\ UNCHANGED faults
             \/ Fault
          /\ queued' = TRUE /\ UNCHANGED <<policy, fresh>>
    /\ UNCHANGED <<held, cerbos, changes>>

NotFound ==
    /\ queued /\ held = None
    /\ queued' = FALSE
    /\ UNCHANGED <<policy, held, fresh, cerbos, changes, faults>>

\* Nothing to clean up in Cerbos: without its finalizer the policy is gone.
Release ==
    /\ queued /\ held # None /\ held.deleting /\ held.finalizer
    /\ Put(None, FALSE)

AddFinalizer ==
    /\ queued /\ held # None /\ ~held.deleting /\ ~held.finalizer
    /\ Put([held EXCEPT !.finalizer = TRUE], TRUE)

\* Mutant: a phase the CRD does not know.
AcknowledgeActive ==
    /\ queued /\ held # None /\ ~held.deleting /\ held.finalizer
    /\ Put([held EXCEPT !.phase = "Active", !.id = held.rules], FALSE)

\* The ID ends in the resourceVersion of the held copy.  That is newer than the one in
\* the status, which this write is about to make older still: every write changes the
\* status and is an event for the next reconcile.
Acknowledge ==
    /\ queued /\ held # None /\ ~held.deleting /\ held.finalizer
    /\ Put([held EXCEPT !.phase = IF cerbos THEN "Synced" ELSE "Pending",
                        !.id = held.rules], FALSE)

Reconcile == NotFound \/ Release \/ AddFinalizer \/ Acknowledge

-----------------------------------------------------------------------------
(***************************************************************************)
(* Around it                                                               *)
(***************************************************************************)
\* The informer delivers the current state and enqueues the key.
SyncPolicy ==
    /\ ~fresh
    /\ held' = policy /\ fresh' = TRUE /\ queued' = TRUE
    /\ UNCHANGED <<policy, cerbos, changes, faults>>

Change(new) ==
    /\ changes < MaxChanges /\ changes' = changes + 1
    /\ policy' = new /\ fresh' = FALSE
    /\ UNCHANGED <<held, cerbos, queued, faults>>

CreatePolicy(rules) ==
    /\ policy = None
    /\ Change([rules |-> rules, phase |-> "", id |-> None, deleting |-> FALSE,
               finalizer |-> FALSE])

EditPolicy(rules) ==
    /\ policy # None /\ policy.rules # rules
    /\ Change([policy EXCEPT !.rules = rules])

DeletePolicy ==
    /\ policy # None /\ ~policy.deleting
    /\ Change(IF policy.finalizer THEN [policy EXCEPT !.deleting = TRUE] ELSE None)

\* The operator starts anew, perhaps with another CERBOS_URL: it lists and enqueues
\* what there is.
Restart ==
    /\ Fault
    /\ cerbos' \in BOOLEAN
    /\ held' = policy /\ fresh' = TRUE /\ queued' = (policy # None)
    /\ UNCHANGED <<policy, changes>>

Environment ==
    \/ SyncPolicy
    \/ \E rules \in RuleLists : CreatePolicy(rules) \/ EditPolicy(rules)
    \/ DeletePolicy
    \/ Restart

Next == Reconcile \/ Environment
Spec == Init /\ [][Next]_vars

\* The queue hands out the key and the calls return; the informer delivers.
FairSpec == Spec /\ WF_vars(Reconcile) /\ WF_vars(SyncPolicy)

-----------------------------------------------------------------------------
(***************************************************************************)
(* Properties                                                              *)
(***************************************************************************)
\* The status acknowledges the rules that are in force at the moment it is written, for
\* an MCPPolicy that is neither being deleted nor without the finalizer: not those of
\* the copy that was translated, if it was edited or replaced in between
\* (mcppolicy_controller.go:108-124).
AcknowledgesCurrent ==
    [][policy' # None /\ policy'.id # None /\ (policy = None \/ policy'.id # policy.id)
         => /\ policy # None /\ policy'.rules = policy.rules
            /\ policy'.id = policy'.rules
            /\ policy'.finalizer /\ ~policy'.deleting]_vars

\* No wake-up is lost: an MCPPolicy always has a reconcile coming, or an event on its way
\* that will bring one, although a successful reconcile does not requeue
\* (mcppolicy_controller.go:66-124).
Attended == policy # None => queued \/ ~fresh

\* All rules are about one server, and none names both roles and agents.
Uniform(rules) ==
    /\ rules[1].server # NoServer
    /\ \A i \in DOMAIN rules :
        /\ rules[i].server = rules[1].server
        /\ rules[i].roles = {} \/ rules[i].agentRefs = {}

SameMeaning(rule, other) ==
    rule.effect = other.effect /\ \A q \in Requests : Applies(rule, q) <=> Applies(other, q)

\* What was acknowledged has not lost its meaning in the translation: the Cerbos policy is not
\* also that of rules about one server which decide otherwise, in effect or on any request.
\* This is said without supposing how Cerbos is asked, on which the documents disagree
\* (translate.go:80-191).
MeaningKept == policy # None /\ policy.id # None /\ Uniform(policy.id) =>
    \A rules \in RuleLists :
        Uniform(rules) /\ TranslatePolicy(rules) = TranslatePolicy(policy.id) =>
            \A i \in DOMAIN rules : SameMeaning(rules[i], policy.id[i])

\* In the end the current rules are acknowledged, with the phase that CERBOS_URL calls
\* for, although every write of the status starts another reconcile.
Converges == <>[](policy # None /\ ~policy.deleting =>
    policy.id = policy.rules /\ policy.phase = IF cerbos THEN "Synced" ELSE "Pending")

\* A deletion is completed (mcppolicy_controller.go:66-77).
DeletionCompletes ==
    (policy # None /\ policy.deleting) ~> (policy = None \/ ~policy.deleting)
=============================================================================
