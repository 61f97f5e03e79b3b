------------------------ MODULE MCPServerController ------------------------
(***************************************************************************)
(* The MCPServer reconciler (internal/controller/mcpserver_controller.go)  *)
(* for one namespaced name, together with what it runs against: the API    *)
(* server's objects guarded by resourceVersion, the manager's informer     *)
(* caches, the work queue with its single worker, the user, the Kubernetes *)
(* Deployment controller and the garbage collector.                        *)
(*                                                                         *)
(* A reconcile reads the MCPServer once, at its start, and works on that   *)
(* copy.  `cSrv` is the cached copy and stands for the held one too: it is *)
(* not refreshed while a reconcile is under way (`pc` # "idle"), which     *)
(* only delays the event the refresh would bring.  Every API call is a     *)
(* step of its own, so anything may happen between two calls.              *)
(***************************************************************************)
EXTENDS Naturals

CONSTANTS
    Specs,              \* the specs a user may give the MCPServer
    SecretNames,        \* the Kubernetes Secrets a spec may reference
    BrokenImages,       \* images whose pods never pass their health check
    GatewayConfigured,  \* r.GatewayName # ""
    None,               \* no such object
    Unset,              \* spec.scaling or minReplicas left out
    MaxGeneration,      \* bound: spec edits per MCPServer
    MaxIncarnations,    \* bound: how often the name is created
    MaxFaults           \* bound: injected faults of every kind together

ASSUME SpecsAssumption ==
    \A s \in Specs : /\ s.minReplicas \in Nat \cup {Unset}
                     /\ s.secrets \subseteq SecretNames
ASSUME GatewayAssumption == GatewayConfigured \in BOOLEAN
ASSUME BoundsAssumption ==
    MaxGeneration \in Nat /\ MaxIncarnations \in Nat /\ MaxFaults \in Nat

VARIABLES
    srv,        \* the MCPServer in the API server, or None
    uids,       \* how many MCPServers of this name were created; the last one's uid
    cSrv,       \* the informer's copy of srv, and the copy a reconcile holds
    srvFresh,   \* cSrv carries the resourceVersion of srv
    obj,        \* obj[k]: the child of kind k in the API server, or None
    cache,      \* cache[k]: the informer's copy of obj[k]
    fresh,      \* fresh[k]: cache[k] carries the resourceVersion of obj[k]
    secrets,    \* the Secrets that exist
    cSecrets,   \* the informer's copy of secrets
    pc,         \* where the worker is inside a reconcile
    queued,     \* the key is in the work queue, or waits there for a delay
    faults      \* faults injected so far

serverVars == <<srv, uids, srvFresh>>
childVars  == <<obj, cache, fresh>>
secretVars == <<secrets, cSecrets>>
vars == <<srv, uids, cSrv, srvFresh, obj, cache, fresh, secrets, cSecrets,
          pc, queued, faults>>

Kinds  == {"Deployment", "Service", "HTTPRoute"}
Phases == {"", "Pending", "Deploying", "Running", "Updating", "Scaling", "Failed"}
\* None is not an MCPServer, nor what Seen makes of one.
ASSUME NoneAssumption ==
    /\ None \notin [uid : Nat, gen : Nat, spec : Specs, deleting : BOOLEAN,
                    finalizer : BOOLEAN, phase : Phases, obsGen : Nat,
                    ready : {"Unknown", "True", "False"}]
    /\ None \notin [gen : Nat, phase : Phases, obsGen : Nat, deleting : BOOLEAN,
                    finalizer : BOOLEAN]
PCs    == {"idle", "service", "rollout", "route", "promote", "failing"}

(***************************************************************************)
(* What the reconciler builds from a spec, and when it finds an existing   *)
(* child different from it.                                                *)
(***************************************************************************)
Replicas(spec) == IF spec.minReplicas = Unset THEN 1 ELSE spec.minReplicas

Desired(k, spec) ==
    CASE k = "Deployment" -> [image |-> spec.image, port |-> spec.port,
                              secrets |-> spec.secrets, replicas |-> Replicas(spec)]
      [] k = "Service"    -> [port |-> spec.port, annotations |-> spec.annotations]
      [] k = "HTTPRoute"  -> [port |-> spec.port]

\* Mutant: every child is compared by its port only.
PortsDiverged(k, existing, spec) == existing.data.port # spec.port

\* The API server fills defaults into a Deployment's and a HTTPRoute's spec, so
\* these never equal the built one; of a Service only ports and selector count.
Diverged(k, existing, spec) ==
    k = "Service" => existing.data.port # spec.port

\* Deployment status by what the reconciler's tests tell apart:
\*   Empty     no replicas                 Starting  ready < replicas
\*   Old       all ready, not all updated  Complete  all ready and updated
Rollouts == {"Empty", "Starting", "Old", "Complete"}
NoStatus == [observed |-> None, rollout |-> "Empty"]
AllReady(d)     == d.status.rollout \in {"Old", "Complete"}
ReadyBelow(d)   == d.status.rollout = "Starting"
RolledOut(d)    == d.status.rollout = "Complete"

-----------------------------------------------------------------------------
Datum(k)  == {Desired(k, s) : s \in Specs}
Status(k) == [observed : Datum(k) \cup {None}, rollout : Rollouts]
Child(k)  == [owner : 1..uids, data : Datum(k), status : Status(k)]
Server    == [uid : 1..uids, gen : Nat, spec : Specs, deleting : BOOLEAN,
              finalizer : BOOLEAN, phase : Phases, obsGen : Nat,
              ready : {"Unknown", "True", "False"}]

\* None is not a child either.
ASSUME NoChildAssumption ==
    \A k \in Kinds : None \notin [owner : Nat, data : Datum(k), status : Status(k)]

TypeOK ==
    /\ uids \in Nat
    /\ srv \in Server \cup {None}
    /\ cSrv \in Server \cup {None}
    /\ srvFresh \in BOOLEAN
    /\ DOMAIN obj = Kinds /\ \A k \in Kinds : obj[k] \in Child(k) \cup {None}
    /\ DOMAIN cache = Kinds /\ \A k \in Kinds : cache[k] \in Child(k) \cup {None}
    /\ fresh \in [Kinds -> BOOLEAN]
    /\ secrets \in SUBSET SecretNames
    /\ cSecrets \in SUBSET SecretNames
    /\ pc \in PCs
    /\ queued \in BOOLEAN
    /\ faults \in Nat

Init ==
    /\ srv = None /\ uids = 0 /\ cSrv = None /\ srvFresh = TRUE
    /\ obj = [k \in Kinds |-> None]
    /\ cache = [k \in Kinds |-> None]
    /\ fresh = [k \in Kinds |-> TRUE]
    /\ secrets \in SUBSET SecretNames /\ cSecrets = secrets
    /\ pc = "idle" /\ queued = FALSE /\ faults = 0

-----------------------------------------------------------------------------
(***************************************************************************)
(* API calls of the reconciler.                                            *)
(***************************************************************************)
Fault == faults < MaxFaults /\ faults' = faults + 1

\* Mutant: a failed call ends the reconcile without requeueing it.
PutServerNoRetry(new, again) ==
    /\ pc' = "idle"
    /\ \/ srvFresh /\ srv' = new /\ srvFresh' = (new = srv) /\ queued' = again /\ UNCHANGED faults
       \/ ~srvFresh /\ queued' = FALSE /\ UNCHANGED <<srv, srvFresh, faults>>
       \/ Fault /\ queued' = FALSE /\ UNCHANGED <<srv, srvFresh>>
    /\ UNCHANGED <<uids, cSrv, childVars, secretVars>>

\* Mutant: the update is made without a resourceVersion, so that it is refused only when there
\* is nothing to update.
PutServerForced(new, again) ==
    /\ pc' = "idle"
    /\ \/ srv # None /\ srv' = new /\ srvFresh' = (new = srv) /\ queued' = again /\ UNCHANGED faults
       \/ srv = None /\ queued' = TRUE /\ UNCHANGED <<srv, srvFresh, faults>>
       \/ Fault /\ queued' = TRUE /\ UNCHANGED <<srv, srvFresh>>
    /\ UNCHANGED <<uids, cSrv, childVars, secretVars>>

\* Update or Status().Update of the held MCPServer, the last call of a reconcile:
\* refused unless the held copy has the current resourceVersion.  Writing the
\* same abstract value may still change a field the model leaves out (replica
\* counts, messages) and with it the resourceVersion.  Every error is requeued.
PutServer(new, again) ==
    /\ pc' = "idle"
    /\ \/ /\ srvFresh
          /\ srv' = new
          /\ srvFresh' \in IF new = srv THEN BOOLEAN ELSE {FALSE}
          /\ \/ queued' = again /\ UNCHANGED faults
             \/ queued' = TRUE /\ Fault
       \/ /\ \/ ~srvFresh /\ UNCHANGED faults
             \/ Fault
          /\ queued' = TRUE
          /\ UNCHANGED <<srv, srvFresh>>
    /\ UNCHANGED <<uids, cSrv, childVars, secretVars>>

\* setPhase: phase and observedGeneration, with the Ready condition set before it.
SetPhase(phase, ready) ==
    PutServer([cSrv EXCEPT !.phase = phase, !.ready = ready, !.obsGen = cSrv.gen],
              TRUE)

\* Whether the API server takes the Create or Update the cache leads to.
Accepted(k) == IF cache[k] = None THEN obj[k] = None ELSE fresh[k]

\* Mutant: SetControllerReference is forgotten.
WrittenUnowned(k) ==
    IF cache[k] = None
    THEN [owner |-> 0, data |-> Desired(k, cSrv.spec), status |-> NoStatus]
    ELSE [obj[k] EXCEPT !.data = Desired(k, cSrv.spec)]

Written(k) ==
    IF cache[k] = None
    THEN [owner |-> cSrv.uid, data |-> Desired(k, cSrv.spec), status |-> NoStatus]
    ELSE [obj[k] EXCEPT !.data = Desired(k, cSrv.spec)]

Apply(k) == /\ obj' = [obj EXCEPT ![k] = Written(k)]
            /\ fresh' = [fresh EXCEPT ![k] = @ /\ Written(k) = obj[k]]

\* Mutant: a refused write is taken for done.
ReconcileUnchecked(k, next) ==
    /\ pc' = next
    /\ \/ Accepted(k) /\ Apply(k)
       \/ ~Accepted(k) /\ UNCHANGED <<obj, fresh>>
    /\ UNCHANGED <<serverVars, cSrv, cache, secretVars, faults>>

\* reconcileDeployment, reconcileService, reconcileHTTPRoute: create the child the
\* cache does not know, update one that diverged, then go on at `next`; on an
\* error, which may hide that the call took effect, go to "failing".
Reconcile(k, next) ==
    /\ \/ /\ cache[k] # None /\ ~Diverged(k, cache[k], cSrv.spec)
          /\ pc' = next /\ UNCHANGED <<obj, fresh, faults>>
       \/ /\ cache[k] # None => Diverged(k, cache[k], cSrv.spec)
          /\ \/ Accepted(k) /\ Apply(k) /\ pc' = next /\ UNCHANGED faults
             \/ Accepted(k) /\ Apply(k) /\ pc' = "failing" /\ Fault
             \/ ~Accepted(k) /\ pc' = "failing" /\ UNCHANGED <<obj, fresh, faults>>
             \/ Fault /\ pc' = "failing" /\ UNCHANGED <<obj, fresh>>
    /\ UNCHANGED <<serverVars, cSrv, cache, secretVars>>

-----------------------------------------------------------------------------
(***************************************************************************)
(* Reconcile: one action per handler, or per stretch of it up to and       *)
(* including its next API call.                                            *)
(***************************************************************************)
Begin == pc = "idle" /\ queued

NotFound ==
    /\ Begin /\ cSrv = None
    /\ queued' = FALSE
    /\ UNCHANGED <<serverVars, cSrv, childVars, secretVars, pc, faults>>

\* Mutant: the error of the Update is dropped.
ReconcileDeleteOnce ==
    /\ Begin /\ cSrv # None /\ cSrv.deleting
    /\ pc' = "idle" /\ queued' = FALSE
    /\ \/ srvFresh /\ srv' = None /\ srvFresh' = FALSE /\ UNCHANGED faults
       \/ ~srvFresh /\ UNCHANGED <<srv, srvFresh, faults>>
       \/ Fault /\ UNCHANGED <<srv, srvFresh>>
    /\ UNCHANGED <<uids, cSrv, childVars, secretVars>>

ReconcileDelete ==
    /\ Begin /\ cSrv # None /\ cSrv.deleting
    /\ PutServer(None, FALSE)

AddFinalizer ==
    /\ Begin /\ cSrv # None /\ ~cSrv.deleting /\ ~cSrv.finalizer
    /\ PutServer([cSrv EXCEPT !.finalizer = TRUE], TRUE)

\* Mutant: the dispatch does not wait for the finalizer.
DispatchUnprotected(phases) ==
    Begin /\ cSrv # None /\ ~cSrv.deleting /\ cSrv.phase \in phases

\* The state machine dispatch is reached, in one of the given phases.
Dispatch(phases) ==
    /\ Begin /\ cSrv # None /\ ~cSrv.deleting /\ cSrv.finalizer
    /\ cSrv.phase \in phases

Drifted == cSrv.gen # cSrv.obsGen

ReconcilePending ==
    /\ Dispatch({"", "Pending"})
    /\ \/ cSrv.spec.secrets \subseteq cSecrets /\ SetPhase("Deploying", cSrv.ready)
       \/ ~(cSrv.spec.secrets \subseteq cSecrets) /\ SetPhase("Failed", "False")

ReconcileDeployment ==
    /\ Dispatch({"Deploying", "Updating"})
    /\ queued' = FALSE
    /\ Reconcile("Deployment", "service")

ReconcileService ==
    /\ pc = "service"
    /\ Reconcile("Service", "rollout")
    /\ UNCHANGED queued

\* The readiness test of reconcileDeploying and the rollout test of reconcileUpdating.
ReadyToRun(d) ==
    \/ cSrv.phase = "Deploying" /\ AllReady(d)
    \/ cSrv.phase = "Updating" /\ AllReady(d) /\ RolledOut(d)

CheckRollout ==
    LET d == cache["Deployment"] IN
    /\ pc = "rollout"
    /\ \/ /\ d = None
          /\ pc' = "idle" /\ queued' = TRUE
          /\ UNCHANGED <<serverVars, cSrv, childVars, secretVars, faults>>
       \/ /\ d # None /\ ReadyToRun(d)
          /\ pc' = "route"
          /\ UNCHANGED <<serverVars, cSrv, childVars, secretVars, queued, faults>>
       \/ d # None /\ ~ReadyToRun(d) /\ PutServer(cSrv, TRUE)

ReconcileHTTPRoute ==
    /\ pc = "route"
    /\ UNCHANGED queued
    /\ \/ GatewayConfigured /\ Reconcile("HTTPRoute", "promote")
       \/ /\ ~GatewayConfigured
          /\ pc' = "promote"
          /\ UNCHANGED <<serverVars, cSrv, childVars, secretVars, faults>>

Promote == pc = "promote" /\ SetPhase("Running", "True")

Fail == pc = "failing" /\ SetPhase("Failed", cSrv.ready)

ReconcileRunning ==
    LET d == cache["Deployment"] IN
    /\ Dispatch({"Running"})
    /\ \/ Drifted /\ SetPhase("Updating", cSrv.ready)
       \/ ~Drifted /\ d = None /\ SetPhase("Deploying", cSrv.ready)
       \/ /\ ~Drifted /\ d # None
          /\ PutServer([cSrv EXCEPT !.ready = IF ReadyBelow(d) THEN "False" ELSE "True"],
                       TRUE)

\* Mutant: Failed is retried without a spec change.
ReconcileFailedAlways == Dispatch({"Failed"}) /\ SetPhase("Pending", cSrv.ready)

ReconcileFailed ==
    /\ Dispatch({"Failed"})
    /\ \/ Drifted /\ SetPhase("Pending", cSrv.ready)
       \/ ~Drifted /\ UNCHANGED vars

ResetPhase ==
    /\ Dispatch(Phases \ {"", "Pending", "Deploying", "Running", "Updating", "Failed"})
    /\ SetPhase("Pending", cSrv.ready)

Operator ==
    \/ NotFound \/ ReconcileDelete \/ AddFinalizer \/ ReconcilePending
    \/ ReconcileDeployment \/ ReconcileService \/ CheckRollout
    \/ ReconcileHTTPRoute \/ Promote \/ Fail
    \/ ReconcileRunning \/ ReconcileFailed \/ ResetPhase

-----------------------------------------------------------------------------
(***************************************************************************)
(* The informers.  A changed MCPServer or child enqueues the key (For and  *)
(* Owns in SetupWithManager); Secrets are read through the cache but not   *)
(* watched for events.                                                     *)
(***************************************************************************)
SyncServer ==
    /\ pc = "idle" /\ ~srvFresh
    /\ cSrv' = srv /\ srvFresh' = TRUE /\ queued' = TRUE
    /\ UNCHANGED <<srv, uids, childVars, secretVars, pc, faults>>

SyncChild(k) ==
    /\ ~fresh[k]
    /\ cache' = [cache EXCEPT ![k] = obj[k]]
    /\ fresh' = [fresh EXCEPT ![k] = TRUE]
    /\ queued' = TRUE
    /\ UNCHANGED <<serverVars, cSrv, obj, secretVars, pc, faults>>

SyncSecrets ==
    /\ cSecrets # secrets /\ cSecrets' = secrets
    /\ UNCHANGED <<serverVars, cSrv, childVars, secrets, pc, queued, faults>>

-----------------------------------------------------------------------------
(***************************************************************************)
(* The user.  Admission rejects an empty image, so no spec has one.        *)
(***************************************************************************)
ChangeServer(new) ==
    /\ srv' = new /\ srvFresh' = FALSE
    /\ UNCHANGED <<cSrv, childVars, secretVars, pc, queued, faults>>

CreateServer(spec) ==
    /\ srv = None /\ uids < MaxIncarnations
    /\ uids' = uids + 1
    /\ ChangeServer([uid |-> uids + 1, gen |-> 1, spec |-> spec, deleting |-> FALSE,
                     finalizer |-> FALSE, phase |-> "", obsGen |-> 0,
                     ready |-> "Unknown"])

EditSpec(spec) ==
    /\ srv # None /\ spec # srv.spec /\ srv.gen < MaxGeneration
    /\ ChangeServer([srv EXCEPT !.spec = spec, !.gen = @ + 1])
    /\ UNCHANGED uids

DeleteServer ==
    /\ srv # None /\ ~srv.deleting
    /\ ChangeServer(IF srv.finalizer THEN [srv EXCEPT !.deleting = TRUE] ELSE None)
    /\ UNCHANGED uids

ChangeSecrets ==
    /\ \E s \in SecretNames : secrets' \in {secrets \cup {s}, secrets \ {s}}
    /\ secrets' # secrets
    /\ UNCHANGED <<serverVars, cSrv, childVars, cSecrets, pc, queued, faults>>

User ==
    \/ \E spec \in Specs : CreateServer(spec) \/ EditSpec(spec)
    \/ DeleteServer
    \/ ChangeSecrets

-----------------------------------------------------------------------------
(***************************************************************************)
(* The rest of the cluster.                                                *)
(***************************************************************************)
ChangeChild(k, new) ==
    /\ obj' = [obj EXCEPT ![k] = new]
    /\ fresh' = [fresh EXCEPT ![k] = FALSE]
    /\ UNCHANGED <<serverVars, cSrv, cache, secretVars, pc, queued>>

\* A child whose controller owner is gone is collected; one without owner never is.
NoOwner == 0
Live == IF srv = None THEN {} ELSE {srv.uid}
Orphaned(k) == obj[k] # None /\ obj[k].owner # NoOwner /\ obj[k].owner \notin Live
CollectGarbage(k) ==
    /\ Orphaned(k) /\ ChangeChild(k, None) /\ UNCHANGED faults

\* The ready pods run another template than the one now asked for.
Outdates(c) == /\ c.status.rollout = "Complete"
               /\ [c.status.observed EXCEPT !.replicas = c.data.replicas] # c.data

\* The Deployment controller, and the gateway for a HTTPRoute, take note of the
\* child's spec; from then on the status is about it.
ObserveSpec(k) ==
    LET c == obj[k] IN
    /\ k # "Service" /\ c # None /\ c.status.observed # c.data
    /\ ChangeChild(k, [c EXCEPT !.status =
                          [observed |-> c.data,
                           rollout  |-> IF Outdates(c) THEN "Old" ELSE c.status.rollout]])
    /\ UNCHANGED faults

\* Pods start, become ready, replace old ones, or are scaled away.
ProgressRollout ==
    LET c    == obj["Deployment"]
        from == c.status.rollout
        goal == c.status.observed
        to   == IF goal.replicas = 0 THEN "Empty"
                ELSE IF from = "Starting" THEN "Complete" ELSE "Starting"
    IN
    /\ c # None /\ goal # None /\ to # from
    /\ from = "Complete" => to = "Empty"
    /\ to = "Complete" => goal.image \notin BrokenImages /\ goal.secrets \subseteq secrets
    /\ ChangeChild("Deployment", [c EXCEPT !.status.rollout = to])
    /\ UNCHANGED faults

Cluster ==
    \/ \E k \in Kinds : CollectGarbage(k) \/ ObserveSpec(k)
    \/ ProgressRollout

(***************************************************************************)
(* Faults, bounded by MaxFaults with the failing calls above.              *)
(***************************************************************************)
PodsFail ==
    LET c == obj["Deployment"] IN
    /\ Fault
    /\ c # None /\ AllReady(c)
    /\ ChangeChild("Deployment", [c EXCEPT !.status.rollout = "Starting"])

DeleteChild(k) ==
    /\ Fault
    /\ obj[k] # None /\ ChangeChild(k, None)

\* Another writer puts a phase the dispatch does not know into the status.
ForeignPhase ==
    /\ Fault
    /\ srv # None /\ srv.phase # "Scaling"
    /\ srv' = [srv EXCEPT !.phase = "Scaling"] /\ srvFresh' = FALSE
    /\ UNCHANGED <<uids, cSrv, childVars, secretVars, pc, queued>>

\* The operator process stops and starts: the reconcile under way is lost, the
\* informers list everything again and the key is enqueued.
Restart ==
    /\ Fault
    /\ pc' = "idle" /\ queued' = TRUE
    /\ cSrv' = srv /\ srvFresh' = TRUE
    /\ cache' = obj /\ fresh' = [k \in Kinds |-> TRUE]
    /\ cSecrets' = secrets
    /\ UNCHANGED <<srv, uids, obj, secrets>>

Faults == PodsFail \/ (\E k \in Kinds : DeleteChild(k)) \/ ForeignPhase \/ Restart

-----------------------------------------------------------------------------
Next ==
    \/ Operator
    \/ SyncServer \/ (\E k \in Kinds : SyncChild(k)) \/ SyncSecrets
    \/ User \/ Cluster \/ Faults

Spec == Init /\ [][Next]_vars

\* The worker keeps working, events are delivered, Kubernetes makes progress.
\* SyncServer is only possible between reconciles, so it needs strong fairness.
Fairness ==
    /\ WF_vars(Operator)
    /\ SF_vars(SyncServer)
    /\ WF_vars(SyncSecrets)
    /\ \A k \in Kinds : /\ WF_vars(SyncChild(k))
                        /\ WF_vars(CollectGarbage(k))
                        /\ WF_vars(ObserveSpec(k))
    /\ WF_vars(ProgressRollout)

FairSpec == Spec /\ Fairness
-----------------------------------------------------------------------------
(***************************************************************************)
(* Safety                                                                  *)
(***************************************************************************)
\* The phase was set for the current spec.
Acknowledged == srv # None /\ srv.obsGen = srv.gen

\* A server that reports Running for its current generation has no Deployment and
\* no HTTPRoute built from another spec: neither a stale cache, nor an edit in the
\* middle of a reconcile, nor an earlier MCPServer of the same name leaves one
\* behind (setPhase after reconcileDeployment and reconcileHTTPRoute).
RunningServesSpec ==
    Acknowledged /\ srv.phase = "Running" =>
        \A k \in {"Deployment", "HTTPRoute"} :
            obj[k] # None => obj[k].data = Desired(k, srv.spec)

\* A live MCPServer has children only while it carries the finalizer, so that it
\* cannot vanish behind the operator's back (Reconcile adds it before the dispatch).
FinalizerBeforeChildren ==
    \A k \in Kinds :
        obj[k] # None /\ srv # None /\ obj[k].owner = srv.uid => srv.finalizer

\* No wake-up is lost: an MCPServer always has a reconcile under way or coming, or an
\* event on its way that will bring one.  Every return of Reconcile, with an error, a
\* requeue or neither, and every conflict and stale read before it, has to see to that.
Attended == srv # None => queued \/ pc # "idle" \/ ~srvFresh

\* After a deletion the operator has taken note of, children only go, and those that
\* are left have an owner that is gone, so that the garbage collector takes them: a reconcile
\* that was under way creates none, nor does a new MCPServer of the name take them over before
\* it is seen (reconcileDelete, SetControllerReference).
NothingComesBack ==
    [][srv = None /\ srvFresh =>
         \A k \in Kinds : obj'[k] # None => obj[k] # None /\ Orphaned(k)']_vars

\* What has come to rest stays at rest, in the phase it has, until the user or a fault intervenes:
\* Failed is left by an edit only, and a server Running on a Deployment of its own that the cache
\* knows stays so.  The reconciler goes on writing the Deployment and the status meanwhile, from
\* copies that may be old (reconcileRunning, reconcileFailed; the resourceVersion of every write).
Resting ==
    /\ Acknowledged /\ ~srv.deleting
    /\ \/ srv.phase = "Failed"
       \/ /\ srv.phase = "Running" /\ cache["Deployment"] # None
          /\ obj["Deployment"] # None /\ obj["Deployment"].owner = srv.uid
Undisturbed == /\ UNCHANGED faults
               /\ srv' # None /\ srv'.gen = srv.gen /\ ~srv'.deleting
RestLasts == [][Resting /\ Undisturbed => Resting' /\ srv'.phase = srv.phase]_vars

\* The inductive invariant behind RunningServesSpec.  A cached copy marked fresh is
\* the object itself;
CachesAgree ==
    /\ srvFresh => cSrv = srv
    /\ \A k \in Kinds : fresh[k] => cache[k] = obj[k]

\* generations order the cached MCPServer before the stored one, and one generation
\* of one MCPServer has one spec;
GenerationsOrdered ==
    /\ srv # None => srv.obsGen <= srv.gen /\ srv.uid = uids
    /\ srv # None /\ cSrv # None /\ cSrv.uid = srv.uid =>
          cSrv.gen <= srv.gen /\ (cSrv.gen = srv.gen => cSrv.spec = srv.spec)

\* a reconcile under way holds a server it may deploy, and has already made the Deployment, and before it promotes the
\* server the HTTPRoute, agree with the spec it holds;
Deployable == /\ cSrv # None /\ ~cSrv.deleting /\ cSrv.finalizer
              /\ cSrv.phase \in {"Deploying", "Updating"}
Matches(k, s) == obj[k] # None => obj[k].data = Desired(k, s.spec)
InFlight ==
    /\ pc # "idle" => Deployable
    /\ pc \in {"service", "rollout", "route", "promote"} => Matches("Deployment", cSrv)
    /\ pc = "promote" => Matches("HTTPRoute", cSrv)
    /\ ~GatewayConfigured => obj["HTTPRoute"] = None

\* and once the server runs its current generation the cache has caught up with it,
\* so every later write is built from the same spec.
RunningSettled ==
    Acknowledged /\ srv.phase = "Running" =>
        /\ cSrv # None /\ cSrv.uid = srv.uid /\ cSrv.gen = srv.gen
        /\ Matches("Deployment", srv) /\ Matches("HTTPRoute", srv)

\* A reconcile writes children only for a server it has seen protected, and the stored
\* server never loses that protection.
Protected ==
    /\ FinalizerBeforeChildren
    /\ cSrv # None /\ srv # None /\ cSrv.uid = srv.uid /\ cSrv.finalizer => srv.finalizer

IInv == /\ TypeOK /\ CachesAgree /\ GenerationsOrdered /\ InFlight /\ RunningSettled
        /\ Protected

\* Seen through its status alone, the reconciler implements MCPServerLifecycle.
Seen == IF srv = None THEN None
        ELSE [gen |-> srv.gen, phase |-> srv.phase, obsGen |-> srv.obsGen,
              deleting |-> srv.deleting, finalizer |-> srv.finalizer]
Lifecycle == INSTANCE MCPServerLifecycle WITH life <- Seen, Foreign <- "Scaling"

\* Phases move along the state machine, each move decided for the generation it
\* acknowledges (the dispatch in Reconcile, setPhase).
ImplementsLifecycle == Lifecycle!Spec

(***************************************************************************)
(* Liveness                                                                *)
(***************************************************************************)
\* The reconciler comes to rest on the last spec: it gives up (Failed) or reports
\* Running and Ready with the Deployment in place.  Lost calls, conflicts, stale
\* reads and restarts may delay this; requeueing brings it about.
Settled ==
    \/ srv = None
    \/ Acknowledged /\ srv.phase = "Failed"
    \/ Acknowledged /\ srv.phase = "Running" /\ srv.ready = "True" /\ obj["Deployment"] # None
Converges == <>[]Settled

\* Deleting an MCPServer succeeds: reconcileDelete releases the finalizer.
DeletionCompletes ==
    (srv # None /\ srv.deleting) ~> (srv = None)

\* Once the MCPServer stays deleted its children go too, those a reconcile that was
\* under way created after the deletion included (SetControllerReference).
DeletionLeavesNothing == <>[](srv = None) => <>[](\A k \in Kinds : obj[k] = None)

(***************************************************************************)
(* Expectations stated in the repository that the code does not meet       *)
(***************************************************************************)
\* mcpserver_controller.go:288: reconcileUpdating "transitions back to Running once
\* the rollout is complete": at least the Deployment's status is about its spec then.
RunningMeansRolledOut ==
    [][ /\ srv # None /\ srv.phase = "Updating"
        /\ srv' # None /\ srv'.phase = "Running"
        /\ obj["Deployment"] # None
        => obj["Deployment"].status.observed = obj["Deployment"].data ]_vars

\* docs/architecture.md:68: the MCPServer controller "Creates/Manages" the Service: a
\* server that stays Running has one.
ServiceRestored ==
    ~ <>[](Acknowledged /\ ~srv.deleting /\ srv.phase = "Running" /\ obj["Service"] = None)
=============================================================================
