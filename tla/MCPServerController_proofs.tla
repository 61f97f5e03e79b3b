-------------------- MODULE MCPServerController_proofs --------------------
(***************************************************************************)
(* Proofs about MCPServerController for every set of specs and Secrets,    *)
(* with or without a gateway, and for every value of the three bounds.     *)
(* IInv is inductive; the lemmas below take the two API calls first, then  *)
(* the actions by group.                                                   *)
(***************************************************************************)
EXTENDS MCPServerController, TLAPS

\* What a Status().Update or Update may write so that IInv survives it: the held
\* server without identity or spec changed, Running only over matching children.
Harmless(new) ==
    \/ new = None
    \/ /\ new \in Server
       /\ new.uid = cSrv.uid /\ new.gen = cSrv.gen /\ new.spec = cSrv.spec
       /\ new.obsGen <= new.gen
       /\ cSrv.finalizer => new.finalizer
       /\ new.phase = "Running" /\ new.obsGen = new.gen =>
             Matches("Deployment", cSrv) /\ Matches("HTTPRoute", cSrv)

\* A reconcile's last write keeps the invariant: it succeeds only on the held version.
LEMMA PutServerKeepsIInv ==
    ASSUME IInv, cSrv # None, NEW new, NEW again \in BOOLEAN,
           PutServer(new, again), Harmless(new)
    PROVE  IInv'
<1> USE DEF IInv
<1>1. UNCHANGED <<uids, cSrv, obj, cache, fresh, secrets, cSecrets>> /\ pc' = "idle"
  BY DEF PutServer, childVars, secretVars
<1>2. /\ queued' \in BOOLEAN /\ faults' \in Nat /\ srvFresh' \in BOOLEAN
      /\ \/ UNCHANGED <<srv, srvFresh>>
         \/ srvFresh /\ srv' = new /\ (srvFresh' => new = srv)
  <2>1. faults' = faults \/ faults' = faults + 1
    BY DEF PutServer, Fault
  <2>2. queued' = again \/ queued' = TRUE
    BY DEF PutServer
  <2>3. \/ UNCHANGED <<srv, srvFresh>>
        \/ srvFresh /\ srv' = new /\ srvFresh' \in IF new = srv THEN BOOLEAN ELSE {FALSE}
    BY DEF PutServer
  <2>4. faults' \in Nat
    BY <2>1 DEF TypeOK
  <2>5. queued' \in BOOLEAN
    BY <2>2
  <2>6. srvFresh' \in BOOLEAN
    BY <2>3 DEF TypeOK
  <2>7. srvFresh' => (new = srv \/ UNCHANGED <<srv, srvFresh>>)
    BY <2>3
  <2>8. QED BY <2>3, <2>4, <2>5, <2>6, <2>7
<1>3. srv' \in Server \cup {None} /\ cSrv \in Server
  BY <1>2 DEF TypeOK, Harmless
<1>4. TypeOK'
  BY <1>1, <1>2, <1>3 DEF TypeOK, Server, Child, Datum, Status, PCs
<1>5. CachesAgree'
  BY <1>1, <1>2 DEF CachesAgree
<1>6. GenerationsOrdered'
  BY <1>1, <1>2, <1>3 DEF GenerationsOrdered, CachesAgree, Harmless, Server
<1>7. InFlight'
  BY <1>1 DEF InFlight
<1>8. RunningSettled'
  BY <1>1, <1>2, <1>3 DEF RunningSettled, CachesAgree, Harmless, Acknowledged, Matches
<1>9. Protected'
  BY <1>1, <1>2, <1>3 DEF Protected, FinalizerBeforeChildren, CachesAgree, Harmless
<1>10. QED BY <1>4, <1>5, <1>6, <1>7, <1>8, <1>9

\* The three calls for a child, each with the point the reconcile goes on at.
Calls == {<<"Deployment", "service">>, <<"Service", "rollout">>, <<"HTTPRoute", "promote">>}

\* An accepted Create or Update leaves the child the held spec asks for; only a Create
\* chooses an owner, and it chooses the held server.
LEMMA WrittenIsDesired ==
    ASSUME IInv, cSrv # None, NEW k \in Kinds, Accepted(k)
    PROVE  /\ Written(k) \in Child(k)
           /\ Written(k).data = Desired(k, cSrv.spec)
           /\ \/ Written(k).owner = cSrv.uid
              \/ obj[k] # None /\ Written(k).owner = obj[k].owner
<1>1. cSrv \in Server /\ obj[k] \in Child(k) \cup {None} /\ fresh[k] \in BOOLEAN
  BY DEF IInv, TypeOK
<1>2. Desired(k, cSrv.spec) \in Datum(k) /\ cSrv.uid \in 1..uids
  BY <1>1 DEF Server, Datum
<1>3. CASE cache[k] = None
  <2>1. NoStatus \in Status(k)
    BY DEF NoStatus, Status, Rollouts
  <2>2. QED BY <1>2, <1>3, <2>1 DEF Written, Child
<1>4. CASE cache[k] # None
  <2>1. obj[k] \in Child(k) /\ obj[k] # None
    BY <1>1, <1>4 DEF Accepted, IInv, CachesAgree
  <2>2. Written(k) = [obj[k] EXCEPT !.data = Desired(k, cSrv.spec)]
    BY <1>4 DEF Written
  <2>3. QED BY <1>2, <2>1, <2>2 DEF Child
<1>5. QED BY <1>3, <1>4

\* reconcileDeployment, reconcileService and reconcileHTTPRoute keep the invariant.
LEMMA ReconcileKeepsIInv ==
    ASSUME IInv, Deployable,
           NEW k \in Kinds, NEW next, <<k, next>> \in Calls, Reconcile(k, next),
           k # "Deployment" => pc \in {"service", "route"},
           k = "HTTPRoute" => GatewayConfigured,
           queued' \in BOOLEAN
    PROVE  IInv'
<1> USE DEF IInv
<1>1. UNCHANGED <<srv, uids, srvFresh, cSrv, cache, secrets, cSecrets>>
  BY DEF Reconcile, serverVars, secretVars
<1>2. \/ UNCHANGED <<obj, fresh>>
      \/ Accepted(k) /\ Apply(k)
  BY DEF Reconcile
<1>3. \/ pc' = "failing"
      \/ pc' = next /\ (k # "Service" => Accepted(k) /\ Apply(k))
  BY DEF Reconcile, Diverged
<1>4. faults' \in Nat
  <2>1. faults' = faults \/ faults' = faults + 1
    BY DEF Reconcile, Fault
  <2>2. QED BY <2>1 DEF TypeOK
<1>5. pc' \in PCs /\ pc' # "idle"
  BY <1>3 DEF Calls, PCs
<1>6. /\ DOMAIN obj' = Kinds /\ \A j \in Kinds \ {k} : obj'[j] = obj[j]
      /\ fresh' \in [Kinds -> BOOLEAN] /\ \A j \in Kinds \ {k} : fresh'[j] = fresh[j]
      /\ \/ obj'[k] = obj[k] /\ fresh'[k] = fresh[k]
         \/ /\ Accepted(k) /\ obj'[k] = Written(k)
            /\ fresh'[k] => fresh[k] /\ Written(k) = obj[k]
  BY <1>2 DEF Apply, TypeOK
<1>7. TypeOK'
  BY <1>1, <1>4, <1>5, <1>6, WrittenIsDesired DEF Deployable, TypeOK, Server, Child, Datum, Status
<1>8. CachesAgree'
  BY <1>1, <1>6 DEF CachesAgree
<1>9. GenerationsOrdered'
  BY <1>1 DEF GenerationsOrdered
<1>10. \A j \in Kinds, s \in {srv, cSrv} :
          s # None /\ s.spec = cSrv.spec /\ Matches(j, s) => Matches(j, s)'
  BY <1>1, <1>6, WrittenIsDesired DEF Deployable, Matches
<1>11. InFlight'
  BY <1>1, <1>3, <1>6, <1>10, WrittenIsDesired DEF InFlight, Deployable, Calls, Matches, Kinds, Apply
<1>12. RunningSettled'
  BY <1>1, <1>10 DEF RunningSettled, Acknowledged, GenerationsOrdered, Kinds
<1>13. Protected'
  BY <1>1, <1>6, WrittenIsDesired DEF Deployable, Protected, FinalizerBeforeChildren
<1>14. QED BY <1>7, <1>8, <1>9, <1>11, <1>12, <1>13

\* A step that only touches the queue, the fault count, the Secrets or, before the
\* route is written, the point reached keeps the invariant.
LEMMA QuietStepKeepsIInv ==
    ASSUME IInv,
           UNCHANGED <<srv, uids, cSrv, srvFresh, obj, cache, fresh>>,
           secrets' \in SUBSET SecretNames, cSecrets' \in SUBSET SecretNames,
           queued' \in BOOLEAN, faults' \in Nat,
           pc' \in {pc, "idle"} \/ (pc = "rollout" /\ pc' = "route")
               \/ (pc = "route" /\ pc' = "promote" /\ ~GatewayConfigured)
    PROVE  IInv'
<1> USE DEF IInv
<1>1. TypeOK'
  BY DEF TypeOK, Server, Child, Datum, Status, PCs
<1>2. CachesAgree'
  BY DEF CachesAgree
<1>3. GenerationsOrdered'
  BY DEF GenerationsOrdered
<1>4. InFlight'
  BY DEF InFlight, Deployable, Matches
<1>5. RunningSettled'
  BY DEF RunningSettled, Acknowledged, Matches
<1>6. Protected'
  BY DEF Protected, FinalizerBeforeChildren
<1>7. QED BY <1>1, <1>2, <1>3, <1>4, <1>5, <1>6

\* setPhase is harmless whenever Running is set over matching children only.
LEMMA SetPhaseKeepsIInv ==
    ASSUME IInv, cSrv # None, NEW phase \in Phases, NEW ready \in {"Unknown", "True", "False"},
           SetPhase(phase, ready),
           phase = "Running" => Matches("Deployment", cSrv) /\ Matches("HTTPRoute", cSrv)
    PROVE  IInv'
<1> DEFINE new == [cSrv EXCEPT !.phase = phase, !.ready = ready, !.obsGen = cSrv.gen]
<1>1. cSrv \in Server
  BY DEF IInv, TypeOK
<1>2. Harmless(new)
  <2>1. new \in Server
    BY <1>1 DEF Server
  <2>2. /\ new.uid = cSrv.uid /\ new.gen = cSrv.gen /\ new.spec = cSrv.spec
        /\ new.finalizer = cSrv.finalizer /\ new.phase = phase /\ new.obsGen = cSrv.gen
    BY <1>1 DEF Server
  <2>3. cSrv.gen <= cSrv.gen
    BY <1>1 DEF Server
  <2>4. QED BY <2>1, <2>2, <2>3 DEF Harmless
<1>3. PutServer(new, TRUE)
  BY DEF SetPhase
<1>4. QED BY <1>2, <1>3, PutServerKeepsIInv

\* So is writing the held server back with another Ready condition or the finalizer.
LEMMA HeldIsHarmless ==
    ASSUME IInv, cSrv # None,
           NEW new \in {cSrv, [cSrv EXCEPT !.finalizer = TRUE]}
                        \cup {[cSrv EXCEPT !.ready = r] : r \in {"False", "True"}},
           PutServer(new, TRUE)
    PROVE  IInv'
<1>1. cSrv \in Server
  BY DEF IInv, TypeOK
<1>2. /\ new \in Server
      /\ new.uid = cSrv.uid /\ new.gen = cSrv.gen /\ new.spec = cSrv.spec
      /\ new.phase = cSrv.phase /\ new.obsGen = cSrv.obsGen
      /\ cSrv.finalizer => new.finalizer
  BY <1>1 DEF Server
<1>3. CASE srvFresh
  <2>1. Harmless(new)
    BY <1>2, <1>3 DEF Harmless, IInv, CachesAgree, GenerationsOrdered, RunningSettled,
                      Acknowledged
  <2>2. QED BY <2>1, PutServerKeepsIInv
<1>4. CASE ~srvFresh
  <2>1. PutServer(None, TRUE) /\ Harmless(None)
    BY <1>4 DEF PutServer, Harmless
  <2>2. QED BY <2>1, PutServerKeepsIInv
<1>5. QED BY <1>3, <1>4

\* Every action of the reconciler keeps the invariant.
LEMMA OperatorKeepsIInv ==
    ASSUME IInv, Operator
    PROVE  IInv'
<1> USE DEF IInv
<1> DEFINE Readies == {"Unknown", "True", "False"}
<1>0. cSrv # None => cSrv \in Server /\ cSrv.ready \in Readies
  BY DEF TypeOK, Server
<1>1. CASE NotFound
  <2>1. UNCHANGED <<srv, uids, cSrv, srvFresh, obj, cache, fresh, secrets, cSecrets, pc,
                    faults>> /\ queued' = FALSE
    BY <1>1 DEF NotFound, serverVars, childVars, secretVars
  <2>2. QED BY <2>1, QuietStepKeepsIInv DEF TypeOK
<1>2. CASE ReconcileDelete
  <2>1. cSrv # None /\ PutServer(None, FALSE) /\ Harmless(None)
    BY <1>2 DEF ReconcileDelete, Harmless
  <2>2. QED BY <2>1, PutServerKeepsIInv
<1>3. CASE AddFinalizer
  <2>1. cSrv # None /\ PutServer([cSrv EXCEPT !.finalizer = TRUE], TRUE)
    BY <1>3 DEF AddFinalizer
  <2>2. QED BY <1>0, <2>1, HeldIsHarmless
<1>4. CASE ReconcilePending
  <2>1. /\ cSrv # None
        /\ SetPhase("Deploying", cSrv.ready) \/ SetPhase("Failed", "False")
    BY <1>4 DEF ReconcilePending, Dispatch
  <2>2. QED BY <1>0, <2>1, SetPhaseKeepsIInv DEF Phases
<1>5. CASE ReconcileDeployment
  <2>1. /\ Deployable /\ queued' \in BOOLEAN
        /\ Reconcile("Deployment", "service")
    BY <1>5 DEF ReconcileDeployment, Dispatch, Deployable
  <2>2. QED BY <2>1, ReconcileKeepsIInv DEF Calls, Kinds
<1>6. CASE ReconcileService
  <2>1. /\ Deployable /\ queued' \in BOOLEAN /\ pc = "service"
        /\ Reconcile("Service", "rollout")
    BY <1>6 DEF ReconcileService, InFlight, TypeOK
  <2>2. QED BY <2>1, ReconcileKeepsIInv DEF Calls, Kinds
<1>7. CASE CheckRollout
  <2> DEFINE d == cache["Deployment"]
  <2>1. cSrv # None /\ pc = "rollout"
    BY <1>7 DEF CheckRollout, InFlight, Deployable
  <2>2. CASE PutServer(cSrv, TRUE)
    BY <1>0, <2>1, <2>2, HeldIsHarmless
  <2>3. CASE ~PutServer(cSrv, TRUE)
    <3>1. /\ UNCHANGED <<srv, uids, cSrv, srvFresh, obj, cache, fresh, secrets, cSecrets,
                         faults>>
          /\ queued' \in {queued, TRUE} /\ pc' \in {"idle", "route"}
      BY <1>7, <2>3 DEF CheckRollout, serverVars, childVars, secretVars
    <3>2. QED BY <2>1, <3>1, QuietStepKeepsIInv DEF TypeOK
  <2>4. QED BY <2>2, <2>3
<1>8. CASE ReconcileHTTPRoute
  <2>1. Deployable /\ queued' \in BOOLEAN /\ pc = "route"
    BY <1>8 DEF ReconcileHTTPRoute, InFlight, TypeOK
  <2>2. CASE GatewayConfigured
    <3>1. Reconcile("HTTPRoute", "promote")
      BY <1>8, <2>2 DEF ReconcileHTTPRoute
    <3>2. QED BY <2>1, <2>2, <3>1, ReconcileKeepsIInv DEF Calls, Kinds
  <2>3. CASE ~GatewayConfigured
    <3>1. UNCHANGED <<srv, uids, cSrv, srvFresh, obj, cache, fresh, secrets, cSecrets,
                      faults>> /\ pc' = "promote"
      BY <1>8, <2>3 DEF ReconcileHTTPRoute, serverVars, childVars, secretVars
    <3>2. QED BY <2>1, <2>3, <3>1, QuietStepKeepsIInv DEF TypeOK
  <2>4. QED BY <2>2, <2>3
<1>9. CASE Promote
  <2>1. /\ cSrv # None /\ SetPhase("Running", "True")
        /\ Matches("Deployment", cSrv) /\ Matches("HTTPRoute", cSrv)
    BY <1>9 DEF Promote, InFlight, Deployable
  <2>2. QED BY <2>1, SetPhaseKeepsIInv DEF Phases
<1>10. CASE Fail
  <2>1. cSrv # None /\ SetPhase("Failed", cSrv.ready)
    BY <1>10 DEF Fail, InFlight, Deployable
  <2>2. QED BY <1>0, <2>1, SetPhaseKeepsIInv DEF Phases
<1>11. CASE ReconcileRunning
  <2> DEFINE new(r) == [cSrv EXCEPT !.ready = r]
  <2>1. cSrv # None
    BY <1>11 DEF ReconcileRunning, Dispatch
  <2>2. \/ SetPhase("Updating", cSrv.ready) \/ SetPhase("Deploying", cSrv.ready)
        \/ PutServer(new("False"), TRUE) \/ PutServer(new("True"), TRUE)
    BY <1>11 DEF ReconcileRunning
  <2>3. CASE SetPhase("Updating", cSrv.ready) \/ SetPhase("Deploying", cSrv.ready)
    BY <1>0, <2>1, <2>3, SetPhaseKeepsIInv DEF Phases
  <2>4. ASSUME NEW r \in {"False", "True"}, PutServer(new(r), TRUE)
        PROVE  IInv'
    BY <1>0, <2>1, <2>4, HeldIsHarmless
  <2>5. QED BY <2>2, <2>3, <2>4
<1>12. CASE ReconcileFailed
  <2>1. CASE SetPhase("Pending", cSrv.ready)
    <3>1. cSrv # None
      BY <1>12 DEF ReconcileFailed, Dispatch
    <3>2. QED BY <1>0, <2>1, <3>1, SetPhaseKeepsIInv DEF Phases
  <2>2. CASE UNCHANGED vars
    <3>1. UNCHANGED <<srv, uids, cSrv, srvFresh, obj, cache, fresh, secrets, cSecrets, pc,
                      queued, faults>>
      BY <2>2 DEF vars
    <3>2. QED BY <3>1, QuietStepKeepsIInv DEF TypeOK
  <2>3. QED BY <1>12, <2>1, <2>2 DEF ReconcileFailed
<1>13. CASE ResetPhase
  <2>1. cSrv # None /\ SetPhase("Pending", cSrv.ready)
    BY <1>13 DEF ResetPhase, Dispatch
  <2>2. QED BY <1>0, <2>1, SetPhaseKeepsIInv DEF Phases
<1>14. QED BY <1>1, <1>2, <1>3, <1>4, <1>5, <1>6, <1>7, <1>8, <1>9, <1>10, <1>11, <1>12,
              <1>13 DEF Operator

\* The informers keep it: a refreshed copy is the object itself.
LEMMA InformersKeepIInv ==
    ASSUME IInv, SyncServer \/ (\E k \in Kinds : SyncChild(k)) \/ SyncSecrets
    PROVE  IInv'
<1> USE DEF IInv
<1>1. CASE SyncServer
  <2>1. /\ UNCHANGED <<srv, uids, obj, cache, fresh, secrets, cSecrets, pc, faults>>
        /\ cSrv' = srv /\ srvFresh' = TRUE /\ queued' = TRUE /\ pc = "idle"
    BY <1>1 DEF SyncServer, childVars, secretVars
  <2>2. TypeOK'
    BY <2>1 DEF TypeOK, Server, Child, Datum, Status, PCs
  <2>3. CachesAgree' /\ InFlight'
    BY <2>1 DEF CachesAgree, InFlight, Deployable, Matches
  <2>4. GenerationsOrdered'
    BY <2>1 DEF GenerationsOrdered, TypeOK, Server
  <2>5. RunningSettled' /\ Protected'
    BY <2>1 DEF RunningSettled, Protected, FinalizerBeforeChildren, Acknowledged, Matches
  <2>6. QED BY <2>2, <2>3, <2>4, <2>5
<1>2. ASSUME NEW k \in Kinds, SyncChild(k)
      PROVE  IInv'
  <2>1. /\ UNCHANGED <<srv, uids, srvFresh, cSrv, obj, secrets, cSecrets, pc, faults>>
        /\ queued' = TRUE
        /\ cache' = [cache EXCEPT ![k] = obj[k]] /\ fresh' = [fresh EXCEPT ![k] = TRUE]
    BY <1>2 DEF SyncChild, serverVars, secretVars
  <2>2. TypeOK'
    BY <2>1 DEF TypeOK, Server, Child, Datum, Status, PCs
  <2>3. CachesAgree'
    BY <2>1 DEF CachesAgree, TypeOK
  <2>4. GenerationsOrdered' /\ InFlight'
    BY <2>1 DEF GenerationsOrdered, InFlight, Deployable, Matches
  <2>5. RunningSettled' /\ Protected'
    BY <2>1 DEF RunningSettled, Protected, FinalizerBeforeChildren, Acknowledged, Matches
  <2>6. QED BY <2>2, <2>3, <2>4, <2>5
<1>3. CASE SyncSecrets
  <2>1. /\ UNCHANGED <<srv, uids, srvFresh, cSrv, obj, cache, fresh, secrets, pc, queued,
                       faults>>
        /\ cSecrets' = secrets
    BY <1>3 DEF SyncSecrets, serverVars, childVars
  <2>2. QED BY <2>1, QuietStepKeepsIInv DEF TypeOK
<1>4. QED BY <1>1, <1>2, <1>3

\* uids only grows.
LEMMA MoreUids ==
    ASSUME NEW u \in Nat, NEW v, v = u \/ v = u + 1
    PROVE  /\ v \in Nat /\ u <= v /\ 1..u \subseteq 1..v
           /\ v = u + 1 => v \in 1..v /\ \A n \in Nat : n <= u => n # v
OBVIOUS

\* The three ways a step outside the operator changes the MCPServer: it creates a new
\* one, deletes it, or changes a part the invariant leaves free.
Born(new) == /\ srv = None /\ uids' = uids + 1 /\ new \in Server'
             /\ new.uid = uids' /\ new.phase = "" /\ new.obsGen = 0
Gone(new) == new = None /\ uids' = uids
Same(new) == /\ srv # None /\ uids' = uids /\ new \in Server
             /\ new.uid = srv.uid /\ new.finalizer = srv.finalizer
             /\ new.obsGen = srv.obsGen /\ new.phase \in {srv.phase, "Scaling"}
             /\ \/ new.gen = srv.gen /\ new.spec = srv.spec
                \/ new.gen = srv.gen + 1

\* A step outside the operator that only changes the MCPServer keeps the invariant if
\* it creates a new one, deletes it, or changes a part the invariant leaves free.
LEMMA ChangeServerKeepsIInv ==
    ASSUME IInv, NEW new, srv' = new, srvFresh' = FALSE, faults' \in Nat,
           UNCHANGED <<cSrv, obj, cache, fresh, secrets, cSecrets, pc, queued>>,
           Born(new) \/ Gone(new) \/ Same(new)
    PROVE  IInv'
<1> USE DEF IInv
<1>1. uids \in Nat /\ uids' \in Nat /\ uids <= uids' /\ 1..uids \subseteq 1..uids'
  <2>1. uids \in Nat /\ (uids' = uids \/ uids' = uids + 1)
    BY DEF TypeOK, Born, Gone, Same
  <2>2. QED BY <2>1, MoreUids
<1>2. Server \subseteq Server' /\ \A k \in Kinds : Child(k) \subseteq Child(k)'
  BY <1>1 DEF Server, Child, Datum, Status
<1>3. TypeOK'
  BY <1>1, <1>2 DEF TypeOK, PCs, Born, Gone, Same
<1>4. CachesAgree' /\ InFlight'
  BY DEF CachesAgree, InFlight, Deployable, Matches
<1>5. /\ cSrv # None => cSrv.uid \in Nat /\ cSrv.uid <= uids /\ cSrv.gen \in Nat
      /\ srv # None => srv.gen \in Nat /\ srv.obsGen \in Nat /\ srv.uid = uids
                        /\ srv.obsGen <= srv.gen
      /\ \A k \in Kinds : obj[k] # None => obj[k].owner \in Nat /\ obj[k].owner <= uids
  BY <1>1 DEF TypeOK, Server, Child, GenerationsOrdered
<1>6. GenerationsOrdered'
  <2>1. CASE Gone(new)
    BY <2>1 DEF GenerationsOrdered, Gone
  <2>2. CASE Born(new)
    <3>1. /\ new.uid = uids' /\ new.obsGen = 0 /\ new.gen \in Nat
          /\ cSrv # None => cSrv.uid # new.uid
      BY <1>1, <1>5, <2>2, MoreUids DEF Server, Born
    <3>2. QED BY <3>1 DEF GenerationsOrdered
  <2>3. CASE Same(new)
    BY <1>1, <1>5, <2>3 DEF GenerationsOrdered, Same
  <2>4. QED BY <2>1, <2>2, <2>3
<1>7. RunningSettled'
  <2>1. CASE Same(new)
    BY <1>1, <1>5, <2>1 DEF RunningSettled, Acknowledged, Matches, GenerationsOrdered, Same
  <2>2. CASE Gone(new) \/ Born(new)
    BY <2>2 DEF RunningSettled, Acknowledged, Gone, Born
  <2>3. QED BY <2>1, <2>2
<1>8. Protected'
  <2>1. CASE Gone(new)
    BY <2>1 DEF Protected, FinalizerBeforeChildren, Gone
  <2>2. CASE Born(new)
    <3>1. /\ cSrv # None => cSrv.uid # new.uid
          /\ \A k \in Kinds : obj[k] # None => obj[k].owner # new.uid
      BY <1>1, <1>5, <2>2, MoreUids DEF Born
    <3>2. QED BY <3>1 DEF Protected, FinalizerBeforeChildren
  <2>3. CASE Same(new)
    BY <2>3 DEF Protected, FinalizerBeforeChildren, Same
  <2>4. QED BY <2>1, <2>2, <2>3
<1>9. QED BY <1>3, <1>4, <1>6, <1>7, <1>8

\* The user keeps it.
LEMMA UserKeepsIInv ==
    ASSUME IInv, User
    PROVE  IInv'
<1> USE DEF IInv
<1>0. uids \in Nat /\ (srv # None => srv \in Server)
  BY DEF TypeOK
<1>1. ASSUME NEW new, ChangeServer(new), Born(new) \/ Gone(new) \/ Same(new)
      PROVE  IInv'
  <2>1. /\ UNCHANGED <<cSrv, obj, cache, fresh, secrets, cSecrets, pc, queued, faults>>
        /\ srv' = new /\ srvFresh' = FALSE
    BY <1>1 DEF ChangeServer, childVars, secretVars
  <2>2. faults' \in Nat
    BY <2>1 DEF TypeOK
  <2>3. QED BY <1>1, <2>1, <2>2, ChangeServerKeepsIInv
<1>2. ASSUME NEW spec \in Specs, CreateServer(spec)
      PROVE  IInv'
  <2> DEFINE new == [uid |-> uids + 1, gen |-> 1, spec |-> spec, deleting |-> FALSE,
                     finalizer |-> FALSE, phase |-> "", obsGen |-> 0, ready |-> "Unknown"]
  <2>1. srv = None /\ uids' = uids + 1 /\ ChangeServer(new)
    BY <1>2 DEF CreateServer
  <2>2. new.uid \in 1..uids'
    BY <1>0, <2>1, MoreUids
  <2>3. Born(new)
    BY <2>1, <2>2 DEF Born, Server, Phases
  <2>4. QED BY <1>1, <2>1, <2>3
<1>3. ASSUME NEW spec \in Specs, EditSpec(spec)
      PROVE  IInv'
  <2> DEFINE new == [srv EXCEPT !.spec = spec, !.gen = @ + 1]
  <2>1. srv # None /\ uids' = uids /\ ChangeServer(new)
    BY <1>3 DEF EditSpec
  <2>2. srv.gen + 1 \in Nat
    BY <1>0, <2>1 DEF Server
  <2>3. Same(new)
    BY <1>0, <2>1, <2>2 DEF Same, Server
  <2>4. QED BY <1>1, <2>1, <2>3
<1>6. CASE DeleteServer
  <2> DEFINE new == [srv EXCEPT !.deleting = TRUE]
  <2>1. srv # None /\ uids' = uids /\ (ChangeServer(new) \/ ChangeServer(None))
    BY <1>6 DEF DeleteServer
  <2>2. Same(new) /\ Gone(None)
    BY <1>0, <2>1 DEF Same, Gone, Server
  <2>3. QED BY <1>1, <2>1, <2>2
<1>4. CASE ChangeSecrets
  <2>1. /\ UNCHANGED <<srv, uids, srvFresh, cSrv, obj, cache, fresh, cSecrets, pc, queued,
                       faults>>
        /\ secrets' \in SUBSET SecretNames
    BY <1>4 DEF ChangeSecrets, serverVars, childVars, TypeOK
  <2>2. QED BY <2>1, QuietStepKeepsIInv DEF TypeOK
<1>5. QED BY <1>2, <1>3, <1>4, <1>6 DEF User

\* A step outside the operator that removes a child or rewrites only its status keeps
\* the invariant.
LEMMA ChangeChildKeepsIInv ==
    ASSUME IInv, NEW k \in Kinds, NEW new, ChangeChild(k, new), faults' \in Nat,
           \/ new = None
           \/ /\ obj[k] # None /\ new \in Child(k)
              /\ new.owner = obj[k].owner /\ new.data = obj[k].data
    PROVE  IInv'
<1> USE DEF IInv
<1>1. /\ UNCHANGED <<srv, uids, srvFresh, cSrv, cache, secrets, cSecrets, pc, queued>>
      /\ obj' = [obj EXCEPT ![k] = new] /\ fresh' = [fresh EXCEPT ![k] = FALSE]
  BY DEF ChangeChild, serverVars, secretVars
<1>2. /\ DOMAIN obj' = Kinds /\ obj'[k] = new /\ \A j \in Kinds \ {k} : obj'[j] = obj[j]
      /\ fresh' \in [Kinds -> BOOLEAN] /\ ~fresh'[k]
      /\ \A j \in Kinds \ {k} : fresh'[j] = fresh[j]
  BY <1>1 DEF TypeOK
<1>3. TypeOK'
  BY <1>1, <1>2 DEF TypeOK, Server, Child, Datum, Status, PCs
<1>4. CachesAgree' /\ GenerationsOrdered'
  BY <1>1, <1>2 DEF CachesAgree, GenerationsOrdered
<1>5. \A j \in Kinds, s \in {srv, cSrv} : Matches(j, s) => Matches(j, s)'
  BY <1>1, <1>2 DEF Matches
<1>6. InFlight'
  BY <1>1, <1>2, <1>5 DEF InFlight, Deployable, Kinds
<1>7. RunningSettled'
  BY <1>1, <1>5 DEF RunningSettled, Acknowledged, Kinds
<1>8. Protected'
  BY <1>1, <1>2 DEF Protected, FinalizerBeforeChildren
<1>9. QED BY <1>3, <1>4, <1>6, <1>7, <1>8

\* Kubernetes keeps it.
LEMMA ClusterKeepsIInv ==
    ASSUME IInv, Cluster
    PROVE  IInv'
<1> USE DEF IInv
<1>1. ASSUME NEW k \in Kinds, CollectGarbage(k)
      PROVE  IInv'
  <2>1. ChangeChild(k, None) /\ faults' \in Nat
    BY <1>1 DEF CollectGarbage, TypeOK
  <2>2. QED BY <2>1, ChangeChildKeepsIInv
<1>2. ASSUME NEW k \in Kinds, ObserveSpec(k)
      PROVE  IInv'
  <2> DEFINE c == obj[k]
             new == [c EXCEPT !.status =
                        [observed |-> c.data,
                         rollout  |-> IF Outdates(c) THEN "Old" ELSE c.status.rollout]]
  <2>1. c # None /\ ChangeChild(k, new) /\ faults' \in Nat
    BY <1>2 DEF ObserveSpec, TypeOK
  <2>2. c \in Child(k)
    BY <2>1 DEF TypeOK
  <2>3. new \in Child(k) /\ new.owner = c.owner /\ new.data = c.data
    BY <2>2 DEF Child, Status, Rollouts
  <2>4. QED BY <2>1, <2>3, ChangeChildKeepsIInv
<1>3. CASE ProgressRollout
  <2> DEFINE c  == obj["Deployment"]
             to == IF c.status.observed.replicas = 0 THEN "Empty"
                   ELSE IF c.status.rollout = "Starting" THEN "Complete" ELSE "Starting"
             new == [c EXCEPT !.status.rollout = to]
  <2>1. c # None /\ ChangeChild("Deployment", new) /\ faults' \in Nat
    BY <1>3 DEF ProgressRollout, TypeOK
  <2>2. c \in Child("Deployment") /\ "Deployment" \in Kinds
    BY <2>1 DEF TypeOK, Kinds
  <2>3. new \in Child("Deployment") /\ new.owner = c.owner /\ new.data = c.data
    BY <2>2 DEF Child, Status, Rollouts
  <2>4. QED BY <2>1, <2>2, <2>3, ChangeChildKeepsIInv
<1>4. QED BY <1>1, <1>2, <1>3 DEF Cluster

\* Faults keep it.
LEMMA FaultsKeepIInv ==
    ASSUME IInv, Faults
    PROVE  IInv'
<1> USE DEF IInv
<1>0. faults' \in Nat
  BY DEF Faults, PodsFail, DeleteChild, ForeignPhase, Restart, Fault, TypeOK
<1>1. CASE PodsFail
  <2> DEFINE c   == obj["Deployment"]
             new == [c EXCEPT !.status.rollout = "Starting"]
  <2>1. c # None /\ ChangeChild("Deployment", new)
    BY <1>1 DEF PodsFail
  <2>2. c \in Child("Deployment") /\ "Deployment" \in Kinds
    BY <2>1 DEF TypeOK, Kinds
  <2>3. new \in Child("Deployment") /\ new.owner = c.owner /\ new.data = c.data
    BY <2>2 DEF Child, Status, Rollouts
  <2>4. QED BY <1>0, <2>1, <2>2, <2>3, ChangeChildKeepsIInv
<1>2. ASSUME NEW k \in Kinds, DeleteChild(k)
      PROVE  IInv'
  <2>1. ChangeChild(k, None)
    BY <1>2 DEF DeleteChild
  <2>2. QED BY <1>0, <2>1, ChangeChildKeepsIInv
<1>3. CASE ForeignPhase
  <2> DEFINE new == [srv EXCEPT !.phase = "Scaling"]
  <2>1. /\ UNCHANGED <<cSrv, obj, cache, fresh, secrets, cSecrets, pc, queued, uids>>
        /\ srv # None /\ srv' = new /\ srvFresh' = FALSE
    BY <1>3 DEF ForeignPhase, childVars, secretVars
  <2>2. srv \in Server
    BY <2>1 DEF TypeOK
  <2>3. Same(new)
    BY <2>1, <2>2 DEF Same, Server, Phases
  <2>4. QED BY <1>0, <2>1, <2>3, ChangeServerKeepsIInv
<1>4. CASE Restart
  <2>1. /\ UNCHANGED <<srv, uids, obj, secrets>> /\ pc' = "idle" /\ queued' = TRUE
        /\ cSrv' = srv /\ srvFresh' = TRUE /\ cache' = obj
        /\ fresh' = [k \in Kinds |-> TRUE] /\ cSecrets' = secrets
    BY <1>4 DEF Restart
  <2>2. TypeOK'
    BY <1>0, <2>1 DEF TypeOK, Server, Child, Datum, Status, PCs
  <2>3. CachesAgree' /\ InFlight'
    BY <2>1 DEF CachesAgree, InFlight
  <2>4. GenerationsOrdered'
    BY <2>1 DEF GenerationsOrdered, TypeOK, Server
  <2>5. RunningSettled' /\ Protected'
    BY <2>1 DEF RunningSettled, Protected, FinalizerBeforeChildren, Acknowledged, Matches
  <2>6. QED BY <2>2, <2>3, <2>4, <2>5
<1>5. QED BY <1>1, <1>2, <1>3, <1>4 DEF Faults

\* IInv is inductive.
LEMMA InitIInv == Init => IInv
<1> SUFFICES ASSUME Init PROVE IInv
  OBVIOUS
<1>1. TypeOK
  BY DEF Init, TypeOK, PCs
<1>2. CachesAgree /\ GenerationsOrdered /\ InFlight /\ RunningSettled /\ Protected
  BY DEF Init, CachesAgree, GenerationsOrdered, InFlight, RunningSettled, Protected,
         Acknowledged, FinalizerBeforeChildren, Kinds
<1>3. QED BY <1>1, <1>2 DEF IInv

LEMMA StepIInv == IInv /\ [Next]_vars => IInv'
<1> SUFFICES ASSUME IInv, [Next]_vars PROVE IInv'
  OBVIOUS
<1>1. CASE Next
  BY <1>1, OperatorKeepsIInv, InformersKeepIInv, UserKeepsIInv, ClusterKeepsIInv,
     FaultsKeepIInv DEF Next
<1>2. CASE UNCHANGED vars
  <2>1. UNCHANGED <<srv, uids, cSrv, srvFresh, obj, cache, fresh, secrets, cSecrets, pc,
                    queued, faults>>
    BY <1>2 DEF vars
  <2>2. QED BY <2>1, QuietStepKeepsIInv DEF IInv, TypeOK
<1>3. QED BY <1>1, <1>2

\* The invariant that server_recreate checks holds for all specs and bounds: a reconcile under
\* way has built from a copy no newer than the server and no older than what was acknowledged
\* (mcpserver_controller.go:78-364).
THEOREM Invariance == Spec => []IInv
BY InitIInv, StepIInv, PTL DEF Spec

\* Every variable keeps its type, whatever the specs, the Secrets and the bounds.
THEOREM TypeCorrect == Spec => []TypeOK
<1>1. IInv => TypeOK
  BY DEF IInv
<1>2. QED BY <1>1, Invariance, PTL

\* A server Running at its current generation has no Deployment and no HTTPRoute made
\* from another spec (mcpserver_controller.go, setPhase after reconcileDeployment and
\* reconcileHTTPRoute), however stale the caches and however often it was recreated.
THEOREM RunningServesSpecCorrect == Spec => []RunningServesSpec
<1>1. IInv => RunningServesSpec
  BY DEF IInv, RunningSettled, RunningServesSpec, Matches
<1>2. QED BY <1>1, Invariance, PTL

\* No live MCPServer has children without carrying the finalizer (Reconcile adds it
\* before the dispatch).
THEOREM FinalizerCorrect == Spec => []FinalizerBeforeChildren
<1>1. IInv => FinalizerBeforeChildren
  BY DEF IInv, Protected
<1>2. QED BY <1>1, Invariance, PTL

(***************************************************************************)
(* Wake-ups                                                                *)
(***************************************************************************)
\* The last call of a reconcile is an event if it changes the MCPServer, and requeues the key
\* if it does not.
LEMMA PutServerAttended ==
    ASSUME Attended, NEW new, NEW again, PutServer(new, again), new = None \/ again = TRUE
    PROVE  Attended'
<1>1. CASE queued' = TRUE
  BY <1>1 DEF Attended
<1>2. CASE queued' # TRUE
  <2>1. new = None /\ srvFresh /\ srv' = new
    BY <1>2 DEF PutServer
  <2>2. QED BY <2>1 DEF Attended
<1>3. QED BY <1>1, <1>2

\* A call for a child leaves the reconcile under way.
LEMMA ReconcileAttended ==
    ASSUME Attended, NEW k, NEW next, next # "idle", Reconcile(k, next)
    PROVE  Attended'
<1>1. pc' = next \/ pc' = "failing"
  BY DEF Reconcile
<1>2. QED BY <1>1 DEF Attended

\* Every return of Reconcile sees to it that another one comes if it has to.
LEMMA OperatorAttended ==
    ASSUME IInv, Attended, Operator
    PROVE  Attended'
<1>1. CASE NotFound
  BY <1>1 DEF NotFound, serverVars, Attended, IInv, CachesAgree
<1>2. CASE ReconcileDelete \/ AddFinalizer
  BY <1>2, PutServerAttended DEF ReconcileDelete, AddFinalizer
<1>3. CASE ReconcilePending \/ Promote \/ Fail \/ ReconcileRunning \/ ResetPhase
  BY <1>3, PutServerAttended
     DEF ReconcilePending, Promote, Fail, ReconcileRunning, ResetPhase, SetPhase
<1>4. CASE ReconcileFailed
  <2>1. CASE Drifted /\ SetPhase("Pending", cSrv.ready)
    BY <2>1, PutServerAttended DEF SetPhase
  <2>2. CASE UNCHANGED vars
    BY <2>2 DEF vars, Attended
  <2>3. QED BY <1>4, <2>1, <2>2 DEF ReconcileFailed
<1>5. CASE ReconcileDeployment \/ ReconcileService
  BY <1>5, ReconcileAttended DEF ReconcileDeployment, ReconcileService
<1>6. CASE CheckRollout
  <2>1. CASE PutServer(cSrv, TRUE)
    BY <2>1, PutServerAttended
  <2>2. CASE queued' = TRUE \/ pc' = "route"
    BY <2>2 DEF Attended
  <2>3. QED BY <1>6, <2>1, <2>2 DEF CheckRollout
<1>7. CASE ReconcileHTTPRoute
  <2>1. CASE Reconcile("HTTPRoute", "promote")
    BY <2>1, ReconcileAttended
  <2>2. CASE pc' = "promote"
    BY <2>2 DEF Attended
  <2>3. QED BY <1>7, <2>1, <2>2 DEF ReconcileHTTPRoute
<1>8. QED BY <1>1, <1>2, <1>3, <1>4, <1>5, <1>6, <1>7 DEF Operator

\* Nothing around the operator takes a key out of the queue, and what changes the MCPServer is an
\* event.
LEMMA SurroundingsAttended ==
    ASSUME Attended, \/ SyncServer \/ (\E k \in Kinds : SyncChild(k)) \/ SyncSecrets
                     \/ User \/ Cluster \/ Faults \/ UNCHANGED vars
    PROVE  Attended'
<1>1. CASE SyncServer \/ (\E k \in Kinds : SyncChild(k))
  BY <1>1 DEF SyncServer, SyncChild, Attended
<1>2. CASE SyncSecrets \/ ChangeSecrets \/ UNCHANGED vars
  BY <1>2 DEF SyncSecrets, ChangeSecrets, serverVars, vars, Attended
<1>3. CASE (\E spec \in Specs : CreateServer(spec) \/ EditSpec(spec)) \/ DeleteServer
  BY <1>3 DEF CreateServer, EditSpec, DeleteServer, ChangeServer, Attended
<1>4. CASE Cluster
  <2>1. UNCHANGED <<srv, srvFresh, pc, queued>>
    BY <1>4 DEF Cluster, CollectGarbage, ObserveSpec, ProgressRollout, ChangeChild, serverVars
  <2>2. QED BY <2>1 DEF Attended
<1>5. CASE PodsFail \/ (\E k \in Kinds : DeleteChild(k))
  BY <1>5 DEF PodsFail, DeleteChild, ChangeChild, serverVars, Attended
<1>6. CASE ForeignPhase \/ Restart
  BY <1>6 DEF ForeignPhase, Restart, Attended
<1>7. QED BY <1>1, <1>2, <1>3, <1>4, <1>5, <1>6 DEF User, Faults

\* No wake-up of an MCPServer is lost (the returns of Reconcile, For and Owns in
\* SetupWithManager).
THEOREM AlwaysAttended == Spec => []Attended
<1>1. Init => Attended
  BY DEF Init, Attended
<1>2. IInv /\ Attended /\ [Next]_vars => Attended'
  BY OperatorAttended, SurroundingsAttended DEF Next
<1>3. QED BY <1>1, <1>2, Invariance, PTL DEF Spec

(***************************************************************************)
(* After a deletion                                                        *)
(***************************************************************************)
\* Rewriting or removing a child outside the operator gives no child another owner.
LEMMA ChangeChildKeepsOwners ==
    ASSUME TypeOK, NEW k \in Kinds, NEW new, ChangeChild(k, new),
           new # None => obj[k] # None /\ new.owner = obj[k].owner
    PROVE  /\ srv' = srv
           /\ \A j \in Kinds : obj'[j] # None => obj[j] # None /\ obj'[j].owner = obj[j].owner
BY DEF TypeOK, ChangeChild, serverVars

\* While there is no MCPServer and the operator knows, no step makes a child or changes
\* the owner of one, and an MCPServer that comes is not one of the owners.
LEMMA OwnersKept ==
    ASSUME IInv, [Next]_vars, srv = None, srvFresh
    PROVE  /\ srv' = None \/ srv'.uid = uids + 1
           /\ \A k \in Kinds : obj'[k] # None => obj[k] # None /\ obj'[k].owner = obj[k].owner
<1>1. cSrv = None /\ pc = "idle" /\ TypeOK
  BY DEF IInv, CachesAgree, InFlight, Deployable
<1>2. CASE Operator
  <2>1. NotFound
    BY <1>1, <1>2 DEF Operator, ReconcileDelete, AddFinalizer, ReconcilePending,
       ReconcileDeployment, ReconcileService, CheckRollout, ReconcileHTTPRoute, Promote, Fail,
       ReconcileRunning, ReconcileFailed, ResetPhase, Dispatch
  <2>2. QED BY <2>1 DEF NotFound, serverVars, childVars
<1>3. CASE \/ SyncServer \/ (\E k \in Kinds : SyncChild(k)) \/ SyncSecrets
           \/ ChangeSecrets \/ Restart \/ UNCHANGED vars
  BY <1>3 DEF SyncServer, SyncChild, SyncSecrets, ChangeSecrets, Restart, vars, serverVars,
              childVars
<1>4. CASE (\E spec \in Specs : CreateServer(spec) \/ EditSpec(spec)) \/ DeleteServer \/ ForeignPhase
  <2>1. PICK spec \in Specs : CreateServer(spec)
    BY <1>1, <1>4 DEF EditSpec, DeleteServer, ForeignPhase
  <2>2. obj' = obj /\ srv'.uid = uids + 1
    BY <2>1 DEF CreateServer, ChangeServer, childVars
  <2>3. QED BY <2>2
<1>5. CASE Cluster
  <2>1. ASSUME NEW k \in Kinds, CollectGarbage(k) PROVE ChangeChild(k, None)
    BY <2>1 DEF CollectGarbage
  <2>2. ASSUME NEW k \in Kinds, ObserveSpec(k)
        PROVE  \E new : ChangeChild(k, new) /\ obj[k] # None /\ new.owner = obj[k].owner
    <3>1. obj[k] \in Child(k) /\ obj[k] # None
      BY <1>1, <2>2 DEF TypeOK, ObserveSpec
    <3>2. QED BY <2>2, <3>1 DEF ObserveSpec, Child
  <2>3. CASE ProgressRollout
    <3>1. obj["Deployment"] \in Child("Deployment") /\ obj["Deployment"] # None
      BY <1>1, <2>3 DEF TypeOK, ProgressRollout, Kinds
    <3>2. \E new : /\ ChangeChild("Deployment", new)
                   /\ new.owner = obj["Deployment"].owner
      BY <2>3, <3>1 DEF ProgressRollout, Child
    <3>3. QED BY <1>1, <3>1, <3>2, ChangeChildKeepsOwners DEF Kinds
  <2>4. QED BY <1>1, <1>5, <2>1, <2>2, <2>3, ChangeChildKeepsOwners DEF Cluster
<1>6. CASE PodsFail
  <2>1. obj["Deployment"] \in Child("Deployment") /\ obj["Deployment"] # None
    BY <1>1, <1>6 DEF TypeOK, PodsFail, Kinds
  <2>2. \E new : /\ ChangeChild("Deployment", new)
                 /\ new.owner = obj["Deployment"].owner
    BY <1>6, <2>1 DEF PodsFail, Child
  <2>3. QED BY <1>1, <2>1, <2>2, ChangeChildKeepsOwners DEF Kinds
<1>7. ASSUME NEW k \in Kinds, DeleteChild(k)
      PROVE  /\ srv' = srv
             /\ \A j \in Kinds : obj'[j] # None => obj[j] # None /\ obj'[j].owner = obj[j].owner
  BY <1>1, <1>7, ChangeChildKeepsOwners DEF DeleteChild
<1>8. QED BY <1>2, <1>3, <1>4, <1>5, <1>6, <1>7 DEF Next, User, Faults

\* The owner of a child is an MCPServer that was created before.
LEMMA OwnersAreOld ==
    ASSUME NEW n \in Nat, NEW o \in 1..n PROVE o # NoOwner /\ o # n + 1
BY DEF NoOwner

\* Once the operator has seen the deletion, children only go, and those left are for the garbage
\* collector (reconcileDelete, SetControllerReference).
THEOREM NothingComesBackHolds == Spec => NothingComesBack
<1>1. IInv /\ [Next]_vars =>
        (srv = None /\ srvFresh =>
           \A k \in Kinds : obj'[k] # None => obj[k] # None /\ Orphaned(k)')
  <2> SUFFICES ASSUME IInv, [Next]_vars, srv = None, srvFresh, NEW k \in Kinds, obj'[k] # None
               PROVE  obj[k] # None /\ Orphaned(k)'
    OBVIOUS
  <2>1. obj[k] # None /\ obj'[k].owner = obj[k].owner /\ (srv' = None \/ srv'.uid = uids + 1)
    BY OwnersKept
  <2>2. uids \in Nat /\ obj[k].owner \in 1..uids
    BY <2>1 DEF IInv, TypeOK, Child
  <2>3. obj'[k].owner # NoOwner /\ obj'[k].owner # uids + 1
    BY <2>1, <2>2, OwnersAreOld
  <2>4. QED BY <2>1, <2>3 DEF Orphaned, Live, NoOwner
<1>2. QED BY <1>1, Invariance, PTL DEF Spec, NothingComesBack

(***************************************************************************)
(* What rests stays at rest                                                *)
(***************************************************************************)
\* A server Running on a Deployment of its own, as far as the children are concerned.
OnItsOwn == /\ cache["Deployment"] # None
            /\ obj["Deployment"] # None /\ obj["Deployment"].owner = srv.uid

\* A step that leaves the phase and what acknowledges it alone, and a Running server's Deployment.
LEMMA RestsStill ==
    ASSUME Resting, Undisturbed,
           srv'.phase = srv.phase, srv'.obsGen = srv.obsGen, srv'.uid = srv.uid,
           OnItsOwn => OnItsOwn'
    PROVE  Resting' /\ srv'.phase = srv.phase
BY DEF Resting, Undisturbed, Acknowledged, OnItsOwn

\* The Deployment that is there is an object, with an owner, a spec and a status.
LEMMA DeploymentTyped ==
    ASSUME TypeOK, obj["Deployment"] # None
    PROVE  obj["Deployment"] \in [owner : Nat, data : Datum("Deployment"), status : Status("Deployment")]
BY DEF TypeOK, Kinds, Child

\* The status is written to a resting server only from a current copy, which shows what it rests on.
LEMMA PutServerRests ==
    ASSUME IInv, Resting, Undisturbed, NEW new, NEW again, PutServer(new, again),
           srvFresh => new.phase = srv.phase /\ new.obsGen = srv.obsGen /\ new.uid = srv.uid
    PROVE  Resting' /\ srv'.phase = srv.phase
<1>1. srv' = srv \/ (srvFresh /\ srv' = new)
  BY DEF PutServer
<1>2. OnItsOwn => OnItsOwn'
  BY <1>1 DEF PutServer, childVars, OnItsOwn
<1>3. QED BY <1>1, <1>2, RestsStill

\* A Deployment is rewritten in place, with its owner and status.
LEMMA DeploymentRests ==
    ASSUME IInv, OnItsOwn, cSrv # None, Reconcile("Deployment", "service")
    PROVE  OnItsOwn'
<1>1. cache' = cache /\ srv' = srv
  BY DEF Reconcile, serverVars
<1>2. CASE obj' = obj
  BY <1>1, <1>2 DEF OnItsOwn
<1>3. CASE Accepted("Deployment") /\ Apply("Deployment")
  <2>1. TypeOK /\ obj["Deployment"] # None /\ cSrv \in Server
    BY DEF IInv, TypeOK, OnItsOwn
  <2>2. Desired("Deployment", cSrv.spec) \in Datum("Deployment")
    BY <2>1 DEF Server, Datum
  <2>. DEFINE w == [obj["Deployment"] EXCEPT !.data = Desired("Deployment", cSrv.spec)]
  <2>3. w \in [owner : Nat, data : Datum("Deployment"), status : Status("Deployment")]
    BY <2>1, <2>2, DeploymentTyped
  <2>4. w # None
    BY <2>3, NoChildAssumption DEF Kinds
  <2>5. w.owner = obj["Deployment"].owner
    BY <2>1, DeploymentTyped
  <2>6. obj'["Deployment"] = w
    BY <1>3, <2>1 DEF Apply, Written, OnItsOwn, IInv, TypeOK, Kinds
  <2>. HIDE DEF w
  <2>7. QED BY <1>1, <2>4, <2>5, <2>6 DEF OnItsOwn
<1>4. QED BY <1>2, <1>3 DEF Reconcile

\* The other children are not what a server runs on.
LEMMA OthersRest ==
    ASSUME IInv, OnItsOwn, NEW k \in Kinds \ {"Deployment"}, NEW next, Reconcile(k, next)
    PROVE  OnItsOwn'
<1>1. cache' = cache /\ srv' = srv
  BY DEF Reconcile, serverVars
<1>2. obj' = obj \/ obj' = [obj EXCEPT ![k] = Written(k)]
  BY DEF Reconcile, Apply
<1>3. obj'["Deployment"] = obj["Deployment"]
  BY <1>2 DEF IInv, TypeOK, Kinds
<1>4. QED BY <1>1, <1>3 DEF OnItsOwn

\* Whatever the worker is in the middle of, and however old its copies: it does not wake a
\* server that has come to rest.
LEMMA OperatorRests ==
    ASSUME IInv, Resting, Undisturbed, Operator
    PROVE  Resting' /\ srv'.phase = srv.phase
<1>1. /\ TypeOK /\ srv # None /\ srv.obsGen = srv.gen /\ ~srv.deleting
      /\ srv.phase \in {"Failed", "Running"}
      /\ srv.phase = "Running" => OnItsOwn
      /\ srvFresh => cSrv = srv
  BY DEF IInv, CachesAgree, Resting, Acknowledged, OnItsOwn
<1>2. ASSUME srv' = srv, OnItsOwn => OnItsOwn' PROVE Resting' /\ srv'.phase = srv.phase
  BY <1>2, RestsStill
<1>3. CASE NotFound
  BY <1>2, <1>3 DEF NotFound, serverVars, childVars, OnItsOwn
<1>4. CASE ReconcileDelete
  BY <1>1, <1>4, PutServerRests DEF ReconcileDelete
<1>5. CASE AddFinalizer
  <2>. DEFINE new == [cSrv EXCEPT !.finalizer = TRUE]
  <2>1. new.phase = cSrv.phase /\ new.obsGen = cSrv.obsGen /\ new.uid = cSrv.uid
    BY <1>1, <1>5 DEF AddFinalizer, TypeOK, Server
  <2>2. PutServer(new, TRUE)
    BY <1>5 DEF AddFinalizer
  <2>. HIDE DEF new
  <2>3. QED BY <1>1, <2>1, <2>2, PutServerRests
<1>6. CASE ReconcilePending \/ ResetPhase
  <2>1. ~srvFresh
    BY <1>1, <1>6 DEF ReconcilePending, ResetPhase, Dispatch, Phases
  <2>2. QED BY <1>6, <2>1, PutServerRests DEF ReconcilePending, ResetPhase, SetPhase
<1>7. CASE Promote \/ Fail
  <2>1. ~srvFresh
    BY <1>1, <1>7 DEF Promote, Fail, IInv, InFlight, Deployable
  <2>2. QED BY <1>7, <2>1, PutServerRests DEF Promote, Fail, SetPhase
<1>8. CASE CheckRollout
  <2>1. ~srvFresh
    BY <1>1, <1>8 DEF CheckRollout, IInv, InFlight, Deployable
  <2>2. CASE PutServer(cSrv, TRUE)
    BY <2>1, <2>2, PutServerRests
  <2>3. CASE UNCHANGED <<serverVars, cSrv, childVars, secretVars, faults>>
    BY <1>2, <2>3 DEF serverVars, childVars, OnItsOwn
  <2>4. QED BY <1>8, <2>2, <2>3 DEF CheckRollout
<1>9. CASE ReconcileDeployment
  <2>1. cSrv # None /\ Reconcile("Deployment", "service") /\ srv' = srv
    BY <1>9 DEF ReconcileDeployment, Dispatch, Reconcile, serverVars
  <2>2. QED BY <1>2, <2>1, DeploymentRests
<1>10. CASE ReconcileService
  <2>1. Reconcile("Service", "rollout") /\ srv' = srv /\ "Service" \in Kinds \ {"Deployment"}
    BY <1>10 DEF ReconcileService, Reconcile, serverVars, Kinds
  <2>2. QED BY <1>2, <2>1, OthersRest
<1>11. CASE ReconcileHTTPRoute
  <2>1. CASE Reconcile("HTTPRoute", "promote")
    <3>1. srv' = srv /\ "HTTPRoute" \in Kinds \ {"Deployment"}
      BY <2>1 DEF Reconcile, serverVars, Kinds
    <3>2. QED BY <1>2, <2>1, <3>1, OthersRest
  <2>2. CASE UNCHANGED <<serverVars, cSrv, childVars, secretVars, faults>>
    BY <1>2, <2>2 DEF serverVars, childVars, OnItsOwn
  <2>3. QED BY <1>11, <2>1, <2>2 DEF ReconcileHTTPRoute
<1>12. CASE ReconcileRunning
  <2>. DEFINE new == [cSrv EXCEPT !.ready = IF ReadyBelow(cache["Deployment"]) THEN "False" ELSE "True"]
  <2>1. new.phase = cSrv.phase /\ new.obsGen = cSrv.obsGen /\ new.uid = cSrv.uid
    BY <1>1, <1>12 DEF ReconcileRunning, Dispatch, TypeOK, Server
  <2>2. srvFresh => ~Drifted /\ cache["Deployment"] # None
    BY <1>1, <1>12 DEF ReconcileRunning, Dispatch, Drifted, OnItsOwn
  <2>3. CASE srvFresh
    <3>1. PutServer(new, TRUE)
      BY <1>12, <2>2, <2>3 DEF ReconcileRunning
    <3>. HIDE DEF new
    <3>2. QED BY <1>1, <2>1, <3>1, PutServerRests
  <2>4. CASE ~srvFresh
    BY <1>12, <2>4, PutServerRests DEF ReconcileRunning, SetPhase
  <2>5. QED BY <2>3, <2>4
<1>13. CASE ReconcileFailed
  <2>1. CASE Drifted /\ SetPhase("Pending", cSrv.ready)
    <3>1. ~srvFresh
      BY <1>1, <2>1 DEF Drifted
    <3>2. QED BY <2>1, <3>1, PutServerRests DEF SetPhase
  <2>2. CASE UNCHANGED vars
    BY <1>2, <2>2 DEF vars, OnItsOwn
  <2>3. QED BY <1>13, <2>1, <2>2 DEF ReconcileFailed
<1>14. QED BY <1>3, <1>4, <1>5, <1>6, <1>7, <1>8, <1>9, <1>10, <1>11, <1>12, <1>13 DEF Operator

\* A Deployment that another controller updates stays the server's.
LEMMA ChangedDeploymentRests ==
    ASSUME TypeOK, OnItsOwn, NEW k \in Kinds, NEW new, ChangeChild(k, new),
           k = "Deployment" =>
             /\ new \in [owner : Nat, data : Datum("Deployment"), status : Status("Deployment")]
             /\ new.owner = obj["Deployment"].owner
    PROVE  OnItsOwn'
<1>1. srv' = srv /\ cache' = cache /\ obj' = [obj EXCEPT ![k] = new]
  BY DEF ChangeChild, serverVars
<1>2. k = "Deployment" => new # None
  BY NoChildAssumption DEF Kinds
<1>3. QED BY <1>1, <1>2 DEF OnItsOwn, TypeOK, Kinds

LEMMA ClusterRests ==
    ASSUME IInv, OnItsOwn, srv # None, Cluster
    PROVE  OnItsOwn'
<1>. DEFINE Deployments == [owner : Nat, data : Datum("Deployment"), status : Status("Deployment")]
<1>1. TypeOK /\ obj["Deployment"] \in Deployments /\ "Deployment" \in Kinds
  BY DeploymentTyped DEF IInv, OnItsOwn, Kinds
<1>2. ASSUME NEW k \in Kinds, CollectGarbage(k) PROVE OnItsOwn'
  <2>1. k # "Deployment" /\ ChangeChild(k, None)
    BY <1>2 DEF CollectGarbage, Orphaned, Live, OnItsOwn
  <2>2. QED BY <1>1, <2>1, ChangedDeploymentRests
<1>3. ASSUME NEW k \in Kinds, ObserveSpec(k) PROVE OnItsOwn'
  <2>. DEFINE st == [observed |-> obj[k].data,
                     rollout  |-> IF Outdates(obj[k]) THEN "Old" ELSE obj[k].status.rollout]
              new == [obj[k] EXCEPT !.status = st]
  <2>1. ChangeChild(k, new)
    BY <1>3 DEF ObserveSpec
  <2>2. CASE k = "Deployment"
    <3>1. st \in Status("Deployment")
      BY <1>1, <2>2 DEF Status, Rollouts
    <3>. HIDE DEF st
    <3>2. new \in Deployments /\ new.owner = obj["Deployment"].owner
      BY <1>1, <2>2, <3>1
    <3>. HIDE DEF new
    <3>3. QED BY <1>1, <2>1, <3>2, ChangedDeploymentRests
  <2>3. CASE k # "Deployment"
    <3>. HIDE DEF new
    <3>1. QED BY <1>1, <2>1, <2>3, ChangedDeploymentRests
  <2>4. QED BY <2>2, <2>3
<1>4. CASE ProgressRollout
  <2>1. PICK to \in Rollouts :
          ChangeChild("Deployment", [obj["Deployment"] EXCEPT !.status.rollout = to])
    BY <1>4 DEF ProgressRollout, Rollouts
  <2>. DEFINE new == [obj["Deployment"] EXCEPT !.status.rollout = to]
  <2>2. new \in Deployments /\ new.owner = obj["Deployment"].owner
    BY <1>1 DEF Status
  <2>3. ChangeChild("Deployment", new)
    BY <2>1
  <2>. HIDE DEF new
  <2>4. QED BY <1>1, <2>2, <2>3, ChangedDeploymentRests
<1>5. QED BY <1>2, <1>3, <1>4 DEF Cluster

\* Failed and Running last until an edit, a deletion or a fault (reconcileFailed, reconcileRunning,
\* statusUpdate): the safety half of Converges, for any specs and Secrets.
THEOREM RestLastsHolds == Spec => RestLasts
<1>1. IInv /\ [Next]_vars => [Resting /\ Undisturbed => Resting' /\ srv'.phase = srv.phase]_vars
  <2> SUFFICES ASSUME IInv, Next, Resting, Undisturbed
               PROVE  Resting' /\ srv'.phase = srv.phase
    OBVIOUS
  <2>1. TypeOK /\ srv # None /\ srv.gen \in Nat /\ faults \in Nat /\ ~Fault
    BY DEF IInv, TypeOK, Server, Resting, Acknowledged, Undisturbed, Fault
  <2>2. ASSUME srv' = srv, OnItsOwn => OnItsOwn' PROVE Resting' /\ srv'.phase = srv.phase
    BY <2>2, RestsStill
  <2>3. CASE Operator
    BY <2>3, OperatorRests
  <2>4. CASE SyncServer \/ SyncSecrets \/ ChangeSecrets
    BY <2>2, <2>4 DEF SyncServer, SyncSecrets, ChangeSecrets, serverVars, childVars, OnItsOwn
  <2>5. ASSUME NEW k \in Kinds, SyncChild(k) PROVE Resting' /\ srv'.phase = srv.phase
    <3>1. srv' = srv /\ obj' = obj /\ cache' = [cache EXCEPT ![k] = obj[k]]
      BY <2>5 DEF SyncChild, serverVars
    <3>2. OnItsOwn => OnItsOwn'
      BY <2>1, <3>1 DEF OnItsOwn, TypeOK
    <3>3. QED BY <2>2, <3>1, <3>2
  <2>6. CASE \E spec \in Specs : CreateServer(spec) \/ EditSpec(spec)
    <3>1. PICK spec \in Specs : srv' = [srv EXCEPT !.spec = spec, !.gen = srv.gen + 1]
      BY <2>1, <2>6 DEF CreateServer, EditSpec, ChangeServer
    <3>2. srv'.gen = srv.gen + 1
      BY <2>1, <3>1 DEF TypeOK, Server
    <3>3. QED BY <2>1, <3>2 DEF Undisturbed
  <2>7. CASE DeleteServer
    <3>1. srv' = None \/ srv'.deleting
      BY <2>1, <2>7 DEF DeleteServer, ChangeServer, TypeOK, Server
    <3>2. QED BY <3>1 DEF Undisturbed
  <2>8. CASE Cluster
    <3>1. srv' = srv
      BY <2>8 DEF Cluster, CollectGarbage, ObserveSpec, ProgressRollout, ChangeChild, serverVars
    <3>2. QED BY <2>1, <2>2, <2>8, <3>1, ClusterRests
  <2>9. ~Faults
    BY <2>1 DEF Faults, PodsFail, DeleteChild, ForeignPhase, Restart
  <2>10. QED BY <2>3, <2>4, <2>5, <2>6, <2>7, <2>8, <2>9 DEF Next, User
<1>2. QED BY <1>1, Invariance, PTL DEF Spec, RestLasts

(***************************************************************************)
(* Refinement: every step of the reconciler and its surroundings, seen     *)
(* through Seen, is a step of MCPServerLifecycle or leaves it unchanged.   *)
(***************************************************************************)
\* What Seen makes of an MCPServer.
View(s) == [gen |-> s.gen, phase |-> s.phase, obsGen |-> s.obsGen,
            deleting |-> s.deleting, finalizer |-> s.finalizer]

\* An EXCEPT of two fields is two of one field.
LEMMA TwoFields ==
    ASSUME NEW v, NEW p, NEW q
    PROVE  [v EXCEPT !.phase = p, !.obsGen = q] = [[v EXCEPT !.phase = p] EXCEPT !.obsGen = q]
OBVIOUS

\* Setting a phase and the observed generation shows as just that.
LEMMA ViewOfMove ==
    ASSUME NEW s, NEW t, NEW p,
           t.gen = s.gen, t.phase = p, t.obsGen = s.gen,
           t.deleting = s.deleting, t.finalizer = s.finalizer
    PROVE  View(t) = [View(s) EXCEPT !.phase = p, !.obsGen = View(s).gen]
<1> DEFINE u == [gen |-> s.gen, phase |-> p, obsGen |-> s.obsGen,
                 deleting |-> s.deleting, finalizer |-> s.finalizer]
<1>1. [View(s) EXCEPT !.phase = p] = u /\ View(s).gen = s.gen
  BY DEF View
<1>2. [u EXCEPT !.obsGen = s.gen] = View(t)
  BY DEF View
<1> HIDE DEF u
<1>3. QED BY <1>1, <1>2, TwoFields

\* So does protecting it.
LEMMA ViewOfFinalizer ==
    ASSUME NEW s, NEW t, NEW f,
           t.gen = s.gen, t.phase = s.phase, t.obsGen = s.obsGen,
           t.deleting = s.deleting, t.finalizer = f
    PROVE  View(t) = [View(s) EXCEPT !.finalizer = f]
BY DEF View

\* So do an edit, a deletion and a foreign phase.
LEMMA ViewOfEdit ==
    ASSUME NEW s, NEW t, NEW g,
           t.gen = g, t.phase = s.phase, t.obsGen = s.obsGen,
           t.deleting = s.deleting, t.finalizer = s.finalizer
    PROVE  View(t) = [View(s) EXCEPT !.gen = g]
BY DEF View

LEMMA ViewOfDelete ==
    ASSUME NEW s, NEW t, NEW f,
           t.gen = s.gen, t.phase = s.phase, t.obsGen = s.obsGen,
           t.deleting = f, t.finalizer = s.finalizer
    PROVE  View(t) = [View(s) EXCEPT !.deleting = f]
BY DEF View

LEMMA ViewOfPhase ==
    ASSUME NEW s, NEW t, NEW p,
           t.gen = s.gen, t.phase = p, t.obsGen = s.obsGen,
           t.deleting = s.deleting, t.finalizer = s.finalizer
    PROVE  View(t) = [View(s) EXCEPT !.phase = p]
BY DEF View

\* Two servers that agree on what the abstraction keeps look the same.
LEMMA ViewOfSame ==
    ASSUME NEW s, NEW t,
           t.gen = s.gen, t.phase = s.phase, t.obsGen = s.obsGen,
           t.deleting = s.deleting, t.finalizer = s.finalizer
    PROVE  View(t) = View(s)
BY DEF View

\* Neither an MCPServer nor its view is None.
LEMMA ServersAreSeen ==
    ASSUME IInv, NEW s \in Server
    PROVE  s # None /\ View(s) # None
<1>1. /\ s.uid \in Nat /\ View(s) \in [gen : Nat, phase : Phases, obsGen : Nat,
                                       deleting : BOOLEAN, finalizer : BOOLEAN]
  BY DEF Server, View, IInv, TypeOK
<1>2. s \in [uid : Nat, gen : Nat, spec : Specs, deleting : BOOLEAN, finalizer : BOOLEAN,
             phase : Phases, obsGen : Nat, ready : {"Unknown", "True", "False"}]
  BY <1>1 DEF Server
<1>3. QED BY <1>1, <1>2, NoneAssumption

\* A write of the held server either fails or replaces exactly what the reconcile read.
LEMMA PutServerRefines ==
    ASSUME IInv, NEW new, NEW again, PutServer(new, again)
    PROVE  UNCHANGED srv \/ (srv = cSrv /\ srv' = new)
BY DEF PutServer, IInv, CachesAgree

\* setPhase is the abstract Move, when the phase is one the state machine allows.
LEMMA SetPhaseRefines ==
    ASSUME IInv, NEW phase \in Phases, NEW ready \in {"Unknown", "True", "False"},
           SetPhase(phase, ready), cSrv # None, ~cSrv.deleting, cSrv.finalizer,
           phase \in Lifecycle!Edges(cSrv.phase, cSrv.gen # cSrv.obsGen)
    PROVE  [Lifecycle!Next]_Seen
<1> DEFINE new == [cSrv EXCEPT !.phase = phase, !.ready = ready, !.obsGen = cSrv.gen]
<1>1. UNCHANGED srv \/ (srv = cSrv /\ srv' = new)
  BY PutServerRefines DEF SetPhase
<1>2. CASE UNCHANGED srv
  BY <1>2 DEF Seen
<1>3. CASE srv = cSrv /\ srv' = new
  <2>1. cSrv \in Server /\ new \in Server
    BY DEF IInv, TypeOK, Server
  <2>2. Seen = View(cSrv) /\ Seen' = View(new) /\ Seen # None
    BY <1>3, <2>1, ServersAreSeen DEF Seen, View
  <2>3. View(new) = [View(cSrv) EXCEPT !.phase = phase, !.obsGen = View(cSrv).gen]
    <3>1. /\ new.gen = cSrv.gen /\ new.phase = phase /\ new.obsGen = cSrv.gen
          /\ new.deleting = cSrv.deleting /\ new.finalizer = cSrv.finalizer
      BY <2>1 DEF Server
    <3> HIDE DEF new
    <3>2. QED BY <3>1, ViewOfMove
  <2>4. Lifecycle!Move
    BY <2>2, <2>3 DEF Lifecycle!Move, View
  <2>5. QED BY <2>4 DEF Lifecycle!Next
<1>4. QED BY <1>2, <1>3, <1>1

\* Every action of the reconciler is an abstract step or invisible.
LEMMA OperatorRefines ==
    ASSUME IInv, Operator
    PROVE  [Lifecycle!Next]_Seen
<1> DEFINE Readies == {"Unknown", "True", "False"}
<1>0. cSrv # None => cSrv \in Server /\ cSrv.ready \in Readies
  BY DEF IInv, TypeOK, Server
<1>1. CASE UNCHANGED srv
  BY <1>1 DEF Seen
<1>2. CASE ReconcileDelete
  <2>1. cSrv # None /\ cSrv.deleting /\ PutServer(None, FALSE)
    BY <1>2 DEF ReconcileDelete
  <2>2. CASE srv = cSrv /\ srv' = None
    <3>1. Seen = View(cSrv) /\ Seen' = None /\ Seen # None
      BY <1>0, <2>1, <2>2, ServersAreSeen DEF Seen, View
    <3>2. Lifecycle!Release
      BY <2>1, <3>1 DEF Lifecycle!Release, View
    <3>3. QED BY <3>2 DEF Lifecycle!Next
  <2>3. QED BY <1>1, <2>1, <2>2, PutServerRefines
<1>3. CASE AddFinalizer
  <2> DEFINE new == [cSrv EXCEPT !.finalizer = TRUE]
  <2>1. cSrv # None /\ ~cSrv.deleting /\ ~cSrv.finalizer /\ PutServer(new, TRUE)
    BY <1>3 DEF AddFinalizer
  <2>2. CASE srv = cSrv /\ srv' = new
    <3>1. new \in Server
      BY <1>0, <2>1 DEF Server
    <3>2. Seen = View(cSrv) /\ Seen' = View(new) /\ Seen # None
      BY <1>0, <2>1, <2>2, <3>1, ServersAreSeen DEF Seen, View
    <3>3. /\ new.gen = cSrv.gen /\ new.phase = cSrv.phase /\ new.obsGen = cSrv.obsGen
          /\ new.deleting = cSrv.deleting /\ new.finalizer = TRUE
      BY <1>0, <2>1 DEF Server
    <3> HIDE DEF new
    <3>4. View(new) = [View(cSrv) EXCEPT !.finalizer = TRUE]
      BY <3>3, ViewOfFinalizer
    <3>5. Lifecycle!Protect
      BY <2>1, <3>2, <3>4 DEF Lifecycle!Protect, View
    <3>6. QED BY <3>5 DEF Lifecycle!Next
  <2>3. QED BY <1>1, <2>1, <2>2, PutServerRefines
<1>4. CASE ReconcilePending
  <2>1. /\ cSrv # None /\ ~cSrv.deleting /\ cSrv.finalizer /\ cSrv.phase \in {"", "Pending"}
        /\ SetPhase("Deploying", cSrv.ready) \/ SetPhase("Failed", "False")
    BY <1>4 DEF ReconcilePending, Dispatch
  <2>2. {"Deploying", "Failed"} \subseteq Lifecycle!Edges(cSrv.phase, cSrv.gen # cSrv.obsGen)
    BY <2>1 DEF Lifecycle!Edges, Lifecycle!Outcome
  <2>3. QED BY <1>0, <2>1, <2>2, SetPhaseRefines DEF Phases
<1>5. CASE Promote \/ Fail
  <2>1. /\ cSrv # None /\ ~cSrv.deleting /\ cSrv.finalizer
        /\ cSrv.phase \in {"Deploying", "Updating"}
        /\ SetPhase("Running", "True") \/ SetPhase("Failed", cSrv.ready)
    BY <1>5 DEF Promote, Fail, IInv, InFlight, Deployable
  <2>2. {"Running", "Failed"} \subseteq Lifecycle!Edges(cSrv.phase, cSrv.gen # cSrv.obsGen)
    BY <2>1 DEF Lifecycle!Edges, Lifecycle!Outcome
  <2>3. QED BY <1>0, <2>1, <2>2, SetPhaseRefines DEF Phases
<1>6. CASE ReconcileRunning
  <2>1. /\ cSrv # None /\ ~cSrv.deleting /\ cSrv.finalizer /\ cSrv.phase = "Running"
    BY <1>6 DEF ReconcileRunning, Dispatch
  <2>2. CASE Drifted /\ SetPhase("Updating", cSrv.ready)
    <3>1. "Updating" \in Lifecycle!Edges(cSrv.phase, cSrv.gen # cSrv.obsGen)
      BY <2>1, <2>2 DEF Drifted, Lifecycle!Edges
    <3>2. QED BY <1>0, <2>1, <2>2, <3>1, SetPhaseRefines DEF Phases
  <2>3. CASE ~Drifted /\ SetPhase("Deploying", cSrv.ready)
    <3>1. "Deploying" \in Lifecycle!Edges(cSrv.phase, cSrv.gen # cSrv.obsGen)
      BY <2>1, <2>3 DEF Drifted, Lifecycle!Edges
    <3>2. QED BY <1>0, <2>1, <2>3, <3>1, SetPhaseRefines DEF Phases
  <2>4. ASSUME NEW r \in Readies, PutServer([cSrv EXCEPT !.ready = r], TRUE)
        PROVE  [Lifecycle!Next]_Seen
    <3> DEFINE new == [cSrv EXCEPT !.ready = r]
    <3>1. UNCHANGED srv \/ (srv = cSrv /\ srv' = new)
      BY <2>4, PutServerRefines
    <3>2. new \in Server /\ View(new) = View(cSrv)
      BY <1>0, <2>1, ViewOfSame DEF Server
    <3>3. CASE srv = cSrv /\ srv' = new
      <4>1. Seen = View(cSrv) /\ Seen' = View(new)
        BY <1>0, <2>1, <3>2, <3>3, ServersAreSeen DEF Seen, View
      <4>2. QED BY <3>2, <4>1
    <3>4. QED BY <1>1, <3>1, <3>3
  <2>5. QED BY <1>6, <2>2, <2>3, <2>4 DEF ReconcileRunning
<1>7. CASE ReconcileFailed
  <2>1. CASE UNCHANGED vars
    BY <1>1, <2>1 DEF vars
  <2>2. CASE Drifted /\ SetPhase("Pending", cSrv.ready)
    <3>1. /\ cSrv # None /\ ~cSrv.deleting /\ cSrv.finalizer /\ cSrv.phase = "Failed"
      BY <1>7 DEF ReconcileFailed, Dispatch
    <3>2. "Pending" \in Lifecycle!Edges(cSrv.phase, cSrv.gen # cSrv.obsGen)
      BY <2>2, <3>1 DEF Drifted, Lifecycle!Edges
    <3>3. QED BY <1>0, <2>2, <3>1, <3>2, SetPhaseRefines DEF Phases
  <2>3. QED BY <1>7, <2>1, <2>2 DEF ReconcileFailed
<1>8. CASE ResetPhase
  <2>1. /\ cSrv # None /\ ~cSrv.deleting /\ cSrv.finalizer /\ cSrv.phase = "Scaling"
        /\ SetPhase("Pending", cSrv.ready)
    BY <1>8 DEF ResetPhase, Dispatch, Phases
  <2>2. "Pending" \in Lifecycle!Edges(cSrv.phase, cSrv.gen # cSrv.obsGen)
    BY <2>1 DEF Lifecycle!Edges
  <2>3. QED BY <1>0, <2>1, <2>2, SetPhaseRefines DEF Phases
<1>9. CASE CheckRollout
  <2>1. UNCHANGED srv \/ PutServer(cSrv, TRUE)
    BY <1>9 DEF CheckRollout, serverVars
  <2>2. UNCHANGED srv
    BY <2>1, PutServerRefines
  <2>3. QED BY <1>1, <2>2
<1>10. CASE NotFound \/ ReconcileDeployment \/ ReconcileService \/ ReconcileHTTPRoute
  <2>1. UNCHANGED srv
    BY <1>10 DEF NotFound, ReconcileDeployment, ReconcileService, ReconcileHTTPRoute,
                 Reconcile, serverVars
  <2>2. QED BY <1>1, <2>1
<1>11. QED BY <1>2, <1>3, <1>4, <1>5, <1>6, <1>7, <1>8, <1>9, <1>10 DEF Operator

\* So is every action of the user, ...
LEMMA UserRefines ==
    ASSUME IInv, User
    PROVE  [Lifecycle!Next]_Seen
<1>0. srv # None => srv \in Server /\ Seen = View(srv) /\ Seen # None
  BY ServersAreSeen DEF IInv, TypeOK, Seen, View
<1>1. ASSUME NEW spec \in Specs, CreateServer(spec)
      PROVE  [Lifecycle!Next]_Seen
  <2> DEFINE new == [uid |-> uids + 1, gen |-> 1, spec |-> spec, deleting |-> FALSE,
                     finalizer |-> FALSE, phase |-> "", obsGen |-> 0, ready |-> "Unknown"]
  <2>1. srv = None /\ srv' = new
    BY <1>1 DEF CreateServer, ChangeServer
  <2>2. new # None
    <3>1. uids + 1 \in Nat
      BY DEF IInv, TypeOK
    <3>2. new \in [uid : Nat, gen : Nat, spec : Specs, deleting : BOOLEAN,
                   finalizer : BOOLEAN, phase : Phases, obsGen : Nat,
                   ready : {"Unknown", "True", "False"}]
      BY <3>1 DEF Phases
    <3> HIDE DEF new
    <3>3. QED BY <3>2, NoneAssumption
  <2>3. Seen = None
        /\ Seen' = [gen |-> 1, phase |-> "", obsGen |-> 0, deleting |-> FALSE, finalizer |-> FALSE]
    BY <2>1, <2>2 DEF Seen
  <2>4. QED BY <2>3 DEF Lifecycle!Next, Lifecycle!Create
<1>2. ASSUME NEW spec \in Specs, EditSpec(spec)
      PROVE  [Lifecycle!Next]_Seen
  <2> DEFINE new == [srv EXCEPT !.spec = spec, !.gen = @ + 1]
  <2>1. srv # None /\ srv' = new
    BY <1>2 DEF EditSpec, ChangeServer
  <2>2. /\ new.gen = srv.gen + 1 /\ new.phase = srv.phase /\ new.obsGen = srv.obsGen
        /\ new.deleting = srv.deleting /\ new.finalizer = srv.finalizer
    BY <1>0, <2>1 DEF Server
  <2>3. new \in Server
    <3>1. srv.gen + 1 \in Nat
      BY <1>0, <2>1 DEF Server
    <3>2. QED BY <1>0, <2>1, <3>1 DEF Server
  <2>4. Seen' = View(new)
    BY <2>1, <2>3, ServersAreSeen DEF Seen, View
  <2> HIDE DEF new
  <2>5. View(new) = [View(srv) EXCEPT !.gen = srv.gen + 1]
    BY <2>2, ViewOfEdit
  <2>6. Seen' = [Seen EXCEPT !.gen = Seen.gen + 1]
    BY <1>0, <2>1, <2>4, <2>5 DEF View
  <2>7. Lifecycle!Edit
    BY <1>0, <2>1, <2>6 DEF Lifecycle!Edit
  <2>8. QED BY <2>7 DEF Lifecycle!Next
<1>3. CASE DeleteServer
  <2>1. srv # None /\ ~srv.deleting
    BY <1>3 DEF DeleteServer
  <2>2. CASE srv.finalizer
    <3> DEFINE new == [srv EXCEPT !.deleting = TRUE]
    <3>1. srv' = new
      BY <1>3, <2>2 DEF DeleteServer, ChangeServer
    <3>2. /\ new.gen = srv.gen /\ new.phase = srv.phase /\ new.obsGen = srv.obsGen
          /\ new.deleting = TRUE /\ new.finalizer = srv.finalizer /\ new \in Server
      BY <1>0, <2>1 DEF Server
    <3>3. Seen' = View(new)
      BY <3>1, <3>2, ServersAreSeen DEF Seen, View
    <3> HIDE DEF new
    <3>4. Seen' = [Seen EXCEPT !.deleting = TRUE]
      BY <1>0, <2>1, <3>2, <3>3, ViewOfDelete
    <3>5. Lifecycle!Delete
      BY <1>0, <2>1, <2>2, <3>4 DEF Lifecycle!Delete, View
    <3>6. QED BY <3>5 DEF Lifecycle!Next
  <2>3. CASE ~srv.finalizer
    <3>1. Seen' = None
      BY <1>3, <2>3 DEF DeleteServer, ChangeServer, Seen
    <3>2. Lifecycle!Delete
      BY <1>0, <2>1, <2>3, <3>1 DEF Lifecycle!Delete, View
    <3>3. QED BY <3>2 DEF Lifecycle!Next
  <2>4. QED BY <2>2, <2>3
<1>4. CASE ChangeSecrets
  BY <1>4 DEF ChangeSecrets, serverVars, Seen
<1>5. QED BY <1>1, <1>2, <1>3, <1>4 DEF User

\* ... and of the writer who sets an unknown phase.
LEMMA ForeignPhaseRefines ==
    ASSUME IInv, ForeignPhase
    PROVE  [Lifecycle!Next]_Seen
<1> DEFINE new == [srv EXCEPT !.phase = "Scaling"]
<1>1. srv # None /\ srv' = new
  BY DEF ForeignPhase
<1>2. srv \in Server /\ Seen = View(srv) /\ Seen # None
  BY <1>1, ServersAreSeen DEF IInv, TypeOK, Seen, View
<1>3. /\ new.gen = srv.gen /\ new.phase = "Scaling" /\ new.obsGen = srv.obsGen
      /\ new.deleting = srv.deleting /\ new.finalizer = srv.finalizer /\ new \in Server
  BY <1>2 DEF Server, Phases
<1>4. Seen' = View(new)
  BY <1>1, <1>3, ServersAreSeen DEF Seen, View
<1> HIDE DEF new
<1>5. Seen' = [Seen EXCEPT !.phase = "Scaling"]
  BY <1>2, <1>3, <1>4, ViewOfPhase
<1>6. Lifecycle!ForeignMove
  BY <1>2, <1>5 DEF Lifecycle!ForeignMove
<1>7. QED BY <1>6 DEF Lifecycle!Next

\* The reconciler implements MCPServerLifecycle: seen through its status, an MCPServer
\* moves only along the state machine, each move decided for the generation it
\* acknowledges (the dispatch in Reconcile, setPhase).
THEOREM LifecycleImplemented == Spec => ImplementsLifecycle
<1>1. Init => Lifecycle!Init
  BY DEF Init, Lifecycle!Init, Seen
<1>2. IInv /\ [Next]_vars => [Lifecycle!Next]_Seen
  <2> SUFFICES ASSUME IInv, [Next]_vars PROVE [Lifecycle!Next]_Seen
    OBVIOUS
  <2>1. CASE UNCHANGED srv
    BY <2>1 DEF Seen
  <2>2. CASE SyncServer \/ (\E k \in Kinds : SyncChild(k)) \/ SyncSecrets
    <3>1. UNCHANGED srv
      BY <2>2 DEF SyncServer, SyncChild, SyncSecrets, serverVars
    <3>2. QED BY <2>1, <3>1
  <2>3. CASE Cluster
    <3>1. UNCHANGED srv
      BY <2>3 DEF Cluster, CollectGarbage, ObserveSpec, ProgressRollout, ChangeChild,
                  serverVars
    <3>2. QED BY <2>1, <3>1
  <2>4. CASE Faults
    <3>1. UNCHANGED srv \/ ForeignPhase
      BY <2>4 DEF Faults, PodsFail, DeleteChild, Restart, ChangeChild, serverVars
    <3>2. QED BY <2>1, <3>1, ForeignPhaseRefines
  <2>5. CASE UNCHANGED vars
    BY <2>1, <2>5 DEF vars
  <2>6. QED BY <2>2, <2>3, <2>4, <2>5, OperatorRefines, UserRefines DEF Next
<1>3. QED BY <1>1, <1>2, Invariance, PTL DEF Spec, ImplementsLifecycle, Lifecycle!Spec
=============================================================================
