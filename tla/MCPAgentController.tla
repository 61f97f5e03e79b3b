------------------------- MODULE MCPAgentController -------------------------
(***************************************************************************)
(* The MCPAgent reconciler (internal/controller/mcpagent_controller.go)    *)
(* and the Keycloak client it calls (internal/keycloak/client.go): for     *)
(* every MCPAgent an OIDC client in Keycloak and, in the agent's           *)
(* namespace, a Secret with that client's credentials.                     *)
(*                                                                         *)
(* One worker serves all agents.  Keycloak is changed by nobody else, so   *)
(* the calls that only read it (the token, the lookup of the client's      *)
(* UUID, the client secret) are taken together with the call that changes  *)
(* it; the Kubernetes calls are steps of their own.  As in                 *)
(* MCPServerController, `cAgent` is the informer's copy of an agent and    *)
(* the copy a reconcile holds.                                             *)
(***************************************************************************)
EXTENDS Naturals

CONSTANTS
    Agents,           \* namespaced names
    ClientIds,        \* OIDC client IDs; Keycloak has one realm for all namespaces
    Unset,            \* spec.identity.oidcClientId left out
    Default,          \* Default[a]: "agent-" and a's name, without its namespace
    Choices,          \* Choices[a]: what a's user may write as oidcClientId
    None,             \* no agent
    MaxIncarnations,  \* bound: how often the name a is created
    MaxFaults,        \* bound: failing Kubernetes calls, restarts, lost Secrets, edits
    MaxOutages        \* bound: failing and unanswered Keycloak calls, changes of KEYCLOAK_URL

ASSUME IdsAssumption ==
    /\ Default \in [Agents -> ClientIds]
    /\ Choices \in [Agents -> SUBSET (ClientIds \cup {Unset})]
ASSUME AgentBoundsAssumption ==
    MaxIncarnations \in [Agents -> Nat] /\ MaxFaults \in Nat /\ MaxOutages \in Nat

VARIABLES
    agent,       \* agent[a]: the MCPAgent in the API server; uid 0 if there is none
    uids,        \* uids[a]: how many MCPAgents of this name were created
    cAgent,      \* cAgent[a]: the informer's copy, and the copy a reconcile holds
    fresh,       \* fresh[a]: cAgent[a] carries the resourceVersion of agent[a]
    secret,      \* secret[a]: the Secret "<name>-credentials"; owner 0 if there is none
    cSecret,     \* cSecret[a]: the informer's copy of secret[a]
    seen,        \* seen[a]: the informer has delivered every event of secret[a]
    kc,          \* kc[id]: the client secret of the OIDC client id, 0 if there is no client
    issued,      \* client secrets issued by Keycloak so far
    configured,  \* KEYCLOAK_URL is set
    work,        \* where the worker is, for which agent, with which client secret in hand
    queued,      \* agents in the work queue, or waiting there for a delay
    faults, outages

agentVars    == <<agent, uids, fresh>>
cacheVars    == <<cAgent, cSecret>>
secretVars   == <<secret, seen>>
keycloakVars == <<kc, issued, configured>>
boundVars    == <<faults, outages>>
vars == <<agent, uids, cAgent, fresh, secret, cSecret, seen, kc, issued, configured,
          work, queued, faults, outages>>

Phases  == {"", "Pending", "Registering", "Active", "Suspended", "Failed"}
Steps   == {"idle", "store", "activate", "failed", "release", "hung"}
NoAgent == [uid |-> 0, clientId |-> Unset, deleting |-> FALSE, finalizer |-> FALSE,
            phase |-> ""]
NoSecret == [owner |-> 0, id |-> Unset, key |-> 0]
Idle     == [at |-> "idle", agent |-> None, key |-> 0]
Exists(x) == x.uid # 0

\* Use the spec's client ID, or "agent-<name>".
ClientId(a, x) == IF x.clientId = Unset THEN Default[a] ELSE x.clientId

Agent  == [uid : Nat, clientId : ClientIds \cup {Unset}, deleting : BOOLEAN,
           finalizer : BOOLEAN, phase : Phases]
Secret == [owner : Nat, id : ClientIds \cup {Unset}, key : Nat]

TypeOK ==
    /\ agent \in [Agents -> Agent] /\ cAgent \in [Agents -> Agent]
    /\ uids \in [Agents -> Nat] /\ fresh \in [Agents -> BOOLEAN]
    /\ secret \in [Agents -> Secret] /\ cSecret \in [Agents -> Secret]
    /\ seen \in [Agents -> BOOLEAN]
    /\ kc \in [ClientIds -> Nat] /\ issued \in Nat /\ configured \in BOOLEAN
    /\ work \in [at : Steps, agent : Agents \cup {None}, key : Nat]
    /\ work.at # "idle" => work.agent \in Agents
    /\ queued \subseteq Agents
    /\ faults \in Nat /\ outages \in Nat

Init ==
    /\ agent = [a \in Agents |-> NoAgent] /\ cAgent = agent
    /\ uids = [a \in Agents |-> 0] /\ fresh = [a \in Agents |-> TRUE]
    /\ secret = [a \in Agents |-> NoSecret] /\ cSecret = secret
    /\ seen = [a \in Agents |-> TRUE]
    /\ kc = [id \in ClientIds |-> 0] /\ issued = 0 /\ configured \in BOOLEAN
    /\ work = Idle /\ queued = {} /\ faults = 0 /\ outages = 0

-----------------------------------------------------------------------------
(***************************************************************************)
(* Reconcile                                                               *)
(***************************************************************************)
Fault  == faults < MaxFaults /\ faults' = faults + 1 /\ UNCHANGED outages
Outage == outages < MaxOutages /\ outages' = outages + 1 /\ UNCHANGED faults

\* Mutant: a failed call ends the reconcile without requeueing it.
PutNoRetry(a, new, again) ==
    /\ work' = Idle
    /\ \/ fresh[a] /\ agent' = [agent EXCEPT ![a] = new] /\ UNCHANGED boundVars
          /\ fresh' = [fresh EXCEPT ![a] = (new = agent[a])]
          /\ queued' = IF again THEN queued \cup {a} ELSE queued
       \/ ~fresh[a] /\ queued' = queued \ {a} /\ UNCHANGED <<agent, fresh, boundVars>>
       \/ Fault /\ queued' = queued \ {a} /\ UNCHANGED <<agent, fresh>>
    /\ UNCHANGED <<uids, secretVars, cacheVars, keycloakVars>>

\* Mutant: a write without a resourceVersion, refused only if the object is gone.
PutUnchecked(a, new, again) ==
    /\ work' = Idle /\ queued' = queued \cup {a}
    /\ agent' = [agent EXCEPT ![a] = IF Exists(@) THEN new ELSE @]
    /\ fresh' = [fresh EXCEPT ![a] = FALSE]
    /\ UNCHANGED <<uids, secretVars, cacheVars, keycloakVars, boundVars>>

\* Update or Status().Update of the held copy of a, with which the reconcile ends:
\* refused if the copy is out of date.  Every error is requeued; after a success
\* `again` says whether the key is.  Active is written with a new RegisteredAt, in
\* whole seconds, so writing the same phase may leave the resourceVersion alone.
Put(a, new, again) ==
    /\ work' = Idle
    /\ \/ /\ fresh[a]
          /\ agent' = [agent EXCEPT ![a] = new]
          /\ \E f \in (IF new = agent[a] THEN BOOLEAN ELSE {FALSE}) :
                fresh' = [fresh EXCEPT ![a] = f]
          /\ \/ queued' = (IF again THEN queued \cup {a} ELSE queued) /\ UNCHANGED boundVars
             \/ queued' = queued \cup {a} /\ Fault
       \/ /\ \/ ~fresh[a] /\ UNCHANGED boundVars
             \/ Fault
          /\ queued' = queued \cup {a}
          /\ UNCHANGED <<agent, fresh>>
    /\ UNCHANGED <<uids, secretVars, cacheVars, keycloakVars>>

SetPhase(a, phase, again) == Put(a, [cAgent[a] EXCEPT !.phase = phase], again)

Begin(a) == work.at = "idle" /\ a \in queued

\* The worker goes on with agent a; its key counts as taken off the queue.
Continue(a, at, key) ==
    /\ work' = [at |-> at, agent |-> a, key |-> key]
    /\ queued' = queued \ {a}

NotFound(a) ==
    /\ Begin(a) /\ ~Exists(cAgent[a])
    /\ queued' = queued \ {a}
    /\ UNCHANGED <<agentVars, secretVars, cacheVars, keycloakVars, work, boundVars>>

AddFinalizer(a) ==
    /\ Begin(a) /\ Exists(cAgent[a]) /\ ~cAgent[a].deleting /\ ~cAgent[a].finalizer
    /\ Put(a, [cAgent[a] EXCEPT !.finalizer = TRUE], TRUE)

Protected(a) ==
    Begin(a) /\ Exists(cAgent[a]) /\ ~cAgent[a].deleting /\ cAgent[a].finalizer

StartRegistering(a) ==
    /\ Protected(a) /\ cAgent[a].phase \in {"", "Pending"}
    /\ SetPhase(a, "Registering", TRUE)

\* Without Keycloak the agent waits; otherwise the registration goes ahead whatever
\* the phase is.
Registers(a) == Protected(a) /\ cAgent[a].phase \notin {"", "Pending"} /\ configured

\* A Keycloak call that does not succeed fails, or it is never answered: the HTTP client has
\* no time limit and the context of a reconcile no deadline, so the worker then hangs.
Unsuccessful == {"failed", "hung"}

\* GetAdminToken.
TokenRefused(a) ==
    /\ Registers(a) /\ Outage
    /\ \E at \in Unsuccessful : Continue(a, at, 0)
    /\ UNCHANGED <<agentVars, secretVars, cacheVars, keycloakVars>>

\* Mutant: an agent that has a credentials Secret needs nothing more.
SecretSuffices(a) ==
    /\ Registers(a) /\ cSecret[a].owner # 0
    /\ queued' = queued \ {a}
    /\ UNCHANGED <<agentVars, secretVars, cacheVars, keycloakVars, work, boundVars>>

\* The cache has a credentials Secret: whatever is in it, the agent is registered.
SecretFound(a) ==
    /\ Registers(a) /\ cSecret[a].owner # 0
    /\ Continue(a, "activate", 0)
    /\ UNCHANGED <<agentVars, secretVars, cacheVars, keycloakVars, boundVars>>

\* Mutant: 409 is answered by issuing a new client secret.
EnsuredAnew(id) == issued + 1

\* The client secret CreateClient ends up with: that of the client just made (201), or
\* of the one that was there (409).
Ensured(id) == IF kc[id] = 0 THEN issued + 1 ELSE kc[id]

\* A call that fails without effect ends as TokenRefused does.
CreateClient(a) ==
    LET id == ClientId(a, cAgent[a]) IN
    /\ Registers(a) /\ cSecret[a].owner = 0
    /\ kc' = [kc EXCEPT ![id] = Ensured(id)]
    /\ issued' = IF kc'[id] > issued THEN kc'[id] ELSE issued
    /\ \/ Continue(a, "store", kc'[id]) /\ UNCHANGED boundVars
       \/ (\E at \in Unsuccessful : Continue(a, at, 0)) /\ Outage
    /\ UNCHANGED <<agentVars, secretVars, cacheVars, configured>>

\* Mutant: the failed registration is undone, the client of an earlier one included.
MarkFailedUndone ==
    LET a == work.agent IN
    /\ work.at = "failed"
    /\ kc' = [kc EXCEPT ![ClientId(a, cAgent[a])] = 0]
    /\ work' = Idle /\ queued' = queued \cup {a}
    /\ UNCHANGED <<agentVars, secretVars, cacheVars, issued, configured, boundVars>>

MarkFailed ==
    /\ work.at = "failed"
    /\ SetPhase(work.agent, "Failed", TRUE)

\* Create of the Secret, owned by the MCPAgent; one that is there already is kept.
StoreSecret ==
    LET a      == work.agent
        built  == [owner |-> cAgent[a].uid, id |-> ClientId(a, cAgent[a]), key |-> work.key]
        stored == [secret EXCEPT ![a] = IF @.owner = 0 THEN built ELSE @]
    IN
    /\ work.at = "store"
    /\ \/ secret' = stored /\ Continue(a, "activate", 0) /\ UNCHANGED boundVars
       \/ secret' \in {secret, stored} /\ work' = Idle /\ queued' = queued \cup {a} /\ Fault
    /\ seen' = [seen EXCEPT ![a] = @ /\ secret' = secret]
    /\ UNCHANGED <<agentVars, cacheVars, keycloakVars>>

\* Nothing is requeued: the event of this very write starts the next reconcile.
Activate ==
    /\ work.at = "activate"
    /\ SetPhase(work.agent, "Active", FALSE)

\* Mutant: only an Active agent is believed to have a client.
DeleteClientIfActive(a) ==
    /\ Begin(a) /\ Exists(cAgent[a]) /\ cAgent[a].deleting
    /\ Continue(a, "release", 0)
    /\ kc' = IF configured /\ cAgent[a].phase = "Active"
             THEN [kc EXCEPT ![ClientId(a, cAgent[a])] = 0] ELSE kc
    /\ UNCHANGED <<agentVars, secretVars, cacheVars, issued, configured, boundVars>>

\* Mutant: the deletion waits for Keycloak.
DeleteClientStrict(a) ==
    /\ Begin(a) /\ Exists(cAgent[a]) /\ cAgent[a].deleting /\ configured
    /\ Continue(a, "release", 0)
    /\ kc' = [kc EXCEPT ![ClientId(a, cAgent[a])] = 0]
    /\ UNCHANGED <<agentVars, secretVars, cacheVars, issued, configured, boundVars>>

\* reconcileAgentDelete: DeleteClient is tried once; the finalizer goes in any case, unless
\* the answer never comes.
DeleteClient(a) ==
    LET without == [kc EXCEPT ![ClientId(a, cAgent[a])] = 0] IN
    /\ Begin(a) /\ Exists(cAgent[a]) /\ cAgent[a].deleting
    /\ \/ configured /\ kc' = without /\ Continue(a, "release", 0) /\ UNCHANGED boundVars
       \/ ~configured /\ Continue(a, "release", 0) /\ UNCHANGED <<kc, boundVars>>
       \/ configured /\ kc' \in {kc, without} /\ Outage
          /\ \E at \in {"release", "hung"} : Continue(a, at, 0)
    /\ UNCHANGED <<agentVars, secretVars, cacheVars, issued, configured>>

Release == work.at = "release" /\ Put(work.agent, NoAgent, FALSE)

Serve(a) ==
    \/ NotFound(a) \/ AddFinalizer(a) \/ StartRegistering(a)
    \/ TokenRefused(a) \/ SecretFound(a) \/ CreateClient(a)
    \/ DeleteClient(a)
Finish == MarkFailed \/ StoreSecret \/ Activate \/ Release

Operator == (\E a \in Agents : Serve(a)) \/ Finish

-----------------------------------------------------------------------------
(***************************************************************************)
(* Informers: MCPAgents, and Secrets owned by one.                         *)
(***************************************************************************)
SyncAgent(a) ==
    /\ work.agent # a /\ ~fresh[a]
    /\ cAgent' = [cAgent EXCEPT ![a] = agent[a]]
    /\ fresh' = [fresh EXCEPT ![a] = TRUE]
    /\ queued' = queued \cup {a}
    /\ UNCHANGED <<agent, uids, secretVars, cSecret, keycloakVars, work, boundVars>>

SyncSecret(a) ==
    /\ ~seen[a] /\ seen' = [seen EXCEPT ![a] = TRUE]
    /\ cSecret' = [cSecret EXCEPT ![a] = secret[a]]
    /\ queued' = queued \cup {a}
    /\ UNCHANGED <<agentVars, secret, cAgent, keycloakVars, work, boundVars>>

(***************************************************************************)
(* User, garbage collector, faults                                         *)
(***************************************************************************)
ChangeAgent(a, new) ==
    /\ agent' = [agent EXCEPT ![a] = new]
    /\ fresh' = [fresh EXCEPT ![a] = FALSE]
    /\ UNCHANGED <<secretVars, cacheVars, keycloakVars, work, queued>>

CreateAgent(a, choice) ==
    /\ ~Exists(agent[a]) /\ uids[a] < MaxIncarnations[a]
    /\ uids' = [uids EXCEPT ![a] = @ + 1]
    /\ ChangeAgent(a, [NoAgent EXCEPT !.uid = uids[a] + 1, !.clientId = choice])
    /\ UNCHANGED boundVars

\* Edits are bounded together with the faults: a user who never stops is not served.
EditAgent(a, choice) ==
    /\ Fault /\ Exists(agent[a]) /\ agent[a].clientId # choice
    /\ ChangeAgent(a, [agent[a] EXCEPT !.clientId = choice])
    /\ UNCHANGED uids

DeleteAgent(a) ==
    /\ Exists(agent[a]) /\ ~agent[a].deleting
    /\ ChangeAgent(a, IF agent[a].finalizer THEN [agent[a] EXCEPT !.deleting = TRUE]
                      ELSE NoAgent)
    /\ UNCHANGED <<uids, boundVars>>

User == \E a \in Agents : \/ \E c \in Choices[a] : CreateAgent(a, c) \/ EditAgent(a, c)
                          \/ DeleteAgent(a)

RemoveSecret(a) ==
    /\ secret[a].owner # 0
    /\ secret' = [secret EXCEPT ![a] = NoSecret] /\ seen' = [seen EXCEPT ![a] = FALSE]
    /\ UNCHANGED <<agentVars, cacheVars, keycloakVars, work, queued>>

\* The Secret goes with the MCPAgent that owns it.
CollectSecret(a) ==
    secret[a].owner # agent[a].uid /\ RemoveSecret(a) /\ UNCHANGED boundVars

LoseSecret(a) == RemoveSecret(a) /\ Fault

\* Someone else sets a phase the reconciler never looks at.
Suspend(a) ==
    /\ Fault /\ Exists(agent[a]) /\ agent[a].phase # "Suspended"
    /\ ChangeAgent(a, [agent[a] EXCEPT !.phase = "Suspended"])
    /\ UNCHANGED uids

\* The operator stops and starts, possibly with another KEYCLOAK_URL setting.
Restart ==
    /\ \/ Fault /\ UNCHANGED configured
       \/ Outage /\ configured' = ~configured
    /\ work' = Idle /\ queued' = Agents
    /\ cAgent' = agent /\ fresh' = [a \in Agents |-> TRUE] /\ cSecret' = secret
    /\ seen' = [a \in Agents |-> TRUE]
    /\ UNCHANGED <<agent, uids, secret, kc, issued>>

Faults == (\E a \in Agents : LoseSecret(a) \/ Suspend(a)) \/ Restart

-----------------------------------------------------------------------------
Next ==
    \/ Operator
    \/ \E a \in Agents : SyncAgent(a) \/ SyncSecret(a) \/ CollectSecret(a)
    \/ User \/ Faults

Spec == Init /\ [][Next]_vars

\* The work queue is first in, first out: no agent waits for ever while others are
\* served.  The worker takes what is queued and makes its calls; that a Keycloak call ends is
\* not part of it (a hanging one is left by a restart only).  The rest is as in
\* MCPServerController.
Fairness ==
    /\ WF_vars(Finish)
    /\ \A a \in Agents : /\ SF_vars(Serve(a)) /\ SF_vars(SyncAgent(a))
                         /\ WF_vars(SyncSecret(a)) /\ WF_vars(CollectSecret(a))

FairSpec == Spec /\ Fairness
-----------------------------------------------------------------------------
(***************************************************************************)
(* Safety                                                                  *)
(***************************************************************************)
\* The credentials Secret that a live agent owns opens the client it names: no retry after a
\* crash or a lost answer, no stale cache and no deletion of another agent makes
\* them dead (CreateClient's 409 path, Create of the Secret, reconcileAgentDelete).
\* docs/security.md:31: "The operator creates an OIDC client in Keycloak for each MCPAgent CR."
\* Excluded is the Secret that an earlier agent of the name has left: the code keeps it, the
\* new agent goes Active with it, and its client is gone, until the garbage collector has
\* taken it; Attended and Converges say that this is not the end.
OwnCredentialsWork(a) ==
    Exists(agent[a]) /\ ~agent[a].deleting /\ secret[a].owner = agent[a].uid =>
        kc[secret[a].id] = secret[a].key
OwnCredentialsLive == \A a \in Agents : OwnCredentialsWork(a)

\* As long as Keycloak answers and client IDs are not edited, every client in Keycloak
\* belongs to an agent that exists and whose finalizer will remove it.
AccountedFor(id) == kc[id] # 0 =>
    \E a \in Agents : /\ Exists(agent[a]) /\ agent[a].finalizer
                      /\ ClientId(a, agent[a]) = id
ClientsAccountedFor == \A id \in ClientIds : AccountedFor(id)

\* No wake-up is lost: an agent that no reconcile serves and that no event or requeue is
\* going to bring back is Active, is not being deleted and has a credentials Secret.  A successful
\* registration requeues nothing (mcpagent_controller.go:207), so every way to come
\* there, and every later loss of the Secret, has to leave one of these behind.
Unattended(a) ==
    /\ a \notin queued /\ ~(work.at # "idle" /\ work.agent = a)
    /\ fresh[a] /\ seen[a]
Attended ==
    \A a \in Agents : Exists(agent[a]) /\ Unattended(a) =>
        agent[a].phase = "Active" /\ ~agent[a].deleting /\ secret[a].owner # 0

\* The inductive invariant behind the two.  Copies marked current are the objects, and
\* uids count the incarnations;
CachesAgree == \A a \in Agents : /\ fresh[a] => cAgent[a] = agent[a]
                                 /\ seen[a] => cSecret[a] = secret[a]
UidsCount ==
    \A a \in Agents : /\ Exists(agent[a]) => agent[a].uid = uids[a]
                      /\ cAgent[a].uid <= uids[a] /\ secret[a].owner <= uids[a]

\* an agent seen protected and not deleted is still there, one seen deleted is not
\* alive again, and one that owns a Secret has been seen;
HeldSurvives ==
    \A a \in Agents :
        LET held == cAgent[a] IN
        /\ Exists(held) /\ held.finalizer /\ ~held.deleting =>
              agent[a].uid = held.uid /\ agent[a].finalizer
        /\ Exists(held) /\ held.deleting /\ agent[a].uid = held.uid => agent[a].deleting
        /\ Exists(agent[a]) /\ secret[a].owner = agent[a].uid => held.uid = agent[a].uid

\* the worker registers only protected agents and releases only deleted ones;
WorkIsDue ==
    LET held == cAgent[work.agent] IN
    /\ work.at \in {"store", "activate", "failed"} =>
          Exists(held) /\ held.finalizer /\ ~held.deleting
    /\ work.at = "release" => Exists(held) /\ held.deleting
    /\ work.at = "idle" => work = Idle

Base == TypeOK /\ CachesAgree /\ UidsCount /\ HeldSurvives /\ WorkIsDue

\* the client secret in the worker's hand is the client's, and stored ones are of the
\* agent's own client IDs;
IdsOf(a) == {Default[a]} \cup (Choices[a] \ {Unset})
KeysKnown ==
    /\ \A a \in Agents :
          /\ {agent[a].clientId, cAgent[a].clientId} \subseteq Choices[a] \cup {Unset}
          /\ secret[a].owner # 0 => secret[a].key # 0 /\ secret[a].id \in IdsOf(a)
    /\ work.at = "store" =>
          work.key # 0 /\ kc[ClientId(work.agent, cAgent[work.agent])] = work.key

\* and without outages a client is removed before its agent is released.
ClientsRemoved ==
    /\ outages = 0
    /\ ~configured => \A id \in ClientIds : kc[id] = 0
    /\ work.at = "release" => kc[ClientId(work.agent, cAgent[work.agent])] = 0

IInv == Base /\ KeysKnown /\ OwnCredentialsLive /\ ClientsRemoved /\ ClientsAccountedFor

(***************************************************************************)
(* What someone sees who watches the agents and their Secrets only.        *)
(***************************************************************************)
Seen(a) ==
    IF Exists(agent[a])
    THEN [phase |-> agent[a].phase, deleting |-> agent[a].deleting,
          finalizer |-> agent[a].finalizer]
    ELSE [phase |-> "absent", deleting |-> FALSE, finalizer |-> FALSE]
Credentials(a) == IF secret[a].owner = 0 THEN "none"
                  ELSE IF secret[a].owner = agent[a].uid THEN "own" ELSE "old"

Reg    == [a \in Agents |-> Seen(a)]
Stored == [a \in Agents |-> Credentials(a)]
Registration == INSTANCE AgentRegistration WITH reg <- Reg, creds <- Stored

\* Although every decision is taken on a copy that may be out of date: the reconciler writes
\* no phase to an agent that is being deleted, was replaced or is not protected yet,
\* Registering comes before Active and Failed, and credentials are made only for an agent
\* that is still there and never overwritten (mcpagent_controller.go:58-243).
ImplementsRegistration == Registration!Spec

(***************************************************************************)
(* Liveness                                                                *)
(***************************************************************************)
\* No Keycloak call goes unanswered for ever: the worker is not left hanging.
Answered == []<>(work.at # "hung")

\* If so, every agent that stays is registered in the end, with a Secret of its own that opens its
\* client, through Keycloak outages, hanging calls that a restart ends, lost answers, restarts and a
\* Secret left by an agent of the same name.
Registered(a) ==
    /\ agent[a].phase = "Active"
    /\ secret[a].owner = agent[a].uid
    /\ kc[secret[a].id] = secret[a].key /\ secret[a].key # 0
Converges ==
    Answered => <>[](\A a \in Agents : Exists(agent[a]) => ~configured \/ Registered(a))

\* A registration lasts: only a deletion, a fault (a lost Secret, a foreign phase, an edit, a
\* restart) or a failure to reach Keycloak for this agent ends it.  The worker registers an
\* Active agent again and again, from copies that may be old, and removes the clients of other
\* agents and of earlier ones of the name meanwhile (mcpagent_controller.go:58-243).
Spared(a) == /\ ~agent[a].deleting /\ UNCHANGED <<faults, outages>>
             /\ ~(work.at = "failed" /\ work.agent = a)
RegistrationLasts ==
    [][\A a \in Agents : Registered(a) /\ Spared(a) => Registered(a)']_vars

\* Deleting an agent succeeds, with Keycloak, without it or with one that fails
\* (reconcileAgentDelete is best-effort); not with one that accepts a call and never answers.
DeletionCompletes ==
    Answered => \A a \in Agents : agent[a].deleting ~> ~Exists(agent[a])
=============================================================================
