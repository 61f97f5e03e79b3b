# Verification of mcp-nexus

TLA+ models of the MCP gateway's control plane, model-checked with TLC and proved
with TLAPS. The reference is the Go code under `src/`.

## The system

The operator (`cmd/operator`) runs three reconcilers against the Kubernetes API
server. A REST server (`cmd/apiserver`) creates and deletes MCPServers, the
marketplace package deploys catalog entries.

| Component | State it keeps | Operations | Interacts with |
|---|---|---|---|
| MCPServer controller (`internal/controller/mcpserver_controller.go`) | none of its own: status subresource, Deployment, Service, HTTPRoute | `Reconcile`: finalizer, phase handlers, deletion | API server through informer caches and resourceVersions, work queue |
| Envoy route builder (`internal/envoy`) | none | `BuildHTTPRoute` | called by the MCPServer controller |
| MCPAgent controller (`internal/controller/mcpagent_controller.go`) | status, credentials Secret | registration, deletion | API server, Keycloak |
| Keycloak client (`internal/keycloak`) | none; OIDC clients live in Keycloak | token, create, secret, lookup, delete | HTTP calls |
| MCPPolicy controller, Cerbos translation (`internal/cerbos`) | status | translate, status | API server (nothing is sent to Cerbos) |
| Marketplace (`internal/marketplace`) | catalog map under an RWMutex | `Add/Get/List/Search/Delete/Count`, `DeployFromCatalog` | creates Secret, MCPServer, MCPPolicy one after the other |
| REST API (`cmd/apiserver`) | none; the process itself | list, get, create, delete, health, OPTIONS; start, graceful shutdown | API server, uncached |
| Capability discovery (`internal/discovery`) | a request counter shared by its callers | `Discover`: three JSON-RPC calls in turn | MCP servers over HTTP; no package calls it yet |
| Audit logger (`internal/audit`) | its sinks | `Log`: a line on stdout, one goroutine for each sink | sinks; no package calls it yet |
| Observability, API types, Helm charts, UI, scripts | - | - | not modelled: set-up code, generated code, presentation |

What is hard here, and what a unit test with a fake client does not reach:

* every reconciler reads from an informer cache that may be behind, and writes
  to an API server that refuses a write based on an old resourceVersion;
* a reconcile is several calls; the user, the garbage collector, the Deployment
  controller and another incarnation of the same name act between any two;
* a call may fail, or take effect although its answer is lost; the process may
  stop anywhere and has only the stored phase to continue from;
* the requeue discipline decides whether the system comes to rest, and where;
* handlers and goroutines share a client, a counter or a sink, answers come late or
  not at all, and a process that is told to stop has some of them under way.

What makes a component correct:

* **MCPServer**: Running acknowledges only what was deployed; phases follow the state
  machine; nothing outlives a deleted server or comes back after it; no wake-up is lost; the
  controller comes to rest and stays there.
* **MCPAgent**: the Secret an agent has made opens a client; deletion
  removes that client and no other's; a crash half-way is made good; no wake-up is lost; a
  registration lasts although the worker makes it again and again.
* **MCPPolicy**: the status acknowledges the rules in force and settles, no wake-up is lost; the
  translated rules have all that the written ones say.
* **Marketplace**: success means that everything was made, what a server refers to stays
  there, and a deployment does not disturb a server that is already there.
* **REST API**: what a client is told is what was true, and what was done, at one moment between
  its request and the answer; a shutdown comes to an end, whatever the handlers are in.
* **Discovery**: the capabilities returned were given by the server during this call;
  every call returns.
* **Audit**: what a sink has was logged, once; what is missing was reported; logging
  does not wait for sinks.

## Modules

| Module | What it is |
|---|---|
| `MCPServerController` | the reconciler, everything around it, and its properties |
| `MCPServerLifecycle` | what a watcher of the custom resource may rely on: the phase machine, with no cache, worker or child object |
| `MCMCPServerController` | the specs TLC uses |
| `MCPServerController_proofs` | its theorems |
| `MCPAgentController` | the agents' reconciler with the Keycloak client, for several agents, and its properties |
| `AgentRegistration` | what a watcher of the agents and their Secrets may rely on, with no cache, worker or Keycloak |
| `MCMCPAgentController` | the agents and client IDs TLC uses |
| `MCPAgentController_proofs` | its theorems |
| `CerbosTranslation` | the translation of rules as operators, and how Cerbos reads the result |
| `MCPPolicyController` | the policies' reconciler (extends the translation), and its properties |
| `MCMCPPolicyController` | the lists of rules and the requests TLC uses |
| `MCPPolicyController_proofs` | its theorems, those about the translation included |
| `Marketplace` | concurrent deployments from the catalog (extends the translation), and their properties |
| `MCMarketplace` | the versions of an entry TLC uses |
| `Marketplace_proofs` | its theorems |
| `ApiServer` | the REST API's handlers and its process, and their properties |
| `ResourceRegistry` | what a client of the REST API may rely on: requests that take effect at one moment |
| `MCApiServer`, `ApiServer_proofs` | TLC's entry point; the theorems, the refinement included |
| `Discovery` | concurrent discoveries through one client, and their properties |
| `MCDiscovery`, `Discovery_proofs` | TLC's entry point; the theorems |
| `AuditLogger` | concurrent calls of `Log`, their goroutines and the sinks, and their properties |
| `MCAuditLogger`, `AuditLogger_proofs` | TLC's entry point; the theorems |

### MCPServerController: state and actions

One namespaced name is modelled. `srv` is the stored MCPServer (uid, generation,
spec, deletion mark, finalizer, phase, observedGeneration, Ready condition) and
`obj[k]` the stored Deployment, Service and HTTPRoute. `cSrv` and `cache[k]` are the
informers' copies; `srvFresh` and `fresh[k]` say whether a copy has the current
resourceVersion, which is all that optimistic locking tells apart. `pc` is the
worker's place inside a reconcile: the controller has one worker, so one reconcile
at a time. `queued` says that the key is in the work queue or waiting there for a
delay; delays have no length.

| Code | Action |
|---|---|
| `Reconcile`: Get, NotFound | `NotFound` |
| finalizer, deletion | `AddFinalizer`, `ReconcileDelete` |
| `reconcilePending` | `ReconcilePending` (both outcomes) |
| `reconcileDeploying`, `reconcileUpdating` | `ReconcileDeployment`, `ReconcileService`, `CheckRollout`, `ReconcileHTTPRoute`, `Promote`, `Fail`: one action up to and including each API call |
| `reconcileRunning`, `reconcileFailed`, the default of the switch | `ReconcileRunning`, `ReconcileFailed`, `ResetPhase` |
| `reconcileDeployment/Service/HTTPRoute` | `Reconcile(k, next)`: skip, create, update, refuse, fail, or take effect and fail |
| `setPhase`, `statusUpdate`, `Update` | `SetPhase`, `PutServer` |
| `Update` with the finalizer removed | `PutServer(None, FALSE)`: the API server then drops the object |

Around it: `SyncServer`, `SyncChild`, `SyncSecrets` (informers), `CreateServer`,
`EditSpec`, `DeleteServer`, `ChangeSecrets` (user and REST API), `CollectGarbage`,
`ObserveSpec`, `ProgressRollout` (Kubernetes), and as faults `PodsFail`,
`DeleteChild`, `ForeignPhase`, `Restart` and the failing calls.

Abstractions, and why nothing is lost by them:

* *The held copy is `cSrv`.* A reconcile reads the MCPServer once; instead of a
  second copy, the informer does not deliver MCPServer events while a reconcile is
  under way. Within a reconcile only the held copy matters, and the write at its end
  is refused exactly if the held copy is no longer current.
* *Informers jump to the latest version.* Versions in between would be seen and
  enqueued one after the other; a reconcile started on one of them behaves as one
  started before the last change.
* *Diverged.* The API server fills in defaults, so the stored Deployment and
  HTTPRoute specs never equal the built ones and every pass writes them. A
  write that changes nothing keeps the resourceVersion, and still conflicts when
  the cached copy is stale. Of the Service only ports and selector are compared.
* *Deployment status* is one of `Empty`, `Starting`, `Old`, `Complete`, with the
  spec it is about: the replica counts enter the code only through `ready > 0`,
  `ready = replicas`, `ready < replicas` and `updated = replicas`.
* *The resourceVersion may move through fields left out* (replica counts,
  messages, conditions): a status write that changes no modelled field may or may not
  leave the cached copy stale.
* An empty image is refused by the CRD (`MinLength=1`), so the first check of
  `reconcilePending` never fires. Errors of cached reads other than NotFound
  end a reconcile without effect and are requeued: a stutter.

### MCPServerLifecycle

One variable, `life`: generation, phase, observedGeneration, deletion mark, finalizer. Phases
move along `Edges`; a move needs the finalizer and no deletion, and acknowledges
the current generation; Running moves to Updating and Failed to Pending
only after an edit. `ImplementsLifecycle` maps `srv` to `life` (`Seen`); everything
else of the reconciler is a stutter there. That this holds although the
decisions are taken on stale copies is the work of the resourceVersion on the status
write.

### MCPAgentController

One worker serves all `Agents`. `agent[a]`, `secret[a]` are the stored MCPAgent and credentials
Secret, `cAgent`, `cSecret` the informers' copies with `fresh` and `seen` as above (a Secret
that is created and deleted in between leaves no trace in the copy but still an event,
hence `seen` is not mere equality). `kc[id]` is the client
secret of the Keycloak client `id`, 0 if there is no such client; one realm serves
all namespaces. An object that does not exist has uid or owner 0. `work` is the worker's
place, the agent it serves and the client secret it carries.

| Code | Action |
|---|---|
| `Reconcile` up to the guard on `KeycloakClient` | `NotFound`, `AddFinalizer`, `StartRegistering`; without Keycloak the key waits |
| `GetAdminToken` | `TokenRefused` when it fails or is never answered (`Unsuccessful`) |
| Get of the Secret; `CreateClient`, `findClientUUID`, `GetClientSecret` | `SecretFound`; `CreateClient` |
| `Status().Update` to Failed, its result ignored | `MarkFailed` |
| `Create` of the Secret | `StoreSecret` |
| `Status().Update` to Active | `Activate` |
| `reconcileAgentDelete` | `DeleteClient`, `Release` |

Keycloak is changed by the one worker only, so the requests that read it are taken together
with the one that changes it; each of them may fail before or after its effect.
Administrators who change clients by hand are not modelled. The server policy, rate
limits and quotas of an MCPAgent are read by nobody in the operator. Every Active
write carries a new `RegisteredAt` of whole seconds, so writing Active again may or may not
bump the resourceVersion, and may start the next reconcile: that loop is in the model.

`AgentRegistration` has of an agent its phase and whether it is marked as deleted and protected
by the finalizer (`reg`), and of its Secret whether there is none, its own, or one left by an
earlier agent of the name (`creds`). `Reg` and `Stored` map the detailed state to these;
`ImplementsRegistration` says that every step is one of the abstract agent or not seen. So a
reconcile that acts on an old copy never registers, activates or fails an agent that is being
deleted, was replaced or has lost its protection, never skips Registering, and makes
credentials only for an agent that is still there. Keycloak is not part of it:
`OwnCredentialsLive` and `ClientsAccountedFor` relate the two.

A Secret left by an earlier agent of the name is kept and taken for the new one's
(mcpagent_controller.go:114-126, 187-191), although its client is gone: until the garbage collector has
taken it, the new agent may be Active with credentials that open nothing. The model has these states, and
`OwnCredentialsLive` leaves them out: it speaks of a Secret whose owner the agent is. That they
do not last is `Converges`, for which `Registered` asks for a Secret of the agent's own, and that
the reconcile which ends them is not lost is `Attended`.

A Keycloak call may also never be answered: the client sets no time limit and the reconcile's context has no
deadline. The worker is then `hung`, whether the call took effect or not, until a `Restart`.

### CerbosTranslation

One operator for each helper of `translate.go`. A string is the sequence of the words it is
put together from, so that replacing `/` by `:` and prefixing `agent:` are what they are in
the code and can collide if they can collide there. `Applies` says what a rule means as its API type
has it, `Matches` how Cerbos reads a rule of a resource policy when it is asked with a kind of resource, an action,
roles and the attribute `tool`.

How a request becomes such a question is not in the code: nothing in the repository calls Cerbos. The documents
disagree with the translation and with each other:

| | Kind of resource | Action | Roles |
|---|---|---|---|
| what `translate.go` writes | `mcp:server:<name>`, or `mcp:tool` | `tools:call` | the rule's, or `agent:<name>`, or `*` |
| `docs/security.md:65-69` | `mcp-server` | `tools/call` | those of the token |
| `docs/implementation/phase-3-agent-rbac.md:1060-1070` | `mcp:tool` | `tools:call` | `mcp-agent` |

So no property of a run supposes a way of asking. `MeaningKept` says that the translation loses nothing: rules about
one server that differ in their effect or on any request never have the same Cerbos policy, for with one policy
no way of asking could tell them apart. What follows from each row of the table is proved (see Proofs): some way of asking fits, the one
of the translation itself; with the first document's no translated rule ever applies, with the second's none
of a list that names a server.

### MCPPolicyController

Each path of this reconciler has at most one call that changes anything, so a reconcile is one
step, taken with a copy `held` that may be out of date (`fresh` is false) when the
call is made. `id` stands for the version that `status.cerbosPolicyId` names by the rules of
that version. Writing the status changes it every time (the ID contains the previous
resourceVersion), which makes the copy stale and leads to the next reconcile: that loop is in
the model. The CRD admits neither an empty list of rules nor another effect, so
`TranslatePolicy` does not fail and `Failed` is never written.

| Code | Action |
|---|---|
| NotFound; deletion; finalizer | `NotFound`; `Release`; `AddFinalizer` |
| translation and `Status().Update` | `Acknowledge` |
| `Update`, `Status().Update` | `Put`: done, refused, failed, or done with its answer lost |
| `main`: CERBOS_URL | `cerbos`, chosen at each `Restart` |

### Marketplace

`DeployFromCatalog` runs in its caller's goroutine; nothing keeps two callers, or replicas of
the process, from deploying one name at once. `call[c]` is where caller c's deployment is, with its
copy of the entry and the secrets it was given; `got[c]` and `current[c]` are what its Get of
the Secret returned and whether that is still the stored version. `secret` maps each key to
whoever provided its value.

| Code | Action |
|---|---|
| `CatalogStore.Add`, `Delete`, `Get` | `Add`, `Delete`; the lookup of `Deploy` |
| steps 1, 2 | `Deploy` |
| `controllerutil.CreateOrUpdate` | `GetSecret`, `PutSecret` (stringData merges into the stored data) |
| `Create` of the MCPServer, of the MCPPolicy | `CreateServer`, `CreatePolicy` |
| errors | `Refused` (AlreadyExists, conflict), `Abort`, and the lost answer in `Done` |

The MCPServer is deleted by its user and finalized by its controller (`DeleteServer`,
`FinalizeServer`); the Secret and the MCPPolicy have no owner and stay. A server refers to the keys given and to
those its template refers to itself (`declared`). The deployment asks only for the `required` ones, so a key
that is declared and not required may be missing, which `SecretsResolvable` leaves to the template's author; references
to other Secrets are not modelled. Nobody edits
or deletes them by hand here, nor edits the server's spec. No program of the repository calls
`DeployFromCatalog` yet: the callers are its tests' and whatever is to come.

### ApiServer and ResourceRegistry

`req[r]` is the request of HTTP client r: where its handler is (before decoding, before the
Kubernetes call, between the two calls of a deletion, with an answer decided), what was asked,
and the answer: the status and the uids of the resources its body shows. `objects` are the resources of all
collections, namespaces and names; `process` is where `main` is.

| Code | Action |
|---|---|
| the mux, CORS middleware, `handleHealthz` | `Arrive` (`Routed`), `AnswerDirectly` |
| the four `handleList...` | `List` (all namespaces) |
| `handleGetServer`, `handleGetAgent` | `Get` (`KeyOf`: the namespace is `default` if none is given) |
| `handleCreateServer` | `Decode`, `Create` |
| `handleDeleteServer` | `DeleteGet`, `Delete` |
| errors of any call | `FailCall`: without or with its effect; 404 from a Get, 500 otherwise |
| `writeJSON`, `writeError`, the handler's return | `Answer`, `Finish` |
| an answer that cannot be encoded or written, or is later than `WriteTimeout` | `DropAnswer` |
| `ListenAndServe`, the signal and `Shutdown`, `log.Fatalf` | `Listen`, `ListenFails`, `Shutdown`, `Stop`, `GiveUp` |

The signal alone changes nothing: until main calls `Shutdown`, requests are taken as before, and that is one state
with `serving`. From then on the listener is closed, but a connection that was accepted may still bring one
request, after whose answer it is closed.

`ResourceRegistry` has the same resources, and of a request only that it is open, what it asks,
and its answer. Its operations decide at one moment; a deletion in particular is one step. `ImplementsRegistry`
maps a request that is anywhere before its answer to an open one, so the first call of a deletion
is a stutter, unless it finds nothing, which is when the registry's deletion fails. A lost answer
(`Lose`) undoes nothing.
Where validation by Kubernetes refuses an object is not modelled, only that it may
(`Create` may always be refused). What the controllers do to a resource is `Foreign`. `CreateServer` and
`DeleteServer` of `MCPServerController` are the effects of these handlers on the one server it has.

### Discovery

`call[c]` is where caller c's `Discover` is, in which of the three calls and with which request ID;
`lists[c][m]` is what it has from call m: a list of names is known by the version of the server
that gave it. `reply[c]` is the response to its request.

| Code | Action |
|---|---|
| `Discover`, the start | `Discover` |
| `call` up to `Do`: `idCounter.Add(1)` | `Send` |
| status, body, decoding, RPC error; `listTools`, `listResources`, `listPrompts` | `Read` (`Decoded`, `Fails`) |
| time limit of the `http.Client`, end of the context, broken connection | `Expire` |

A response is a status and one of five kinds of body (`Bodies`), which are the ways decoding can come out:
`null` as the result decodes into an empty list, a missing result does not decode. The ID of
a response is not looked at by the code and not modelled. `Answer` and `Upgrade` are the MCP server.

### AuditLogger

`log[r]` is the call of `Log` for request r and its place in the loop over the sinks, `job[r][i]` the
goroutine started at position i, with the sink it was handed; `received` is what the sinks have stored.

| Code | Action |
|---|---|
| `Log`: the attributes and `LogAttrs`; the loop; its end | `Call`, `WriteLine`; `Dispatch`; `Return` |
| the goroutine: `sink.Write` returns nil, or an error | `Succeed`; `Fail` |
| a sink; the process | `Store`, `Restart` |

A sink may store an entry after its goroutine has given up or the process is gone, and
a failing one may have stored it. The error line does not name the entry, so only their number is
kept. No sink implementation is in the repository. The write of the line may fail (`dropped`): `LogAttrs` does not
return the error, and the loop runs all the same.

## Runs

| Run | Question | Instance |
|---|---|---|
| `server_live` | Do phases follow the life cycle, is a wake-up lost, does it come to rest and stay there, does deletion finish, is everything cleaned up? | 2 specs with different ports, 2 generations, 1 fault anywhere, fairness |
| `server_recreate` | Does Running ever acknowledge a spec that is not deployed when the name is reused before the old children are gone? Does anything come back once a server is gone? Is the invariant of the proofs true? | gateway, 2 specs, one with a Secret, one with an image that never gets ready, 2 incarnations |
| `server_rollout_claim` | Running only after the rollout? | violated: status of the old template |
| `server_service_claim` | Does a Running server keep its Service? | violated: garbage collection after adoption |
| `agent_pair` | Does a Secret an agent has made stay valid, does a client outlive its agent, with several agents served by one worker? Does a registration last? Does a watcher see the abstract registration? Is the invariant of the proofs true? | 2 agents with IDs of their own, one created twice, 1 Kubernetes fault or restart, Keycloak up |
| `agent_live` | Does a Secret an agent has made stay valid through edits of the client ID and Keycloak outages; is a wake-up lost; is an agent registered in the end, does its deletion finish, if calls are answered? | 1 agent, 2 client IDs, 2 incarnations, 2 edits or faults, 1 failing or unanswered call, fairness |
| `agent_shared_claim` | One client for each agent? | violated: same name, two namespaces |
| `policy_live` | Does the status acknowledge the rules in force, settle, and let a deletion finish; is a wake-up lost; does the translation keep what rules about one server say? | 10 lists of up to 3 rules, 32 requests, 3 creations, edits or deletions, 1 fault or restart, fairness |
| `marketplace_race` | Is what a server refers to there, is success whole, is a server guarded? Is the invariant of the proofs true? | 2 callers, 3 deployments, 3 versions of the entry, 2 secret keys, 2 changes of the catalog, 1 deletion, 1 fault |
| `api_registry` | Is every answer what was true or done at one moment, whatever else uses Kubernetes? Does a shutdown end? | 2 clients, servers and agents in 2 namespaces, 2 resources, 1 failing call or lost answer, fairness |
| `discovery_live` | Are IDs of requests under way distinct, are the returned lists of this call and in order, does every discovery return? | 2 callers, 3 discoveries, 2 versions of the server, fairness |
| `audit_sinks` | Does a sink follow stdout, is what is missing reported, does a stuck sink or a lost line keep anything from the others? | 2 requests, 2 sinks, one stuck, 2 restarts, fairness |

The violated ones are statements of the repository's documentation and comments, quoted with
their lines in `PROJECT.json` under `findings`; each fails with no fault injected.

Other divergences are visible without a run:

* `docs/architecture.md:153` leads every deletion through `Terminating`, a phase `reconcileDelete` never sets;
* `docs/user-guide.md:81` leads unhealthy servers to `Failed`, but they stay in Deploying (mcpserver_controller.go:231),
  and a conflict alone leads to `Failed` (292), where it takes an edit to get out;
* zero replicas, which the CRD allows, are never ready (213);
* an Active agent whose `oidcClientId` is edited keeps its old client and stays Active (mcpagent_controller.go:118);
* `docs/installation.md:295` says that "once active, the agent's OIDC client ID can be used to authenticate"; an agent
  created again is Active with its predecessor's Secret, whose client was deleted, until that Secret is collected
  (mcpagent_controller.go:114-126, 187-191);
* `docs/implementation/phase-3-agent-rbac.md:623` planned a time limit of 15 s for Keycloak calls; there is none
  (keycloak/client.go:55), and a call that is never answered stops the agents' worker;
* `docs/user-guide.md:243` takes `Synced` for active in Cerbos; nothing is sent there;
* `docs/security.md:65-69` asks Cerbos about kind `mcp-server`, action `tools/call` and the roles of the token, and
  `docs/implementation/phase-3-agent-rbac.md:1060-1070` about kind `mcp:tool` with role `mcp-agent`, while the policies are
  about `mcp:server:<name>`, `tools:call` and `agent:<name>` (translate.go:97, 146-173): asked like the first, Cerbos applies no
  translated rule at all, asked like the second none of a policy that names a server;
* a policy that names no server is about `mcp:tool` and does not add to those about servers (translate.go:164-173);
* the rules of a policy about two servers are all translated for the first one named (translate.go:166);
* a refused duplicate deployment has already written its values into the running server's Secret (deploy.go:73),
  where `docs/implementation/phase-5-marketplace.md:1222` says "without creating partial resources";
* the tools that a default policy allows become actions of its rule (deploy.go:150), which no `tools/call`
  request has;
* a rule with both roles and agents loses its agents (translate.go:151);
* the path of an HTTPRoute is the server's name without its namespace (route.go:35);
* entries are "always written" to stdout (audit/logger.go:66); a line whose write fails is lost and nobody is told (105);
* any error of a Get, not only NotFound, is answered 404 by the REST API (apiserver/main.go:204, 242, 278);
* `docs/user-guide.md:278` blocks entries whose scan failed; `DeployFromCatalog` does not look at it;
* `docs/implementation/phase-5-marketplace.md:1063` cleans up after a failed deployment; nothing is cleaned up,
  and since the Secret and MCPPolicy have no owner, a server that was deleted cannot be deployed with its
  policy again, where line 1132 of the same document tolerates a policy that exists.

Bounds (MCPServer). `MaxGeneration = 2` gives one edit: an edit before, inside and after a
reconcile, and the old-or-new question every property is about needs no
third spec. `MaxIncarnations = 2` gives one re-creation with the children of the
first still there. `MaxFaults = 1` puts one lost answer, failed call, restart, pod failure,
deleted child or foreign phase anywhere. `server_recreate` and `server_service_claim` have neither edits nor faults: re-creation
already puts another spec under the old children, and edits or faults beside it are left to
`RunningServesSpecCorrect` and `LifecycleImplemented`, which have no bounds. The properties proved below hold with
no bound at all. Deadlock is not checked: once the
server is gone and the bounds are used up the system rightly stops.

Bounds (MCPAgent). Two agents are what sharing a worker, a realm or a client takes. Two
incarnations leave the Secret and the client of the first for the second. Edits are
charged to `MaxFaults`, since nothing is promised to a user who edits for ever; with two of
them `agent_live` has an edit with a fault and there-and-back edits.

Bounds (MCPPolicy). Three changes are a creation, an edit or deletion, and one more to
overtake the reconcile of the first. The lists have each way to name principals, servers
and tools, alone and together, and for some a neighbour that differs in one field only, so that a translation that
drops the field is seen to make two lists one; requests are all combinations of two methods, agents,
role sets, servers and tools.

Bounds (marketplace). A third deployment repeats one that failed or succeeded
while another is under way. Two changes of the catalog put one version in the place
of another. One fault is enough to lose a policy, and `Guarded` says what holds without.

Bounds (REST API). Two clients are what it takes to have one act between the two calls of another's
deletion; `Foreign` is a third actor. Two collections differ in their routes, two namespaces in whether
the default applies. Two resources put a second one in the place of a deleted one. `list` has no name or
namespace and is not multiplied by them.

Bounds (discovery, audit). Two callers or requests share what there is to share; the third discovery
follows one that failed or succeeded while another is under way. Two versions are
enough for lists that are out of order. Two restarts let one hit what the first left behind.

Fairness. The work queue hands out a queued key and the reconciler's calls return (weak
fairness of `Operator`); informers deliver (weak; strong for `SyncServer`, which
the model enables only between two reconciles); the garbage collector, the Deployment controller and the
kubelet make progress. The user, faults and Secrets have no fairness. `server_live` has no
broken image and no spec of zero replicas, since for these the
controller does wait for ever.

For agents, `Finish` (the rest of a reconcile) is weakly fair; `Serve(a)` is strongly fair for each
agent, because the work queue is first in, first out, so that an agent which
keeps waking itself up does not starve the others; the informers and the
garbage collector as above. Keycloak and the user have none. An outage is over when
no further call fails, which `MaxOutages` enforces, and an operator left without
`KEYCLOAK_URL` is excepted in `Converges`. That a call is answered at all is not part of the fairness, since
nothing in the code sees to it: a call may hang, no fair action leads out of it, and `Converges` and
`DeletionCompletes` are stated under the premise `Answered`, that the worker is not left hanging for ever. Without it neither
holds: one unanswered call stops all agents and all their deletions.

For policies, `Reconcile` and `SyncPolicy` are weakly fair: the queue hands out the key, the
informer delivers. The deployments have safety properties only: nothing retries them.

For the REST API, the process runs (`Listen`, `Stop`), the timer of the shutdown fires (`GiveUp`), and a
handler that has decided its answer returns, since `WriteTimeout` bounds the write (`Finish`, or `DropAnswer` instead). Calls of Kubernetes have no fairness:
the client sets no time limit. For discovery, goroutines run and the `http.Client`'s timer fires (`Expire`; a client that is built with a
time limit of 0 has none, discovery.go:117-121); the MCP server owes nothing. For audit, the calls of `Log` run, stdout takes or refuses
a line, and the sinks outside `Stuck` take their entries.

Every passing run's property is broken by a mutant of the code in the model (the definitions marked
"Mutant"), such as a dispatch that does not wait for the finalizer or a refused write
taken for done.

## Proofs

The liveness properties themselves are beyond TLAPS. What is proved of them is their safety half:
that no wake-up is lost, that no step leads back, and that what has been reached lasts.

`MCPServerController_proofs` proves, for every set of specs, any number of edits, incarnations
and faults (the bounds are not used):

* `Invariance`: `Spec => []IInv`, and from it `TypeCorrect`: `Spec => []TypeOK`
* `RunningServesSpecCorrect`: `Spec => []RunningServesSpec`
* `FinalizerCorrect`: `Spec => []FinalizerBeforeChildren`
* `NothingComesBackHolds`: `Spec => NothingComesBack`
* `AlwaysAttended`: `Spec => []Attended`
* `RestLastsHolds`: `Spec => RestLasts`
* `LifecycleImplemented`: `Spec => ImplementsLifecycle`

Assumed are the `ASSUME`s of the module: specs have a replica count and name known
Secrets, the gateway flag is Boolean, bounds are naturals, `None` is not an object.

`RunningServesSpec` is not inductive. A write of a child is built from the held copy, so one must
know that the held copy cannot be older than an acknowledged Running: `IInv` adds that fresh copies equal the objects (`CachesAgree`), that
generations order the held copy before the stored one and determine the spec
(`GenerationsOrdered`), what a reconcile under way has already made agree with its spec (`InFlight`), that
an acknowledged Running is only ever reached with the cache caught up (`RunningSettled`), and that the finalizer is never lost (`Protected`).
`server_recreate` checks `IInv` too. The proof has one lemma per API call
(`PutServerKeepsIInv`, `ReconcileKeepsIInv`), one per group of actions, and for the refinement one per
kind of status write.

`Attended` is inductive with `IInv`: the last call of a reconcile is an event if it changes
the server and requeues the key if it does not (`PutServerAttended`), and a key is dropped only when the
fresh copy says that the server is gone. `NothingComesBack` follows from the worker being idle once the copy
has caught up with a deletion (`OwnersKept`). For `RestLasts`, a reconcile under way holds a copy
that is not of a resting server, so its status write is refused (`PutServerRests`), and its writes of
the Deployment go into the one that is there and keep its owner (`DeploymentRests`). The condition that the
Deployment is the server's own is needed: one taken over from an earlier server of the name is collected, and
the server then goes back to Deploying.

`MCPAgentController_proofs` proves, for all agents, client IDs and bounds:

* `TypeCorrect`, `BaseHolds`: types, current copies, uids, and that the agent the worker has
  in hand is still there when it acts for it (`HeldSurvives`: the finalizer keeps it)
* `OwnCredentialsStayLive`: the Secret that an agent has made opens its client, if the agent's client IDs are the
  choice of nobody else (`Own`), whatever the others do. `CredentialsStayLive` is the case of
  all agents: `Disjoint => (Spec => []OwnCredentialsLive)`. A Secret inherited from an earlier agent is excluded in both
* `FixedClientsAccountedFor`: until Keycloak first fails to answer, every client of an ID that is not
  edited (`Fixed`) belongs to an agent that will remove it. `ClientsStayAccountedFor` is the case
  `Steady => (Spec => []ClientsAccountedFor)`
* `InvariantHolds`: `Disjoint /\ Steady => (Spec => []IInv)`, the invariant `agent_pair` checks
* `AlwaysAttended`: `Spec => []Attended`
* `OwnRegistrationsLast`: the registration of an `Own` agent lasts until a deletion, a fault or an
  outage that hits this agent; `RegistrationsLast`: `Disjoint => (Spec => RegistrationLasts)`
* `RegistrationImplemented`: `Spec => ImplementsRegistration`, under no assumption. `Base`
  is all it needs, with one more fact: between its calls the worker holds a copy that is past
  Pending (`Registering`). `PutOrNot` says that a write lands on the current copy or nowhere;
  one lemma each then shows how the worker's, the users' and the garbage collector's
  steps are seen

`Disjoint` says that no client ID is the choice of two agents, and `agent_shared_claim` shows it is
needed; `Steady` that there are no outages and no edits, without which the code does
leave clients behind (its cleanup is best-effort). `OwnCredentialsLive` needs `KeysKnown`: the client secret
in the worker's hand is still the client's when the Secret is written, and a Secret
names only client IDs of its agent, so that another agent's deletion cannot touch them.
`ClientsAccountedFor` needs `ClientsRemoved`: the client is gone when the finalizer goes. Each of the two has a
lemma for the steps that leave its variables alone, one for `Put`, one for the worker and one for `Next`.
`Attended` is not inductive: an activation requeues nothing and may change nothing, so that only the
event of the Secret it has just stored brings the next reconcile (`ActivationDue`). Registrations last because an
Active agent exists and has the finalizer (`ActiveProtected`), so that a deletion only marks it and its Secret is not
the garbage collector's.

`MCPPolicyController_proofs` proves, for all lists of rules, requests and bounds:

* `TypeCorrect`, with the fact that a fresh copy is the stored policy (`Consistent`)
* `AcknowledgesCurrentHolds`: `Spec => AcknowledgesCurrent`; `AlwaysAttended`: `Spec => []Attended`
* `SettledLasts`: what `Converges` promises is, once reached, ended by users and faults only
* `MeaningKeptHolds`: `Spec => []MeaningKept`. The lemmas are what could go wrong with strings: replacing
  `/` by `:` keeps different methods different (`MapActionInjective`) and does not make or
  unmake `*` (`MapActionAny`), and an agent's role is nobody else's (`AgentRoleUnique`). Assumed (`RulesAssumption`,
  `RequestsAssumption`) is that methods and people's roles contain no `:` of their own
* `NarrowedAlike`: what the translation does lose. A list is translated as if all its rules named the server it
  names first and those with roles named no agents
* `SomeWayFits`: with the checks `Mirrored`, made like the rules, each rule of a list about one server applies to
  exactly the requests it was written for
* `DocumentedNeverMatches`: with the checks of `docs/security.md` no rule applies, and each of the three differences
  keeps rules from applying: the kind all, the action those without `*` from methods with a slash, the roles those about
  agents
* `PlannedNeverMatches`: with the checks of `phase-3-agent-rbac.md` no rule of a list that names a server applies, nor any for
  named agents
* `NeverTogether`: no check consults both a policy about no server and one about some

`Marketplace_proofs` proves, for all callers, entries, keys and bounds:

* `InvariantHolds`: `Spec => []IInv`, and from it `TypeCorrect`
* `SecretsStayResolvable`, `ServersGuarded`: `Spec => []SecretsResolvable`, `Spec => []Guarded`
* `SuccessesAreWhole`: `Spec => SuccessIsWhole`

`SecretsResolvable` needs that the Secret only grows: what a write keeps of others' keys
is what the caller read (`ReadsCurrent`), and what it has provided is there when it
comes to the server (`Provided`, `Validated`). `Guarded` needs that a missing policy is still owed by
a deployment under way (`PolicyComing`), `SuccessIsWhole` that the server is its own when
it comes to the policy (`ServerMade`). There is one lemma per action.

`ApiServer_proofs` proves, for any clients, names and bounds:

* `TypeCorrect`: `Spec => []TypeOK`
* `EndComesNearer`: no step takes a handler without an answer, or the process, back; once `Shutdown` is called this
  holds of every client, which has at most five steps to go: one request on a connection accepted before
* `HandlersImplementRegistry`: `Spec => ImplementsRegistry`, the refinement of `ResourceRegistry`

The refinement needs `OpsFit`:
what a handler is in the middle of is an operation that has such a middle. There is one lemma for
each action of a handler, which says which action of the registry it is.

`Discovery_proofs` proves `Spec => []IInv`, and from it `TypeCorrect`, `RequestsDistinct` and
`CapabilitiesGenuine`. `Genuine` needs that what a discovery has so far is ordered and from its own time
(`Progress`), and that a response under way is no older than that (`Answered`); `IdsUnique` that no ID is above the
counter (`IdsCounted`). `CallsAdvance` says that a running discovery has at most nine steps to go (`Left`) and
that nobody's step adds to them.

`AuditLogger_proofs` proves `Spec => []IInv`, and from it `TypeCorrect`, `SinksFollow` and `EntriesAccounted`, for
any finite set of requests, sinks and restarts. `Paired` says what each goroutine stands
for; that `Failed` goroutines are as many as error lines turns into `Accounted` by a subset argument
on finite sets. `NothingForgotten` says that what stdout was given has reached each sink, was reported or lost, or
is still on its way (it needs `Handed`: the loop passes every sink before `Log` returns), and
`LogsAdvance` that a call has at most `NumSinks + 2` steps to go, whatever the sinks do.

Left to TLC: that the steps the theorems speak of are taken in the end, that is the liveness properties
`Converges`, `DeletionCompletes`, `DeletionLeavesNothing`, `Returns`, `NeverBlocked` and `Ends` under
their fairness; and the claim runs, whose properties do not hold.

## Not modelled, and why

* A Secret that a deployment creates back to back with its server and that the controller's cache misses: both
  sides are modelled (`Marketplace`, and `ChangeSecrets`, `SyncSecrets` in `MCPServerController`), their product is
  beyond what TLC checks in minutes.
* Two servers of one name in two namespaces at one gateway: the gateway decides between equal routes, outside the
  repository.
* Flag parsing, probes and leader election (`cmd/operator`), reading the kubeconfig (`cmd/apiserver`): set-up that the
  framework carries out.
* `HashRequestBody`, `List`, `Search` and `Count` of the catalog: they change no state and nothing here depends on
  their results.
* Exporters and instruments (`internal/observability`): set up once, no state that the program reads.
* Generated deep copies (`zz_generated.deepcopy.go`), Helm charts, the UI, scripts: no logic of their own.
