---------------------- MODULE MCPAgentController_proofs ----------------------
(***************************************************************************)
(* Theorems about MCPAgentController, for any agents, client IDs and       *)
(* bounds.  Base, Creds and Wakes hold of every behaviour: the first is    *)
(* about the copies and the worker, the second about the credentials of    *)
(* each agent that shares its client IDs with nobody, the third about who  *)
(* wakes the worker.  Accounts holds of the client IDs that nobody edits   *)
(* as long as Keycloak has answered.  Disjoint and Steady turn these into  *)
(* statements about all agents at once.  Base alone suffices for the       *)
(* refinement of AgentRegistration, the last section.                      *)
(***************************************************************************)
EXTENDS MCPAgentController, TLAPS

USE IdsAssumption, AgentBoundsAssumption

\* The initial state satisfies Base.
LEMMA InitBase == Init => Base
<1>. SUFFICES ASSUME Init PROVE Base
  OBVIOUS
<1>1. /\ NoAgent \in Agent /\ NoSecret \in Secret /\ ~Exists(NoAgent) /\ NoAgent.uid = 0
      /\ ~NoAgent.deleting
  BY DEF NoAgent, NoSecret, Agent, Secret, Phases, Exists
<1>2. TypeOK
  BY <1>1 DEF Init, TypeOK, Idle, Steps
<1>3. CachesAgree /\ UidsCount /\ HeldSurvives
  BY <1>1 DEF Init, CachesAgree, UidsCount, HeldSurvives, NoSecret
<1>4. WorkIsDue
  BY DEF Init, WorkIsDue, Idle
<1>. QED  BY <1>2, <1>3, <1>4 DEF Base

\* What Put may write: the held copy with more finalizer or another phase, or nothing
\* in place of an agent that is being deleted.
Rewrites(a, new) ==
    LET held == cAgent[a] IN
    /\ new \in Agent
    /\ \/ /\ new.uid = held.uid /\ new.deleting = held.deleting
          /\ new.clientId = held.clientId
          /\ held.finalizer => new.finalizer
       \/ held.deleting /\ new = NoAgent

\* A write of the MCPAgent keeps Base: it happens on the current copy or not at all.
LEMMA PutKeepsBase ==
  ASSUME Base, NEW a \in Agents, NEW new, NEW again \in BOOLEAN, Rewrites(a, new),
         Exists(cAgent[a]), Put(a, new, again)
  PROVE  Base'
<1>1. /\ work' = Idle /\ queued' \subseteq queued \cup {a}
      /\ faults' \in Nat /\ outages' \in Nat
      /\ UNCHANGED <<uids, secret, seen, cAgent, cSecret, kc, issued, configured>>
  <2>1. Fault \/ UNCHANGED boundVars
    BY DEF Put
  <2>2. faults' \in Nat /\ outages' \in Nat
    BY <2>1 DEF Base, TypeOK, Fault, boundVars
  <2>3. queued' \subseteq queued \cup {a}
    BY DEF Put
  <2>. QED  BY <2>2, <2>3 DEF Put, secretVars, cacheVars, keycloakVars
<1>2. \/ /\ fresh[a] /\ agent' = [agent EXCEPT ![a] = new]
         /\ \/ fresh' = [fresh EXCEPT ![a] = FALSE]
            \/ new = agent[a] /\ fresh' = [fresh EXCEPT ![a] = TRUE]
      \/ UNCHANGED <<agent, fresh>>
  BY DEF Put
<1>3. fresh[a] => cAgent[a] = agent[a]
  BY DEF Base, CachesAgree
<1>4. TypeOK' /\ CachesAgree'
  <2>1. CASE UNCHANGED <<agent, fresh>>
    BY <1>1, <2>1 DEF Base, TypeOK, CachesAgree, Idle, Steps
  <2>2. CASE /\ fresh[a] /\ agent' = [agent EXCEPT ![a] = new]
             /\ \/ fresh' = [fresh EXCEPT ![a] = FALSE]
                \/ new = agent[a] /\ fresh' = [fresh EXCEPT ![a] = TRUE]
    <3>1. agent' \in [Agents -> Agent] /\ fresh' \in [Agents -> BOOLEAN]
      BY <2>2 DEF Base, TypeOK, Rewrites
    <3>2. TypeOK'
      BY <1>1, <3>1 DEF Base, TypeOK, Idle, Steps
    <3>3. CachesAgree'
      BY <1>1, <1>3, <2>2 DEF Base, TypeOK, CachesAgree
    <3>. QED  BY <3>2, <3>3
  <2>. QED  BY <1>2, <2>1, <2>2
<1>5. UidsCount' /\ HeldSurvives'
  <2>1. CASE UNCHANGED <<agent, fresh>>
    BY <1>1, <2>1 DEF Base, UidsCount, HeldSurvives
  <2>2. CASE fresh[a] /\ agent' = [agent EXCEPT ![a] = new]
    <3>1. /\ agent'[a] = new /\ cAgent[a] = agent[a] /\ agent[a].uid = uids[a]
          /\ \A b \in Agents \ {a} : agent'[b] = agent[b]
      BY <1>3, <2>2 DEF Base, TypeOK, UidsCount
    <3>2. NoAgent.uid = 0 /\ NoAgent.deleting = FALSE
      BY DEF NoAgent
    <3>3. UidsCount'
      BY <1>1, <3>1, <3>2 DEF Base, UidsCount, Rewrites, Exists
    <3>4. HeldSurvives'
      BY <1>1, <3>1, <3>2 DEF Base, HeldSurvives, Rewrites, Exists
    <3>. QED  BY <3>3, <3>4
  <2>. QED  BY <1>2, <2>1, <2>2
<1>6. WorkIsDue'
  BY <1>1 DEF WorkIsDue, Idle
<1>. QED  BY <1>4, <1>5, <1>6 DEF Base

\* So does a step of the worker that writes no MCPAgent and whose next point is due.
LEMMA ContinueKeepsBase ==
  ASSUME Base, NEW a \in Agents, NEW at \in Steps \ {"idle"}, NEW key \in Nat, Continue(a, at, key),
         UNCHANGED <<agent, uids, fresh, secret, cAgent, cSecret, seen>>,
         kc' \in [ClientIds -> Nat], issued' \in Nat, configured' \in BOOLEAN,
         faults' \in Nat, outages' \in Nat,
         Exists(cAgent[a]),
         at \notin {"release", "hung"} => cAgent[a].finalizer /\ ~cAgent[a].deleting,
         at = "release" => cAgent[a].deleting
  PROVE  Base'
<1>1. TypeOK'
  BY DEF Base, TypeOK, Continue, Steps
<1>2. WorkIsDue'
  BY DEF Base, TypeOK, WorkIsDue, Continue
<1>3. CachesAgree' /\ UidsCount' /\ HeldSurvives'
  BY DEF Base, CachesAgree, UidsCount, HeldSurvives
<1>. QED  BY <1>1, <1>2, <1>3 DEF Base

\* Storing the Secret keeps Base: its owner is the held MCPAgent, which still exists.
LEMMA StoreKeepsBase == Base /\ StoreSecret => Base'
<1>. SUFFICES ASSUME Base, StoreSecret PROVE Base'
  OBVIOUS
<1>. DEFINE a == work.agent
            built == [owner |-> cAgent[a].uid, id |-> ClientId(a, cAgent[a]), key |-> work.key]
<1>1. /\ a \in Agents /\ cAgent[a] \in Agent /\ Exists(cAgent[a]) /\ cAgent[a].finalizer
      /\ ~cAgent[a].deleting /\ agent[a].uid = cAgent[a].uid /\ cAgent[a].uid = uids[a]
  BY DEF Base, TypeOK, WorkIsDue, HeldSurvives, UidsCount, StoreSecret, Exists
<1>2. built \in Secret
  BY <1>1 DEF Base, TypeOK, Secret, Agent, ClientId
<1>3. /\ \/ secret' = secret
         \/ secret[a].owner = 0 /\ secret' = [secret EXCEPT ![a] = built]
      /\ seen' = [seen EXCEPT ![a] = seen[a] /\ secret' = secret]
      /\ UNCHANGED <<agent, uids, fresh, cAgent, cSecret, kc, issued, configured>>
  <2>. DEFINE stored == [secret EXCEPT ![a] = IF @.owner = 0 THEN built ELSE @]
  <2>1. secret' \in {secret, stored}
    BY DEF StoreSecret
  <2>2. CASE secret[a].owner = 0
    BY <2>1, <2>2 DEF StoreSecret, agentVars, cacheVars, keycloakVars
  <2>3. CASE secret[a].owner # 0
    <3>1. stored = secret
      BY <2>3 DEF Base, TypeOK
    <3>. QED  BY <2>1, <3>1 DEF StoreSecret, agentVars, cacheVars, keycloakVars
  <2>. QED  BY <2>2, <2>3
<1>4. /\ \/ work' = Idle /\ queued' = queued \cup {a}
         \/ Continue(a, "activate", 0)
      /\ Fault \/ UNCHANGED boundVars
  BY DEF StoreSecret
<1>5. TypeOK'
  <2>1. secret' \in [Agents -> Secret] /\ seen' \in [Agents -> BOOLEAN]
    BY <1>1, <1>2, <1>3 DEF Base, TypeOK
  <2>2. faults' \in Nat /\ outages' \in Nat
    BY <1>4 DEF Base, TypeOK, Fault, boundVars
  <2>. QED  BY <1>1, <1>3, <1>4, <2>1, <2>2 DEF Base, TypeOK, Continue, Idle, Steps
<1>6. CachesAgree'
  BY <1>1, <1>3 DEF Base, TypeOK, CachesAgree
<1>7. UidsCount' /\ HeldSurvives'
  <2>1. CASE secret' = secret
    BY <1>3, <2>1 DEF Base, UidsCount, HeldSurvives
  <2>2. CASE secret' = [secret EXCEPT ![a] = built]
    <3>1. /\ secret'[a].owner = uids[a] /\ uids[a] \in Nat
          /\ \A b \in Agents \ {a} : secret'[b] = secret[b]
      BY <1>1, <2>2 DEF Base, TypeOK
    <3>. QED  BY <1>1, <1>3, <3>1 DEF Base, UidsCount, HeldSurvives
  <2>. QED  BY <1>3, <2>1, <2>2
<1>8. WorkIsDue'
  BY <1>1, <1>3, <1>4 DEF WorkIsDue, Continue, Idle
<1>. QED  BY <1>5, <1>6, <1>7, <1>8 DEF Base

\* The steps of the worker keep Base.
LEMMA OperatorKeepsBase == Base /\ Operator => Base'
<1>. SUFFICES ASSUME Base, Operator PROVE Base'
  OBVIOUS
<1>a. TypeOK /\ WorkIsDue
  BY DEF Base
<1>1. ASSUME NEW a \in Agents, NotFound(a) PROVE Base'
  <2>1. TypeOK' /\ WorkIsDue'
    BY <1>1 DEF Base, TypeOK, WorkIsDue, NotFound, agentVars, secretVars, cacheVars,
                keycloakVars, boundVars
  <2>2. CachesAgree' /\ UidsCount' /\ HeldSurvives'
    BY <1>1 DEF Base, CachesAgree, UidsCount, HeldSurvives, NotFound, agentVars,
                secretVars, cacheVars
  <2>. QED  BY <2>1, <2>2 DEF Base
<1>2. ASSUME NEW a \in Agents, AddFinalizer(a) PROVE Base'
  <2>. DEFINE new == [cAgent[a] EXCEPT !.finalizer = TRUE]
  <2>1. Rewrites(a, new)
    BY <1>a DEF TypeOK, Agent, Rewrites
  <2>. QED  BY <1>2, <2>1, PutKeepsBase DEF AddFinalizer
<1>3. ASSUME NEW a \in Agents, NEW phase \in Phases, NEW again \in BOOLEAN,
             Exists(cAgent[a]), SetPhase(a, phase, again)
      PROVE  Base'
  <2>. DEFINE new == [cAgent[a] EXCEPT !.phase = phase]
  <2>1. Rewrites(a, new)
    BY <1>a DEF TypeOK, Agent, Rewrites
  <2>. QED  BY <1>3, <2>1, PutKeepsBase DEF SetPhase
<1>4. ASSUME NEW a \in Agents, StartRegistering(a) PROVE Base'
  BY <1>3, <1>4 DEF StartRegistering, Protected, Phases
<1>5. ASSUME NEW a \in Agents, TokenRefused(a) PROVE Base'
  <2>1. outages' \in Nat /\ faults' \in Nat
    BY <1>5, <1>a DEF TokenRefused, Outage, TypeOK
  <2>2. PICK at \in {"failed", "hung"} : Continue(a, at, 0)
    BY <1>5 DEF TokenRefused, Unsuccessful
  <2>. QED  BY <1>5, <1>a, <2>1, <2>2, ContinueKeepsBase
            DEF TokenRefused, Registers, Protected, TypeOK, Steps, agentVars, secretVars,
                cacheVars, keycloakVars
<1>6. ASSUME NEW a \in Agents, SecretFound(a) PROVE Base'
  BY <1>6, <1>a, ContinueKeepsBase
  DEF SecretFound, Registers, Protected, TypeOK, Steps, agentVars, secretVars,
      cacheVars, keycloakVars, boundVars
<1>7. ASSUME NEW a \in Agents, CreateClient(a) PROVE Base'
  <2>. DEFINE id == ClientId(a, cAgent[a])
  <2>1. id \in ClientIds
    BY <1>a DEF TypeOK, Agent, ClientId
  <2>2. Ensured(id) \in Nat
    BY <1>a, <2>1 DEF TypeOK, Ensured
  <2>3. kc'[id] = Ensured(id) /\ kc' \in [ClientIds -> Nat] /\ issued' \in Nat
    BY <1>7, <1>a, <2>1, <2>2 DEF TypeOK, CreateClient
  <2>4. outages' \in Nat /\ faults' \in Nat
    BY <1>7, <1>a DEF CreateClient, Outage, TypeOK, boundVars
  <2>5. PICK at \in {"store", "failed", "hung"}, key \in Nat : Continue(a, at, key)
    BY <1>7, <2>2, <2>3 DEF CreateClient, Unsuccessful
  <2>. QED  BY <1>7, <1>a, <2>3, <2>4, <2>5, ContinueKeepsBase
            DEF CreateClient, Registers, Protected, TypeOK, Steps, agentVars, secretVars,
                cacheVars
<1>8. ASSUME NEW a \in Agents, DeleteClient(a) PROVE Base'
  <2>1. outages' \in Nat /\ faults' \in Nat
    BY <1>8, <1>a DEF DeleteClient, Outage, TypeOK, boundVars
  <2>2. kc' \in [ClientIds -> Nat]
    BY <1>8, <1>a DEF DeleteClient, TypeOK
  <2>3. PICK at \in {"release", "hung"} : Continue(a, at, 0)
    BY <1>8 DEF DeleteClient
  <2>4. UNCHANGED <<agentVars, secretVars, cacheVars, issued, configured>>
    BY <1>8 DEF DeleteClient
  <2>5. Exists(cAgent[a]) /\ cAgent[a].deleting /\ at \in Steps \ {"idle"}
    BY <1>8, <2>3 DEF DeleteClient, Steps
  <2>. QED  BY <1>a, <2>1, <2>2, <2>3, <2>4, <2>5, ContinueKeepsBase
            DEF TypeOK, agentVars, secretVars, cacheVars
<1>9. CASE MarkFailed
  <2>1. work.agent \in Agents /\ Exists(cAgent[work.agent])
    BY <1>9, <1>a DEF MarkFailed, TypeOK, WorkIsDue
  <2>. QED  BY <1>3, <1>9, <2>1 DEF MarkFailed, Phases
<1>10. CASE Activate
  <2>1. work.agent \in Agents /\ Exists(cAgent[work.agent])
    BY <1>10, <1>a DEF Activate, TypeOK, WorkIsDue
  <2>. QED  BY <1>3, <1>10, <2>1 DEF Activate, Phases
<1>11. CASE Release
  <2>1. work.agent \in Agents /\ Exists(cAgent[work.agent]) /\ cAgent[work.agent].deleting
    BY <1>11, <1>a DEF Release, TypeOK, WorkIsDue
  <2>2. Rewrites(work.agent, NoAgent)
    BY <2>1 DEF Rewrites, NoAgent, Agent, Phases
  <2>. QED  BY <1>11, <2>1, <2>2, PutKeepsBase DEF Release
<1>12. CASE StoreSecret
  BY <1>12, StoreKeepsBase
<1>. QED  BY <1>1, <1>2, <1>4, <1>5, <1>6, <1>7, <1>8, <1>9, <1>10, <1>11, <1>12
          DEF Operator, Serve, Finish

\* What somebody else's write may make of agent a when its name counts n incarnations: the
\* same agent not less protected or deleted, nothing in place of an unprotected one, or
\* the next incarnation.
Follows(a, new, n) ==
    /\ new \in Agent
    /\ new.uid = 0 \/ new.uid = n
    /\ \/ /\ n = uids[a] /\ new.uid # 0 /\ new.uid = agent[a].uid
          /\ agent[a].finalizer => new.finalizer
          /\ agent[a].deleting => new.deleting
       \/ n = uids[a] /\ new.uid = 0 /\ agent[a].uid # 0 /\ ~agent[a].finalizer
       \/ n = uids[a] + 1 /\ new.uid = n /\ agent[a].uid = 0

\* The record a creation writes is an agent,
LEMMA CreatedAgent ==
  ASSUME NEW x \in Agent, NEW n \in Nat, NEW c \in ClientIds \cup {Unset}
  PROVE  LET y == [x EXCEPT !.uid = n, !.clientId = c] IN y \in Agent /\ y.uid = n
<1>. DEFINE z == [x EXCEPT !.uid = n]
<1>1. z \in Agent /\ z.uid = n
  BY DEF Agent
<1>2. [x EXCEPT !.uid = n, !.clientId = c] = [z EXCEPT !.clientId = c]
  BY DEF Agent
<1>3. [z EXCEPT !.clientId = c] \in Agent /\ [z EXCEPT !.clientId = c].uid = z.uid
  <2>. HIDE DEF z
  <2>. QED  BY <1>1 DEF Agent
<1>. QED  BY <1>1, <1>2, <1>3

\* and so is one marked as being deleted.
LEMMA DeletedAgent ==
  ASSUME NEW x \in Agent, NEW d \in BOOLEAN
  PROVE  LET y == [x EXCEPT !.deleting = d] IN
            y \in Agent /\ y.uid = x.uid /\ y.finalizer = x.finalizer /\ y.deleting = d
  BY DEF Agent

\* Every step keeps Base.
LEMMA NextKeepsBase == Base /\ [Next]_vars => Base'
<1>. SUFFICES ASSUME Base, [Next]_vars PROVE Base'
  OBVIOUS
<1>a. TypeOK /\ CachesAgree /\ UidsCount /\ HeldSurvives /\ WorkIsDue
  BY DEF Base
<1>b. \A b \in Agents : /\ uids[b] \in Nat /\ agent[b] \in Agent /\ cAgent[b] \in Agent
                        /\ agent[b].uid \in Nat /\ cAgent[b].uid \in Nat
                        /\ secret[b].owner \in Nat
                        /\ agent[b].uid = 0 \/ agent[b].uid = uids[b]
                        /\ cAgent[b].uid <= uids[b] /\ secret[b].owner <= uids[b]
  BY <1>a DEF TypeOK, UidsCount, Agent, Secret, Exists
<1>n. NoAgent \in Agent /\ NoSecret \in Secret /\ NoAgent.uid = 0 /\ NoSecret.owner = 0
  BY DEF NoAgent, NoSecret, Agent, Secret, Phases
<1>1. CASE Operator
  BY <1>1, OperatorKeepsBase
<1>2. ASSUME NEW a \in Agents, SyncAgent(a) PROVE Base'
  <2>1. /\ cAgent'[a] = agent[a] /\ \A b \in Agents \ {a} : cAgent'[b] = cAgent[b]
        /\ cAgent' \in [Agents -> Agent] /\ fresh' \in [Agents -> BOOLEAN]
        /\ work.agent # a
        /\ UNCHANGED <<agent, uids, secret, seen, cSecret, kc, issued, configured, work,
                       faults, outages>>
    BY <1>2, <1>a DEF SyncAgent, TypeOK, secretVars, keycloakVars, boundVars
  <2>2. TypeOK'
    BY <1>2, <1>a, <2>1 DEF SyncAgent, TypeOK
  <2>3. CachesAgree'
    BY <1>2, <1>a, <2>1 DEF SyncAgent, TypeOK, CachesAgree
  <2>4. UidsCount' /\ HeldSurvives'
    <3>1. UidsCount'
      BY <1>b, <2>1 DEF UidsCount, Exists
    <3>2. HeldSurvives'
      BY <1>a, <2>1 DEF HeldSurvives
    <3>. QED  BY <3>1, <3>2
  <2>5. WorkIsDue'
    BY <1>a, <2>1 DEF WorkIsDue, TypeOK, Idle
  <2>. QED  BY <2>2, <2>3, <2>4, <2>5 DEF Base
<1>3. ASSUME NEW a \in Agents, SyncSecret(a) PROVE Base'
  <2>1. TypeOK' /\ CachesAgree'
    BY <1>3, <1>a DEF SyncSecret, TypeOK, CachesAgree, agentVars, keycloakVars, boundVars
  <2>2. UidsCount' /\ HeldSurvives' /\ WorkIsDue'
    BY <1>3, <1>a DEF SyncSecret, UidsCount, HeldSurvives, WorkIsDue, agentVars
  <2>. QED  BY <2>1, <2>2 DEF Base
<1>4. ASSUME NEW a \in Agents, NEW new, ChangeAgent(a, new), Follows(a, new, uids'[a]),
             uids' \in [Agents -> Nat], \A b \in Agents \ {a} : uids'[b] = uids[b],
             faults' \in Nat, outages' \in Nat
      PROVE  Base'
  <2>1. /\ agent'[a] = new /\ \A b \in Agents \ {a} : agent'[b] = agent[b]
        /\ agent' \in [Agents -> Agent] /\ fresh' \in [Agents -> BOOLEAN]
        /\ UNCHANGED <<cAgent, secret, seen, cSecret, kc, issued, configured, work, queued>>
    BY <1>4, <1>a DEF ChangeAgent, Follows, TypeOK, secretVars, cacheVars, keycloakVars
  <2>2. TypeOK'
    BY <1>4, <1>a, <2>1 DEF TypeOK
  <2>3. CachesAgree'
    BY <1>4, <1>a, <2>1 DEF ChangeAgent, TypeOK, CachesAgree
  <2>4. uids[a] <= uids'[a] /\ (new.uid = 0 \/ new.uid = uids'[a])
    BY <1>4, <1>b DEF Follows
  <2>5. UidsCount'
    <3>. SUFFICES ASSUME NEW b \in Agents
                  PROVE  /\ agent'[b].uid # 0 => agent'[b].uid = uids'[b]
                         /\ cAgent[b].uid <= uids'[b] /\ secret[b].owner <= uids'[b]
      BY <2>1 DEF UidsCount, Exists
    <3>1. CASE b = a
      BY <1>4, <1>b, <2>1, <2>4, <3>1
    <3>2. CASE b # a
      BY <1>4, <1>b, <2>1, <3>2
    <3>. QED  BY <3>1, <3>2
  <2>6. HeldSurvives'
    <3>. SUFFICES ASSUME NEW b \in Agents
                  PROVE  LET held == cAgent[b] IN
                         /\ Exists(held) /\ held.finalizer /\ ~held.deleting =>
                               agent'[b].uid = held.uid /\ agent'[b].finalizer
                         /\ Exists(held) /\ held.deleting /\ agent'[b].uid = held.uid =>
                               agent'[b].deleting
                         /\ Exists(agent'[b]) /\ secret[b].owner = agent'[b].uid =>
                               held.uid = agent'[b].uid
      BY <2>1 DEF HeldSurvives
    <3>1. CASE b # a
      BY <1>a, <2>1, <3>1 DEF HeldSurvives
    <3>2. CASE b = a
      BY <1>4, <1>a, <1>b, <2>1, <3>2 DEF HeldSurvives, Follows, Exists
    <3>. QED  BY <3>1, <3>2
  <2>7. WorkIsDue'
    BY <1>a, <2>1 DEF WorkIsDue, Idle
  <2>. QED  BY <2>2, <2>3, <2>5, <2>6, <2>7 DEF Base
<1>5. ASSUME NEW a \in Agents, NEW choice \in Choices[a], CreateAgent(a, choice) PROVE Base'
  <2>. DEFINE new == [NoAgent EXCEPT !.uid = uids[a] + 1, !.clientId = choice]
  <2>1. new \in Agent /\ new.uid = uids[a] + 1
    <3>1. uids[a] + 1 \in Nat /\ choice \in ClientIds \cup {Unset}
      BY <1>b
    <3>. QED  BY <1>n, <3>1, CreatedAgent
  <2>2. /\ uids' \in [Agents -> Nat] /\ uids'[a] = uids[a] + 1
        /\ \A b \in Agents \ {a} : uids'[b] = uids[b]
        /\ faults' \in Nat /\ outages' \in Nat /\ agent[a].uid = 0 /\ ChangeAgent(a, new)
    BY <1>5, <1>a DEF CreateAgent, TypeOK, Exists, boundVars
  <2>. HIDE DEF new
  <2>3. Follows(a, new, uids'[a])
    BY <2>1, <2>2 DEF Follows
  <2>. QED  BY <1>4, <2>2, <2>3
<1>6. ASSUME NEW a \in Agents, NEW new \in Agent, ChangeAgent(a, new), UNCHANGED uids,
             Exists(agent[a]), new.uid = agent[a].uid, new.finalizer = agent[a].finalizer,
             agent[a].deleting => new.deleting, faults' \in Nat, outages' \in Nat
      PROVE  Base'
  <2>1. Follows(a, new, uids'[a])
    BY <1>6, <1>b DEF Follows, Exists
  <2>2. uids' \in [Agents -> Nat] /\ \A b \in Agents \ {a} : uids'[b] = uids[b]
    BY <1>6, <1>a DEF TypeOK
  <2>. QED  BY <1>4, <1>6, <2>1, <2>2
<1>7. ASSUME NEW a \in Agents, DeleteAgent(a) PROVE Base'
  <2>1. /\ uids' = uids /\ Exists(agent[a]) /\ faults' \in Nat /\ outages' \in Nat
    BY <1>7, <1>a DEF DeleteAgent, TypeOK, boundVars
  <2>2. CASE agent[a].finalizer
    <3>. DEFINE new == [agent[a] EXCEPT !.deleting = TRUE]
    <3>1. /\ new \in Agent /\ new.uid = agent[a].uid /\ new.finalizer = agent[a].finalizer
          /\ new.deleting = TRUE
      BY <1>b, DeletedAgent
    <3>2. ChangeAgent(a, new)
      BY <1>7, <2>2 DEF DeleteAgent
    <3>. HIDE DEF new
    <3>. QED  BY <1>6, <2>1, <3>1, <3>2
  <2>3. CASE ~agent[a].finalizer
    <3>1. Follows(a, NoAgent, uids'[a])
      BY <1>b, <1>n, <2>1, <2>3 DEF Follows, Exists
    <3>. QED  BY <1>4, <1>7, <1>a, <2>1, <2>3, <3>1 DEF DeleteAgent, TypeOK
  <2>. QED  BY <2>2, <2>3
<1>8. ASSUME NEW a \in Agents, Suspend(a) \/ \E choice \in Choices[a] : EditAgent(a, choice)
      PROVE  Base'
  <2>1. PICK phase \in Phases, choice \in ClientIds \cup {Unset} :
           \/ ChangeAgent(a, [agent[a] EXCEPT !.phase = phase])
           \/ ChangeAgent(a, [agent[a] EXCEPT !.clientId = choice])
    BY <1>8 DEF Suspend, EditAgent, Phases
  <2>2. uids' = uids /\ Exists(agent[a]) /\ (Fault \/ UNCHANGED boundVars)
    BY <1>8 DEF Suspend, EditAgent
  <2>3. faults' \in Nat /\ outages' \in Nat
    BY <2>2, <1>a DEF Fault, TypeOK, boundVars
  <2>4. LET new == [agent[a] EXCEPT !.phase = phase] IN
           /\ new \in Agent /\ new.uid = agent[a].uid
           /\ new.finalizer = agent[a].finalizer /\ new.deleting = agent[a].deleting
    BY <1>b DEF Agent
  <2>5. LET new == [agent[a] EXCEPT !.clientId = choice] IN
           /\ new \in Agent /\ new.uid = agent[a].uid
           /\ new.finalizer = agent[a].finalizer /\ new.deleting = agent[a].deleting
    BY <1>b DEF Agent
  <2>. QED  BY <1>6, <2>1, <2>2, <2>3, <2>4, <2>5
<1>9. ASSUME NEW a \in Agents, RemoveSecret(a), faults' \in Nat, outages' \in Nat PROVE Base'
  <2>1. /\ secret'[a].owner = 0 /\ \A b \in Agents \ {a} : secret'[b] = secret[b]
        /\ secret' \in [Agents -> Secret] /\ seen' \in [Agents -> BOOLEAN]
        /\ UNCHANGED <<agent, uids, fresh, cAgent, cSecret, kc, issued, configured, work,
                       queued>>
    BY <1>9, <1>a, <1>n DEF RemoveSecret, TypeOK, agentVars, cacheVars, keycloakVars
  <2>2. TypeOK'
    BY <1>9, <1>a, <2>1 DEF TypeOK
  <2>3. CachesAgree'
    BY <1>9, <1>a, <2>1 DEF RemoveSecret, TypeOK, CachesAgree
  <2>4. UidsCount' /\ HeldSurvives'
    <3>1. UidsCount'
      BY <1>a, <1>b, <2>1 DEF UidsCount
    <3>2. HeldSurvives'
      BY <1>a, <2>1 DEF HeldSurvives, Exists
    <3>. QED  BY <3>1, <3>2
  <2>5. WorkIsDue'
    BY <1>a, <2>1 DEF WorkIsDue, Idle
  <2>. QED  BY <2>2, <2>3, <2>4, <2>5 DEF Base
<1>10. ASSUME NEW a \in Agents, CollectSecret(a) \/ LoseSecret(a) PROVE Base'
  <2>1. RemoveSecret(a) /\ faults' \in Nat /\ outages' \in Nat
    BY <1>10, <1>a DEF CollectSecret, LoseSecret, Fault, TypeOK, boundVars
  <2>. QED  BY <1>9, <2>1
<1>11. CASE Restart
  <2>0. \/ Fault /\ UNCHANGED configured
        \/ Outage /\ configured' \in BOOLEAN
    BY <1>11 DEF Restart
  <2>1. faults' \in Nat /\ outages' \in Nat /\ configured' \in BOOLEAN
    BY <2>0, <1>a DEF Fault, Outage, TypeOK
  <2>2. /\ work' = Idle /\ queued' = Agents /\ cAgent' = agent /\ cSecret' = secret
        /\ fresh' = [b \in Agents |-> TRUE] /\ seen' = [b \in Agents |-> TRUE]
        /\ UNCHANGED <<agent, uids, secret, kc, issued>>
    BY <1>11 DEF Restart
  <2>3. TypeOK'
    BY <1>a, <2>1, <2>2 DEF TypeOK, Idle, Steps
  <2>4. CachesAgree'
    BY <2>2 DEF CachesAgree
  <2>5. UidsCount' /\ WorkIsDue'
    BY <1>a, <1>b, <2>2 DEF UidsCount, WorkIsDue, Exists, Idle
  <2>6. HeldSurvives'
    BY <1>a, <2>2 DEF HeldSurvives
  <2>. QED  BY <2>3, <2>4, <2>5, <2>6 DEF Base
<1>12. CASE UNCHANGED vars
  BY <1>12 DEF vars, Base, TypeOK, CachesAgree, UidsCount, HeldSurvives, WorkIsDue
<1>. QED  BY <1>1, <1>2, <1>3, <1>5, <1>7, <1>8, <1>10, <1>11, <1>12
          DEF Next, User, Faults

\* Every behaviour keeps its types, and its caches, uids and worker stay consistent.
THEOREM BaseHolds == Spec => []Base
  BY InitBase, NextKeepsBase, PTL DEF Spec

\* The variables keep their types.
THEOREM TypeCorrect == Spec => []TypeOK
<1>1. Base => TypeOK
  BY DEF Base
<1>. QED  BY <1>1, BaseHolds, PTL

-----------------------------------------------------------------------------
\* What a's user may choose, no other agent's user may;
Own(a) == \A b \in Agents : b # a => IdsOf(a) \cap IdsOf(b) = {}

\* and no client ID is the choice of two agents.
Disjoint == \A a, b \in Agents : a # b => IdsOf(a) \cap IdsOf(b) = {}

OwnersCredentialsWork == \A a \in Agents : Own(a) => OwnCredentialsWork(a)
Creds == KeysKnown /\ OwnersCredentialsWork

\* Whose IDs are whose does not change.
LEMMA OwnStays == \A a \in Agents : Own(a)' <=> Own(a)
  BY DEF Own, IdsOf

\* A held or live agent's client ID is one of its own.
LEMMA OwnId ==
  ASSUME NEW a \in Agents, NEW x, x.clientId \in Choices[a] \cup {Unset}
  PROVE  ClientId(a, x) \in IdsOf(a) /\ ClientId(a, x) \in ClientIds
  BY DEF ClientId, IdsOf

\* A step that touches neither Secrets nor Keycloak, and brings no agent to life that owns
\* a Secret, keeps Creds.
LEMMA QuietKeepsCreds ==
  ASSUME Base, Creds, UNCHANGED <<secret, kc>>,
         \A b \in Agents : /\ agent'[b].clientId \in Choices[b] \cup {Unset}
                          /\ cAgent'[b].clientId \in Choices[b] \cup {Unset},
         \A b \in Agents :
            Exists(agent'[b]) /\ ~agent'[b].deleting /\ secret[b].owner = agent'[b].uid =>
               Exists(agent[b]) /\ ~agent[b].deleting /\ secret[b].owner = agent[b].uid,
         work'.at = "store" => work' = work /\ cAgent'[work.agent] = cAgent[work.agent]
  PROVE  Creds'
<1>1. KeysKnown'
  BY DEF Creds, KeysKnown
<1>2. OwnersCredentialsWork'
  BY OwnStays DEF Creds, OwnersCredentialsWork, OwnCredentialsWork
<1>. QED  BY <1>1, <1>2 DEF Creds

\* Put is such a step.
LEMMA PutKeepsCreds ==
  ASSUME Base, Creds, NEW a \in Agents, NEW new, NEW again \in BOOLEAN, Rewrites(a, new),
         Put(a, new, again)
  PROVE  Creds'
<1>1. UNCHANGED <<secret, kc, cAgent>> /\ work'.at # "store"
  BY DEF Put, Idle, secretVars, keycloakVars, cacheVars
<1>2. \/ UNCHANGED agent
      \/ fresh[a] /\ agent' = [agent EXCEPT ![a] = new]
  BY DEF Put
<1>3. NoAgent.uid = 0 /\ NoAgent.clientId = Unset
  BY DEF NoAgent
<1>4. CASE UNCHANGED agent
  BY <1>1, <1>4, QuietKeepsCreds DEF Creds, KeysKnown
<1>5. CASE fresh[a] /\ agent' = [agent EXCEPT ![a] = new]
  <2>1. /\ agent'[a] = new /\ \A b \in Agents \ {a} : agent'[b] = agent[b]
        /\ cAgent[a] = agent[a]
    BY <1>5 DEF Base, TypeOK, CachesAgree
  <2>2. \A b \in Agents : /\ agent'[b].clientId \in Choices[b] \cup {Unset}
                          /\ cAgent'[b].clientId \in Choices[b] \cup {Unset}
    BY <1>1, <1>3, <2>1 DEF Creds, KeysKnown, Rewrites
  <2>3. \A b \in Agents :
           Exists(agent'[b]) /\ ~agent'[b].deleting /\ secret[b].owner = agent'[b].uid =>
              Exists(agent[b]) /\ ~agent[b].deleting /\ secret[b].owner = agent[b].uid
    BY <1>3, <2>1 DEF Rewrites, Exists
  <2>. QED  BY <1>1, <2>2, <2>3, QuietKeepsCreds
<1>. QED  BY <1>2, <1>4, <1>5

\* The worker's steps keep Creds; only DeleteClient needs Own.
LEMMA OperatorKeepsCreds == Base /\ Creds /\ Operator => Creds'
<1>. SUFFICES ASSUME Base, Creds, Operator PROVE Creds'
  OBVIOUS
<1>a. TypeOK /\ WorkIsDue /\ HeldSurvives /\ UidsCount /\ KeysKnown /\ OwnersCredentialsWork
  BY DEF Base, Creds
<1>b. \A b \in Agents : /\ agent[b].clientId \in Choices[b] \cup {Unset}
                        /\ cAgent[b].clientId \in Choices[b] \cup {Unset}
                        /\ cAgent[b] \in Agent /\ ClientId(b, cAgent[b]) \in IdsOf(b)
                        /\ ClientId(b, cAgent[b]) \in ClientIds
  BY <1>a, OwnId DEF KeysKnown, TypeOK
<1>1. ASSUME NEW a \in Agents, NotFound(a) \/ TokenRefused(a) \/ SecretFound(a) PROVE Creds'
  <2>1. UNCHANGED <<agent, secret, kc, cAgent>> /\ (work' = work \/ work'.at # "store")
    BY <1>1 DEF NotFound, TokenRefused, Unsuccessful, SecretFound, Continue, agentVars,
                secretVars, cacheVars, keycloakVars
  <2>. QED  BY <1>b, <2>1, QuietKeepsCreds
<1>2. ASSUME NEW a \in Agents, AddFinalizer(a) PROVE Creds'
  <2>. DEFINE new == [cAgent[a] EXCEPT !.finalizer = TRUE]
  <2>1. Rewrites(a, new)
    BY <1>b DEF Agent, Rewrites
  <2>. QED  BY <1>2, <2>1, PutKeepsCreds DEF AddFinalizer
<1>3. ASSUME NEW a \in Agents, NEW phase \in Phases, NEW again \in BOOLEAN,
             SetPhase(a, phase, again)
      PROVE  Creds'
  <2>. DEFINE new == [cAgent[a] EXCEPT !.phase = phase]
  <2>1. Rewrites(a, new)
    BY <1>b DEF Agent, Rewrites
  <2>. QED  BY <1>3, <2>1, PutKeepsCreds DEF SetPhase
<1>4. ASSUME NEW a \in Agents, StartRegistering(a) PROVE Creds'
  BY <1>3, <1>4 DEF StartRegistering, Phases
<1>5. CASE MarkFailed \/ Activate
  <2>1. work.agent \in Agents
    BY <1>5, <1>a DEF MarkFailed, Activate, TypeOK
  <2>. QED  BY <1>3, <1>5, <2>1 DEF MarkFailed, Activate, Phases
<1>6. CASE Release
  <2>1. work.agent \in Agents /\ cAgent[work.agent].deleting
    BY <1>6, <1>a DEF Release, TypeOK, WorkIsDue
  <2>2. Rewrites(work.agent, NoAgent)
    BY <2>1 DEF Rewrites, NoAgent, Agent, Phases
  <2>. QED  BY <1>6, <2>1, <2>2, PutKeepsCreds DEF Release
<1>7. ASSUME NEW a \in Agents, CreateClient(a) PROVE Creds'
  <2>. DEFINE id == ClientId(a, cAgent[a])
  <2>1. /\ kc' = [kc EXCEPT ![id] = Ensured(id)] /\ kc'[id] = Ensured(id)
        /\ UNCHANGED <<agent, cAgent, secret>>
    BY <1>7, <1>a, <1>b DEF CreateClient, TypeOK, agentVars, cacheVars, secretVars
  <2>2. Ensured(id) # 0 /\ (kc[id] # 0 => Ensured(id) = kc[id])
    BY <1>a DEF TypeOK, Ensured
  <2>3. work'.at = "store" => work'.agent = a /\ work'.key = kc'[id]
    BY <1>7 DEF CreateClient, Unsuccessful, Continue
  <2>4. \A i \in ClientIds : kc[i] # 0 => kc'[i] = kc[i]
    BY <1>a, <1>b, <2>1, <2>2 DEF TypeOK
  <2>5. KeysKnown'
    BY <1>a, <2>1, <2>2, <2>3 DEF KeysKnown
  <2>6. OwnersCredentialsWork'
    <3>1. \A b \in Agents : IdsOf(b) \subseteq ClientIds
      BY DEF IdsOf
    <3>. QED  BY <1>a, <2>1, <2>4, <3>1, OwnStays
              DEF OwnersCredentialsWork, OwnCredentialsWork, KeysKnown, TypeOK, Exists
  <2>. QED  BY <2>5, <2>6 DEF Creds
<1>8. ASSUME NEW a \in Agents, DeleteClient(a) PROVE Creds'
  <2>. DEFINE id == ClientId(a, cAgent[a])
  <2>1. /\ \A i \in ClientIds : i # id => kc'[i] = kc[i]
        /\ UNCHANGED <<agent, cAgent, secret>> /\ work'.at # "store"
        /\ Exists(cAgent[a]) /\ cAgent[a].deleting
    BY <1>8, <1>a DEF DeleteClient, Continue, TypeOK, agentVars, cacheVars, secretVars
  <2>2. KeysKnown'
    BY <1>a, <2>1 DEF KeysKnown
  <2>3. ASSUME NEW b \in Agents, Own(b), Exists(agent[b]), ~agent[b].deleting,
               secret[b].owner = agent[b].uid
        PROVE  kc'[secret[b].id] = secret[b].key
    <3>1. secret[b].id \in IdsOf(b) /\ secret[b].id \in ClientIds
      BY <1>a, <2>3 DEF KeysKnown, Exists, IdsOf
    <3>2. b # a
      BY <1>a, <2>1, <2>3 DEF HeldSurvives
    <3>3. secret[b].id # id
      BY <1>b, <2>3, <3>1, <3>2 DEF Own
    <3>. QED  BY <1>a, <2>1, <2>3, <3>1, <3>3 DEF OwnersCredentialsWork, OwnCredentialsWork
  <2>4. OwnersCredentialsWork'
    BY <2>1, <2>3, OwnStays DEF OwnersCredentialsWork, OwnCredentialsWork
  <2>. QED  BY <2>2, <2>4 DEF Creds
<1>9. CASE StoreSecret
  <2>. DEFINE a == work.agent
              built == [owner |-> cAgent[a].uid, id |-> ClientId(a, cAgent[a]),
                        key |-> work.key]
  <2>1. a \in Agents /\ work.key # 0 /\ kc[ClientId(a, cAgent[a])] = work.key
    BY <1>9, <1>a DEF StoreSecret, TypeOK, KeysKnown
  <2>2. /\ \A b \in Agents : secret'[b] = secret[b] \/ (b = a /\ secret'[b] = built)
        /\ UNCHANGED <<agent, cAgent, kc>> /\ work'.at # "store"
    <3>1. UNCHANGED <<agent, cAgent, kc>> /\ work'.at # "store"
      BY <1>9 DEF StoreSecret, Continue, Idle, agentVars, cacheVars, keycloakVars
    <3>. DEFINE kept == IF secret[a].owner = 0 THEN built ELSE secret[a]
    <3>2. secret' = secret \/ secret' = [secret EXCEPT ![a] = kept]
      BY <1>9 DEF StoreSecret
    <3>3. kept \in {built, secret[a]}
      OBVIOUS
    <3>. HIDE DEF kept, built
    <3>. QED  BY <1>a, <2>1, <3>1, <3>2, <3>3 DEF TypeOK
  <2>3. KeysKnown'
    BY <1>a, <1>b, <2>1, <2>2 DEF KeysKnown
  <2>4. OwnersCredentialsWork'
    BY <1>a, <2>1, <2>2, OwnStays DEF OwnersCredentialsWork, OwnCredentialsWork
  <2>. QED  BY <2>3, <2>4 DEF Creds
<1>. QED  BY <1>1, <1>2, <1>4, <1>5, <1>6, <1>7, <1>8, <1>9 DEF Operator, Serve, Finish

\* Every step keeps Creds.
LEMMA NextKeepsCreds == Base /\ Creds /\ [Next]_vars => Creds'
<1>. SUFFICES ASSUME Base, Creds, [Next]_vars PROVE Creds'
  OBVIOUS
<1>a. TypeOK /\ CachesAgree /\ UidsCount /\ KeysKnown /\ OwnersCredentialsWork
  BY DEF Base, Creds
<1>b. \A b \in Agents : /\ agent[b].clientId \in Choices[b] \cup {Unset}
                        /\ cAgent[b].clientId \in Choices[b] \cup {Unset}
                        /\ uids[b] \in Nat /\ secret[b].owner <= uids[b]
                        /\ agent[b] \in Agent /\ secret[b] \in Secret
  BY <1>a DEF KeysKnown, TypeOK, UidsCount
<1>n. NoAgent.uid = 0 /\ NoAgent.clientId = Unset /\ NoSecret.owner = 0
  BY DEF NoAgent, NoSecret
<1>1. CASE Operator
  BY <1>1, OperatorKeepsCreds
<1>2. ASSUME NEW a \in Agents, SyncAgent(a) \/ SyncSecret(a) PROVE Creds'
  <2>1. /\ UNCHANGED <<agent, secret, kc, work>>
        /\ \A b \in Agents : cAgent'[b] \in {cAgent[b], agent[b]}
        /\ work.agent \in Agents => cAgent'[work.agent] = cAgent[work.agent]
    BY <1>2, <1>a DEF SyncAgent, SyncSecret, TypeOK, agentVars, secretVars, keycloakVars
  <2>2. \A b \in Agents : cAgent'[b].clientId \in Choices[b] \cup {Unset}
    BY <1>b, <2>1
  <2>. QED  BY <1>a, <1>b, <2>1, <2>2, QuietKeepsCreds DEF TypeOK
<1>3. ASSUME NEW a \in Agents, NEW new, ChangeAgent(a, new),
             new.clientId \in Choices[a] \cup {Unset},
             Exists(new) /\ ~new.deleting /\ secret[a].owner = new.uid =>
                Exists(agent[a]) /\ ~agent[a].deleting /\ secret[a].owner = agent[a].uid
      PROVE  Creds'
  <2>1. /\ UNCHANGED <<secret, cAgent, kc, work>>
        /\ agent'[a] = new /\ \A b \in Agents \ {a} : agent'[b] = agent[b]
    BY <1>3, <1>a DEF ChangeAgent, TypeOK, secretVars, cacheVars, keycloakVars
  <2>. QED  BY <1>3, <1>b, <2>1, QuietKeepsCreds
<1>4. ASSUME NEW a \in Agents, NEW choice \in Choices[a], CreateAgent(a, choice)
      PROVE  Creds'
  <2>. DEFINE new == [NoAgent EXCEPT !.uid = uids[a] + 1, !.clientId = choice]
  <2>1. new.uid = uids[a] + 1 /\ new.clientId = choice
    BY DEF NoAgent
  <2>2. secret[a].owner # uids[a] + 1
    BY <1>b DEF Secret
  <2>3. ChangeAgent(a, new)
    BY <1>4 DEF CreateAgent
  <2>. HIDE DEF new
  <2>. QED  BY <1>3, <2>1, <2>2, <2>3
<1>5. ASSUME NEW a \in Agents, NEW choice \in Choices[a], EditAgent(a, choice)
      PROVE  Creds'
  <2>. DEFINE new == [agent[a] EXCEPT !.clientId = choice]
  <2>1. /\ new.uid = agent[a].uid /\ new.deleting = agent[a].deleting
        /\ new.clientId = choice
    BY <1>b DEF Agent
  <2>2. ChangeAgent(a, new) /\ Exists(agent[a])
    BY <1>5 DEF EditAgent
  <2>. HIDE DEF new
  <2>. QED  BY <1>3, <2>1, <2>2
<1>6. ASSUME NEW a \in Agents, DeleteAgent(a) PROVE Creds'
  <2>. DEFINE new == [agent[a] EXCEPT !.deleting = TRUE]
  <2>1. new.deleting = TRUE /\ new.clientId = agent[a].clientId
    BY <1>b DEF Agent
  <2>2. ChangeAgent(a, new) \/ ChangeAgent(a, NoAgent)
    BY <1>6 DEF DeleteAgent
  <2>. HIDE DEF new
  <2>. QED  BY <1>3, <1>b, <1>n, <2>1, <2>2 DEF Exists
<1>7. ASSUME NEW a \in Agents, Suspend(a) PROVE Creds'
  <2>. DEFINE new == [agent[a] EXCEPT !.phase = "Suspended"]
  <2>1. /\ new.uid = agent[a].uid /\ new.deleting = agent[a].deleting
        /\ new.clientId = agent[a].clientId
    BY <1>b DEF Agent
  <2>2. ChangeAgent(a, new) /\ Exists(agent[a])
    BY <1>7 DEF Suspend
  <2>. HIDE DEF new
  <2>. QED  BY <1>3, <1>b, <2>1, <2>2
<1>8. ASSUME NEW a \in Agents, CollectSecret(a) \/ LoseSecret(a) PROVE Creds'
  <2>1. /\ \A b \in Agents : secret'[b] = secret[b] \/ secret'[b].owner = 0
        /\ UNCHANGED <<agent, cAgent, kc, work>>
    BY <1>8, <1>a, <1>n DEF CollectSecret, LoseSecret, RemoveSecret, TypeOK, agentVars,
                            cacheVars, keycloakVars
  <2>2. KeysKnown'
    BY <1>a, <2>1 DEF KeysKnown
  <2>3. OwnersCredentialsWork'
    BY <1>a, <2>1, OwnStays DEF OwnersCredentialsWork, OwnCredentialsWork, Exists
  <2>. QED  BY <2>2, <2>3 DEF Creds
<1>9. CASE Restart
  <2>1. UNCHANGED <<agent, secret, kc>> /\ cAgent' = agent /\ work'.at # "store"
    BY <1>9 DEF Restart, Idle
  <2>. QED  BY <1>b, <2>1, QuietKeepsCreds
<1>10. CASE UNCHANGED vars
  BY <1>10, QuietKeepsCreds DEF vars, Creds, KeysKnown
<1>. QED  BY <1>1, <1>2, <1>4, <1>5, <1>6, <1>7, <1>8, <1>9, <1>10 DEF Next, User, Faults

LEMMA CredsHold == Spec => []Creds
<1>1. Init => Creds
  <2>1. NoAgent.uid = 0 /\ NoAgent.clientId = Unset /\ NoSecret.owner = 0
    BY DEF NoAgent, NoSecret
  <2>. QED  BY <2>1 DEF Init, Creds, KeysKnown, OwnersCredentialsWork, OwnCredentialsWork, Exists, Idle
<1>. QED  BY <1>1, NextKeepsCreds, BaseHolds, PTL DEF Spec

\* A credentials Secret that a live agent has made for itself opens the client it names, if no
\* other agent may use the agent's client IDs, whatever the others share and after any crashes,
\* lost answers, outages, edits and re-creations (CreateClient's 409 path, Create of the Secret,
\* reconcileAgentDelete).  Nothing is said of the Secret an earlier agent of the name has left,
\* which the reconcile of the new one takes as its own (mcpagent_controller.go:114-126, 187-191).
THEOREM OwnCredentialsStayLive == Spec => [](\A a \in Agents : Own(a) => OwnCredentialsWork(a))
<1>1. Creds => \A a \in Agents : Own(a) => OwnCredentialsWork(a)
  BY DEF Creds, OwnersCredentialsWork
<1>. QED  BY <1>1, CredsHold, PTL

\* If no two agents may use one client ID, this holds of every live agent with a Secret of its
\* own.
THEOREM CredentialsStayLive == Disjoint => (Spec => []OwnCredentialsLive)
<1>1. Disjoint /\ Creds => OwnCredentialsLive
  BY DEF Disjoint, Own, Creds, OwnersCredentialsWork, OwnCredentialsLive
<1>2. Disjoint => []Disjoint
  <2>1. Disjoint => Disjoint'
    BY DEF Disjoint, IdsOf
  <2>. QED  BY <2>1, PTL
<1>. QED  BY <1>1, <1>2, CredsHold, PTL

-----------------------------------------------------------------------------
(***************************************************************************)
(* Clients in Keycloak and the agents that account for them                *)
(***************************************************************************)
\* What a user wrote as client ID is what he may write.
Chosen == \A a \in Agents : /\ Exists(agent[a]) => agent[a].clientId \in Choices[a]
                            /\ Exists(cAgent[a]) => cAgent[a].clientId \in Choices[a]

\* A write of an agent with its client ID unchanged keeps Chosen.
LEMMA PutKeepsChosen ==
  ASSUME Base, Chosen, NEW a \in Agents, NEW new, NEW again, Put(a, new, again),
         Exists(new) => Exists(cAgent[a]) /\ new.clientId = cAgent[a].clientId
  PROVE  Chosen'
<1>1. cAgent' = cAgent /\ (agent' = agent \/ agent' = [agent EXCEPT ![a] = new])
  BY DEF Put, cacheVars
<1>. QED  BY <1>1 DEF Base, TypeOK, Chosen

\* Every step keeps Chosen.
LEMMA NextKeepsChosen == Base /\ Chosen /\ [Next]_vars => Chosen'
<1>. SUFFICES ASSUME Base, Chosen, [Next]_vars PROVE Chosen'
  OBVIOUS
<1>a. TypeOK /\ WorkIsDue
  BY DEF Base
<1>n. ~Exists(NoAgent)
  BY DEF NoAgent, Exists
<1>1. ASSUME UNCHANGED <<agent, cAgent>> PROVE Chosen'
  BY <1>1 DEF Chosen
<1>2. ASSUME NEW a \in Agents, NEW phase, NEW again, SetPhase(a, phase, again) PROVE Chosen'
  <2>. DEFINE new == [cAgent[a] EXCEPT !.phase = phase]
  <2>1. new.uid = cAgent[a].uid /\ new.clientId = cAgent[a].clientId /\ Put(a, new, again)
    BY <1>2, <1>a DEF SetPhase, TypeOK, Agent
  <2>. HIDE DEF new
  <2>. QED  BY <2>1, PutKeepsChosen DEF Exists
<1>3. ASSUME NEW a \in Agents, Serve(a) PROVE Chosen'
  <2>1. CASE AddFinalizer(a)
    <3>. DEFINE new == [cAgent[a] EXCEPT !.finalizer = TRUE]
    <3>1. new.uid = cAgent[a].uid /\ new.clientId = cAgent[a].clientId /\ Put(a, new, TRUE)
      BY <2>1, <1>a DEF AddFinalizer, TypeOK, Agent
    <3>. HIDE DEF new
    <3>. QED  BY <3>1, PutKeepsChosen DEF Exists
  <2>2. CASE StartRegistering(a)
    BY <2>2, <1>2 DEF StartRegistering
  <2>3. CASE NotFound(a) \/ TokenRefused(a) \/ SecretFound(a) \/ CreateClient(a) \/ DeleteClient(a)
    BY <2>3, <1>1 DEF NotFound, TokenRefused, SecretFound, CreateClient, DeleteClient,
                      agentVars, cacheVars
  <2>. QED  BY <1>3, <2>1, <2>2, <2>3 DEF Serve
<1>4. CASE Finish
  <2>0. work.agent \in Agents
    BY <1>4, <1>a DEF Finish, MarkFailed, StoreSecret, Activate, Release, TypeOK
  <2>1. CASE MarkFailed \/ Activate
    BY <2>0, <2>1, <1>2 DEF MarkFailed, Activate
  <2>2. CASE StoreSecret
    BY <2>2, <1>1 DEF StoreSecret, agentVars, cacheVars
  <2>3. CASE Release
    BY <2>0, <2>3, <1>n, PutKeepsChosen DEF Release
  <2>. QED  BY <1>4, <2>1, <2>2, <2>3 DEF Finish
<1>5. ASSUME NEW a \in Agents, SyncAgent(a) \/ SyncSecret(a) PROVE Chosen'
  <2>1. agent' = agent /\ \A b \in Agents : cAgent'[b] \in {cAgent[b], agent[b]}
    BY <1>5, <1>a DEF SyncAgent, SyncSecret, TypeOK, agentVars
  <2>. QED  BY <2>1 DEF Chosen
<1>6. ASSUME NEW a \in Agents, NEW new, ChangeAgent(a, new),
             Exists(new) => new.clientId \in Choices[a]
      PROVE  Chosen'
  BY <1>6, <1>a DEF ChangeAgent, Chosen, TypeOK, cacheVars
<1>7. ASSUME NEW a \in Agents, NEW choice \in Choices[a],
             CreateAgent(a, choice) \/ EditAgent(a, choice)
      PROVE  Chosen'
  <2>1. /\ [NoAgent EXCEPT !.uid = uids[a] + 1, !.clientId = choice].clientId = choice
        /\ [agent[a] EXCEPT !.clientId = choice].clientId = choice
    BY <1>a DEF NoAgent, TypeOK, Agent
  <2>. QED  BY <1>6, <1>7, <2>1 DEF CreateAgent, EditAgent
<1>8. ASSUME NEW a \in Agents, DeleteAgent(a) \/ Suspend(a) PROVE Chosen'
  <2>1. /\ [agent[a] EXCEPT !.deleting = TRUE].clientId = agent[a].clientId
        /\ [agent[a] EXCEPT !.phase = "Suspended"].clientId = agent[a].clientId
        /\ Exists(agent[a])
    BY <1>8, <1>a DEF DeleteAgent, Suspend, TypeOK, Agent
  <2>2. agent[a].clientId \in Choices[a]
    BY <2>1 DEF Chosen
  <2>. QED  BY <1>6, <1>8, <1>n, <2>1, <2>2 DEF DeleteAgent, Suspend
<1>9. ASSUME NEW a \in Agents, CollectSecret(a) \/ LoseSecret(a) PROVE Chosen'
  BY <1>1, <1>9 DEF CollectSecret, LoseSecret, RemoveSecret, agentVars, cacheVars
<1>10. CASE Restart
  BY <1>10 DEF Restart, Chosen
<1>11. CASE UNCHANGED vars
  BY <1>1, <1>11 DEF vars
<1>. QED  BY <1>3, <1>4, <1>5, <1>7, <1>8, <1>9, <1>10, <1>11 DEF Next, Operator, User, Faults

\* No agent that may use this ID is ever edited.
Fixed(id) == \A a \in Agents : id \in IdsOf(a) => \A c, d \in Choices[a] : c = d

LEMMA FixedStays == \A id \in ClientIds : Fixed(id)' <=> Fixed(id)
  BY DEF Fixed, IdsOf

FixedAccountedFor == \A id \in ClientIds : Fixed(id) => AccountedFor(id)
Accounts == ClientsRemoved /\ FixedAccountedFor

\* The ID of an agent that is never edited is the same in every copy of the agent.
LEMMA FixedId ==
  ASSUME NEW a \in Agents, NEW x, NEW y, x.clientId \in Choices[a], y.clientId \in Choices[a],
         Fixed(ClientId(a, x))
  PROVE  x.clientId = y.clientId /\ ClientId(a, x) = ClientId(a, y)
<1>1. ClientId(a, x) \in IdsOf(a)
  BY DEF ClientId, IdsOf
<1>2. x.clientId = y.clientId
  BY <1>1 DEF Fixed
<1>. QED  BY <1>2 DEF ClientId

\* A step that leaves Keycloak and every agent accounting for such a client alone keeps
\* Accounts.
LEMMA QuietKeepsAccounts ==
  ASSUME TypeOK, Accounts, UNCHANGED <<kc, configured, outages>>,
         work'.at = "release" => work' = work /\ cAgent'[work.agent] = cAgent[work.agent],
         \A b \in Agents :
            /\ Exists(agent[b]) /\ agent[b].finalizer /\ kc[ClientId(b, agent[b])] # 0
            /\ Fixed(ClientId(b, agent[b]))
            => /\ Exists(agent'[b]) /\ agent'[b].finalizer
               /\ ClientId(b, agent'[b]) = ClientId(b, agent[b])
  PROVE  Accounts'
<1>1. ClientsRemoved'
  BY DEF Accounts, ClientsRemoved
<1>2. FixedAccountedFor'
  BY FixedStays DEF Accounts, FixedAccountedFor, AccountedFor
<1>. QED  BY <1>1, <1>2 DEF Accounts

\* Put is quiet: it takes only agents away whose client is gone.
LEMMA PutKeepsAccounts ==
  ASSUME Base, Accounts, NEW a \in Agents, NEW new, NEW again \in BOOLEAN,
         Rewrites(a, new), Put(a, new, again), Exists(cAgent[a]),
         new = NoAgent => kc[ClientId(a, cAgent[a])] = 0
  PROVE  Accounts'
<1>1. UNCHANGED <<kc, configured, cAgent>> /\ work'.at # "release"
  BY DEF Put, Idle, keycloakVars, cacheVars
<1>2. UNCHANGED outages
  BY DEF Put, Fault, boundVars
<1>3. \/ UNCHANGED agent
      \/ fresh[a] /\ agent' = [agent EXCEPT ![a] = new]
  BY DEF Put
<1>4. CASE UNCHANGED agent
  BY <1>1, <1>2, <1>4, QuietKeepsAccounts DEF Base
<1>5. CASE fresh[a] /\ agent' = [agent EXCEPT ![a] = new]
  <2>1. /\ agent'[a] = new /\ \A b \in Agents \ {a} : agent'[b] = agent[b]
        /\ cAgent[a] = agent[a]
    BY <1>5 DEF Base, TypeOK, CachesAgree
  <2>2. ~Exists(NoAgent)
    BY DEF NoAgent, Exists
  <2>3. \A b \in Agents :
           Exists(agent[b]) /\ agent[b].finalizer /\ kc[ClientId(b, agent[b])] # 0 =>
              /\ Exists(agent'[b]) /\ agent'[b].finalizer
              /\ ClientId(b, agent'[b]) = ClientId(b, agent[b])
    <3>1. new # NoAgent => /\ Exists(new) /\ (agent[a].finalizer => new.finalizer)
                           /\ ClientId(a, new) = ClientId(a, agent[a])
      BY <2>1 DEF Rewrites, Exists, ClientId
    <3>. QED  BY <2>1, <3>1
  <2>. QED  BY <1>1, <1>2, <2>3, QuietKeepsAccounts DEF Base
<1>. QED  BY <1>3, <1>4, <1>5

\* The worker's steps keep Accounts: a client is made for a protected agent, and gone
\* before its agent is released.
LEMMA OperatorKeepsAccounts == Base /\ Chosen /\ Accounts /\ Operator /\ ~Outage => Accounts'
<1>. SUFFICES ASSUME Base, Chosen, Accounts, Operator, ~Outage PROVE Accounts'
  OBVIOUS
<1>a. /\ TypeOK /\ WorkIsDue /\ HeldSurvives
      /\ ClientsRemoved /\ FixedAccountedFor
  BY DEF Base, Accounts
<1>b. \A b \in Agents : cAgent[b] \in Agent /\ ClientId(b, cAgent[b]) \in ClientIds
  BY <1>a DEF TypeOK, Agent, ClientId
<1>1. ASSUME NEW a \in Agents, NotFound(a) \/ TokenRefused(a) \/ SecretFound(a)
      PROVE  Accounts'
  <2>1. /\ UNCHANGED <<agent, kc, configured, cAgent, outages>>
        /\ work' = work \/ work'.at # "release"
    BY <1>1, <1>a DEF NotFound, TokenRefused, Unsuccessful, SecretFound, Continue, agentVars,
                      cacheVars, keycloakVars, boundVars
  <2>. QED  BY <1>a, <2>1, QuietKeepsAccounts
<1>2. ASSUME NEW a \in Agents, AddFinalizer(a) PROVE Accounts'
  <2>. DEFINE new == [cAgent[a] EXCEPT !.finalizer = TRUE]
  <2>1. Rewrites(a, new) /\ new.uid = cAgent[a].uid
    BY <1>b DEF Agent, Rewrites
  <2>2. Exists(cAgent[a]) /\ Put(a, new, TRUE)
    BY <1>2 DEF AddFinalizer
  <2>3. new # NoAgent
    BY <2>1, <2>2 DEF NoAgent, Exists
  <2>. QED  BY <2>1, <2>2, <2>3, PutKeepsAccounts
<1>3. ASSUME NEW a \in Agents, NEW phase \in Phases, NEW again \in BOOLEAN,
             SetPhase(a, phase, again), Exists(cAgent[a])
      PROVE  Accounts'
  <2>. DEFINE new == [cAgent[a] EXCEPT !.phase = phase]
  <2>1. Rewrites(a, new) /\ new.uid = cAgent[a].uid
    BY <1>b DEF Agent, Rewrites
  <2>2. new # NoAgent
    BY <1>3, <2>1 DEF NoAgent, Exists
  <2>. QED  BY <1>3, <2>1, <2>2, PutKeepsAccounts DEF SetPhase
<1>4. ASSUME NEW a \in Agents, StartRegistering(a) PROVE Accounts'
  BY <1>3, <1>4 DEF StartRegistering, Protected, Phases
<1>5. CASE MarkFailed \/ Activate
  <2>1. work.agent \in Agents /\ Exists(cAgent[work.agent])
    BY <1>5, <1>a DEF MarkFailed, Activate, TypeOK, WorkIsDue
  <2>. QED  BY <1>3, <1>5, <2>1 DEF MarkFailed, Activate, Phases
<1>6. CASE Release
  <2>1. /\ work.agent \in Agents /\ Exists(cAgent[work.agent])
        /\ cAgent[work.agent].deleting /\ kc[ClientId(work.agent, cAgent[work.agent])] = 0
    BY <1>6, <1>a DEF Release, TypeOK, WorkIsDue, ClientsRemoved
  <2>2. Rewrites(work.agent, NoAgent)
    BY <2>1 DEF Rewrites, NoAgent, Agent, Phases
  <2>. QED  BY <1>6, <2>1, <2>2, PutKeepsAccounts DEF Release
<1>7. ASSUME NEW a \in Agents, CreateClient(a) PROVE Accounts'
  <2>. DEFINE id == ClientId(a, cAgent[a])
  <2>1. /\ \A i \in ClientIds : i # id => kc'[i] = kc[i]
        /\ UNCHANGED <<agent, cAgent, configured, outages>> /\ work'.at # "release"
        /\ Exists(cAgent[a]) /\ cAgent[a].finalizer /\ ~cAgent[a].deleting /\ configured
    <3>1. kc' = [kc EXCEPT ![id] = Ensured(id)]
      BY <1>7 DEF CreateClient
    <3>2. Continue(a, "store", kc'[id]) /\ UNCHANGED boundVars
      BY <1>7, <1>a DEF CreateClient
    <3>3. UNCHANGED <<agent, cAgent, configured, outages>> /\ work'.at # "release"
      BY <1>7, <3>2 DEF CreateClient, Continue, agentVars, cacheVars, boundVars
    <3>4. Exists(cAgent[a]) /\ cAgent[a].finalizer /\ ~cAgent[a].deleting /\ configured
      BY <1>7 DEF CreateClient, Registers, Protected
    <3>. HIDE DEF id
    <3>. QED  BY <1>a, <3>1, <3>3, <3>4 DEF TypeOK
  <2>2. Exists(agent[a]) /\ agent[a].finalizer
    BY <1>a, <2>1 DEF HeldSurvives, Exists
  <2>3. Fixed(id) => ClientId(a, agent[a]) = id
    BY <2>1, <2>2, FixedId DEF Chosen
  <2>4. FixedAccountedFor'
    BY <1>a, <2>1, <2>2, <2>3, FixedStays DEF FixedAccountedFor, AccountedFor
  <2>5. ClientsRemoved'
    BY <1>a, <2>1 DEF ClientsRemoved
  <2>. QED  BY <2>4, <2>5 DEF Accounts
<1>8. ASSUME NEW a \in Agents, DeleteClient(a) PROVE Accounts'
  <2>. DEFINE id == ClientId(a, cAgent[a])
  <2>1. /\ \A i \in ClientIds : kc'[i] = kc[i] \/ kc'[i] = 0
        /\ UNCHANGED <<agent, cAgent, configured, outages>>
        /\ work' = [at |-> "release", agent |-> a, key |-> 0]
    <3>1. kc' = kc \/ kc' = [kc EXCEPT ![id] = 0]
      BY <1>8 DEF DeleteClient
    <3>2. /\ UNCHANGED <<agent, cAgent, configured, outages>>
          /\ work' = [at |-> "release", agent |-> a, key |-> 0]
      BY <1>8, <1>a DEF DeleteClient, Continue, agentVars, cacheVars, boundVars
    <3>. HIDE DEF id
    <3>. QED  BY <1>a, <3>1, <3>2 DEF TypeOK
  <2>2. kc'[id] = 0
    BY <1>8, <1>a, <1>b DEF DeleteClient, ClientsRemoved, TypeOK
  <2>3. FixedAccountedFor'
    BY <1>a, <2>1, FixedStays DEF FixedAccountedFor, AccountedFor
  <2>4. ClientsRemoved'
    BY <1>a, <2>1, <2>2 DEF ClientsRemoved
  <2>. QED  BY <2>3, <2>4 DEF Accounts
<1>9. CASE StoreSecret
  <2>1. UNCHANGED <<agent, cAgent, kc, configured>> /\ work'.at # "release"
    BY <1>9 DEF StoreSecret, Continue, Idle, agentVars, cacheVars, keycloakVars
  <2>2. UNCHANGED outages
    BY <1>9 DEF StoreSecret, Fault, boundVars
  <2>. QED  BY <1>a, <2>1, <2>2, QuietKeepsAccounts
<1>. QED  BY <1>1, <1>2, <1>4, <1>5, <1>6, <1>7, <1>8, <1>9 DEF Operator, Serve, Finish

\* Every step keeps Accounts.
LEMMA NextKeepsAccounts == Base /\ Chosen /\ Accounts /\ [Next]_vars /\ ~Outage => Accounts'
<1>. SUFFICES ASSUME Base, Chosen, Accounts, [Next]_vars, ~Outage PROVE Accounts'
  OBVIOUS
<1>a. TypeOK /\ ClientsRemoved /\ FixedAccountedFor
  BY DEF Base, Accounts
<1>n. ~Exists(NoAgent)
  BY DEF NoAgent, Exists
<1>1. CASE Operator
  BY <1>1, OperatorKeepsAccounts
<1>2. ASSUME NEW a \in Agents, SyncAgent(a) \/ SyncSecret(a) PROVE Accounts'
  <2>1. /\ UNCHANGED <<agent, kc, configured, work, outages>>
        /\ \A b \in Agents : cAgent'[b] \in {cAgent[b], agent[b]}
        /\ work.agent \in Agents => cAgent'[work.agent] = cAgent[work.agent]
    BY <1>2, <1>a DEF SyncAgent, SyncSecret, TypeOK, agentVars, keycloakVars, boundVars
  <2>. QED  BY <1>a, <2>1, QuietKeepsAccounts DEF TypeOK
<1>3. ASSUME NEW a \in Agents, NEW new, ChangeAgent(a, new), UNCHANGED outages,
             Exists(agent[a]) /\ agent[a].finalizer /\ Fixed(ClientId(a, agent[a])) =>
                /\ Exists(new) /\ new.finalizer
                /\ ClientId(a, new) = ClientId(a, agent[a])
      PROVE  Accounts'
  <2>1. /\ UNCHANGED <<cAgent, kc, configured, work>>
        /\ agent'[a] = new /\ \A b \in Agents \ {a} : agent'[b] = agent[b]
    BY <1>3, <1>a DEF ChangeAgent, TypeOK, cacheVars, keycloakVars
  <2>. QED  BY <1>3, <1>a, <2>1, QuietKeepsAccounts
<1>4. ASSUME NEW a \in Agents, NEW choice \in Choices[a], CreateAgent(a, choice)
      PROVE  Accounts'
  <2>. DEFINE new == [NoAgent EXCEPT !.uid = uids[a] + 1, !.clientId = choice]
  <2>1. ChangeAgent(a, new) /\ ~Exists(agent[a]) /\ UNCHANGED outages
    BY <1>4 DEF CreateAgent, boundVars
  <2>. HIDE DEF new
  <2>. QED  BY <1>3, <2>1
<1>5. ASSUME NEW a \in Agents, NEW choice \in Choices[a], EditAgent(a, choice)
      PROVE  Accounts'
  <2>. DEFINE new == [agent[a] EXCEPT !.clientId = choice]
  <2>1. new.clientId = choice /\ new.uid = agent[a].uid /\ new.finalizer = agent[a].finalizer
    BY <1>a DEF TypeOK, Agent
  <2>2. /\ ChangeAgent(a, new) /\ Exists(agent[a]) /\ agent[a].clientId # choice
        /\ UNCHANGED outages
    BY <1>5 DEF EditAgent, Fault
  <2>. HIDE DEF new
  <2>3. ~Fixed(ClientId(a, agent[a]))
    BY <2>1, <2>2, FixedId DEF Chosen
  <2>. QED  BY <1>3, <2>2, <2>3
<1>6. ASSUME NEW a \in Agents, NEW new, ChangeAgent(a, new), UNCHANGED outages,
             Exists(agent[a]), new.uid = agent[a].uid, new.clientId = agent[a].clientId,
             new.finalizer = agent[a].finalizer
      PROVE  Accounts'
  BY <1>3, <1>6 DEF Exists, ClientId
<1>7. ASSUME NEW a \in Agents, DeleteAgent(a) PROVE Accounts'
  <2>. DEFINE new == [agent[a] EXCEPT !.deleting = TRUE]
  <2>1. /\ new.uid = agent[a].uid /\ new.clientId = agent[a].clientId
        /\ new.finalizer = agent[a].finalizer
    BY <1>a DEF TypeOK, Agent
  <2>2. /\ Exists(agent[a]) /\ UNCHANGED outages
        /\ \/ agent[a].finalizer /\ ChangeAgent(a, new)
           \/ ~agent[a].finalizer /\ ChangeAgent(a, NoAgent)
    BY <1>7 DEF DeleteAgent, boundVars
  <2>. HIDE DEF new
  <2>3. CASE agent[a].finalizer
    BY <1>6, <2>1, <2>2, <2>3
  <2>4. CASE ~agent[a].finalizer
    BY <1>3, <1>n, <2>2, <2>4
  <2>. QED  BY <2>3, <2>4
<1>8. ASSUME NEW a \in Agents, Suspend(a) PROVE Accounts'
  <2>. DEFINE new == [agent[a] EXCEPT !.phase = "Suspended"]
  <2>1. /\ new.uid = agent[a].uid /\ new.clientId = agent[a].clientId
        /\ new.finalizer = agent[a].finalizer
    BY <1>a DEF TypeOK, Agent
  <2>2. ChangeAgent(a, new) /\ Exists(agent[a]) /\ UNCHANGED outages
    BY <1>8 DEF Suspend, Fault
  <2>. HIDE DEF new
  <2>. QED  BY <1>6, <2>1, <2>2
<1>9. ASSUME NEW a \in Agents, CollectSecret(a) \/ LoseSecret(a) PROVE Accounts'
  <2>1. UNCHANGED <<agent, cAgent, kc, configured, work, outages>>
    BY <1>9 DEF CollectSecret, LoseSecret, RemoveSecret, Fault, agentVars, cacheVars,
                keycloakVars, boundVars
  <2>. QED  BY <1>a, <2>1, QuietKeepsAccounts
<1>10. CASE Restart
  <2>1. /\ UNCHANGED <<agent, kc, configured, outages>> /\ cAgent' = agent
        /\ work'.at # "release"
    BY <1>10, <1>a DEF Restart, Fault, Idle
  <2>. QED  BY <1>a, <2>1, QuietKeepsAccounts
<1>11. CASE UNCHANGED vars
  BY <1>11, <1>a, QuietKeepsAccounts DEF vars
<1>. QED  BY <1>1, <1>2, <1>4, <1>5, <1>7, <1>8, <1>9, <1>10, <1>11 DEF Next, User, Faults

\* Outages are counted, up to their bound, and an outage is the end of Accounts only.
Undisturbed == Chosen /\ outages <= MaxOutages /\ (outages = 0 => Accounts)

LEMMA NextCountsOutages ==
  TypeOK /\ [Next]_vars =>
    \/ outages' = outages /\ ~Outage
    \/ outages < MaxOutages /\ outages' = outages + 1
<1>. SUFFICES ASSUME TypeOK, [Next]_vars
              PROVE  outages' = outages \/ (outages < MaxOutages /\ outages' = outages + 1)
  BY DEF TypeOK, Outage
<1>1. ASSUME Fault \/ UNCHANGED boundVars \/ Outage
      PROVE  outages' = outages \/ (outages < MaxOutages /\ outages' = outages + 1)
  BY <1>1 DEF Fault, Outage, boundVars
<1>2. ASSUME NEW a, NEW new, NEW again, Put(a, new, again) PROVE Fault \/ UNCHANGED boundVars
  BY <1>2 DEF Put
<1>3. ASSUME NEW a \in Agents, Serve(a) PROVE Fault \/ UNCHANGED boundVars \/ Outage
  BY <1>2, <1>3 DEF Serve, NotFound, AddFinalizer, StartRegistering, SetPhase, TokenRefused,
                    SecretFound, CreateClient, DeleteClient
<1>4. CASE Finish
  BY <1>1, <1>2, <1>4 DEF Finish, MarkFailed, StoreSecret, Activate, Release, SetPhase
<1>5. ASSUME NEW a \in Agents, SyncAgent(a) \/ SyncSecret(a) \/ CollectSecret(a)
      PROVE  UNCHANGED boundVars
  BY <1>5 DEF SyncAgent, SyncSecret, CollectSecret
<1>6. CASE User
  BY <1>1, <1>6 DEF User, CreateAgent, EditAgent, DeleteAgent
<1>7. CASE Faults
  BY <1>1, <1>7 DEF Faults, LoseSecret, Suspend, Restart
<1>8. CASE UNCHANGED vars
  BY <1>8 DEF vars
<1>. QED  BY <1>1, <1>3, <1>4, <1>5, <1>6, <1>7, <1>8 DEF Next, Operator

LEMMA UndisturbedHolds == Spec => []Undisturbed
<1>1. Init => Undisturbed
  <2>1. ~Exists(NoAgent)
    BY DEF NoAgent, Exists
  <2>. QED  BY <2>1 DEF Init, Undisturbed, Accounts, Chosen, ClientsRemoved,
                        FixedAccountedFor, AccountedFor, Idle
<1>2. Base /\ Undisturbed /\ [Next]_vars => Undisturbed'
  <2>. SUFFICES ASSUME Base, Undisturbed, [Next]_vars PROVE Undisturbed'
    OBVIOUS
  <2>1. Chosen' /\ outages \in Nat
    BY NextKeepsChosen DEF Undisturbed, Base, TypeOK
  <2>2. CASE outages' = outages /\ ~Outage
    BY <2>1, <2>2, NextKeepsAccounts DEF Undisturbed
  <2>3. CASE outages < MaxOutages /\ outages' = outages + 1
    BY <2>1, <2>3 DEF Undisturbed
  <2>. QED  BY <2>2, <2>3, NextCountsOutages DEF Base
<1>. QED  BY <1>1, <1>2, BaseHolds, PTL DEF Spec

\* Until Keycloak fails a call for the first time, or KEYCLOAK_URL is changed, every client
\* whose ID belongs to agents that are never edited has an agent whose finalizer is going
\* to remove it: none outlives its agent, whatever crashes, conflicts and stale caches
\* there are, and whatever is edited elsewhere (reconcileAgentDelete).
THEOREM FixedClientsAccountedFor ==
  Spec => [](outages = 0 => \A id \in ClientIds : Fixed(id) => AccountedFor(id))
<1>1. Undisturbed => (outages = 0 => \A id \in ClientIds : Fixed(id) => AccountedFor(id))
  BY DEF Undisturbed, Accounts, FixedAccountedFor
<1>. QED  BY <1>1, UndisturbedHolds, PTL

\* Keycloak always answers, and no agent's client ID is ever edited.
Steady == MaxOutages = 0 /\ \A a \in Agents : \A c, d \in Choices[a] : c = d

LEMMA SteadyAccounts == Steady => (Spec => [](ClientsRemoved /\ ClientsAccountedFor))
<1>1. Steady /\ Base /\ Undisturbed => ClientsRemoved /\ ClientsAccountedFor
  BY DEF Steady, Base, TypeOK, Undisturbed, Accounts, FixedAccountedFor, Fixed,
         ClientsAccountedFor
<1>2. Steady => []Steady
  <2>1. Steady => Steady'
    BY DEF Steady
  <2>. QED  BY <2>1, PTL
<1>. QED  BY <1>1, <1>2, BaseHolds, UndisturbedHolds, PTL

\* Then every client has such an agent.
THEOREM ClientsStayAccountedFor == Steady => (Spec => []ClientsAccountedFor)
  BY SteadyAccounts, PTL

\* If moreover no two agents share an ID, the whole invariant that agent_pair checks holds:
\* what the worker carries between its calls (mcpagent_controller.go:58-243) is still good
\* when it is used.
THEOREM InvariantHolds == Disjoint /\ Steady => (Spec => []IInv)
<1>1. Base /\ Creds /\ OwnCredentialsLive /\ ClientsRemoved /\ ClientsAccountedFor => IInv
  BY DEF Creds, IInv
<1>. QED  BY <1>1, BaseHolds, CredsHold, CredentialsStayLive, SteadyAccounts, PTL

-----------------------------------------------------------------------------
(***************************************************************************)
(* Wake-ups.  The worker activates an agent without requeueing it only if  *)
(* there is a Secret, or an event of the Secret is still to come.          *)
(***************************************************************************)
Served(a) == Exists(agent[a]) /\ Unattended(a) =>
    agent[a].phase = "Active" /\ ~agent[a].deleting /\ secret[a].owner # 0
Waits(a) == a \in queued \/ ~seen[a] \/ secret[a].owner # 0
ActivationDue == work.at = "activate" => Waits(work.agent)
Wakes == (\A a \in Agents : Served(a)) /\ ActivationDue

\* A step that takes no key out of the queue and leaves an agent as it was, its Secret and what
\* was delivered of both too, serves it as before, whatever the worker turns to.
LEMMA QuietServes ==
  ASSUME NEW b \in Agents, Served(b), agent'[b] = agent[b], secret'[b] = secret[b],
         fresh'[b] = fresh[b], seen'[b] = seen[b], b \in queued => b \in queued',
         work.at # "idle" /\ work.agent = b => work' = work
  PROVE  Served(b)'
  BY DEF Served, Unattended, Exists

\* Put ends a reconcile: the key is requeued, an event is under way, or the write was no change.
LEMMA PutServes ==
  ASSUME Base, Wakes, NEW a \in Agents, NEW new, NEW again, Put(a, new, again),
         work.at # "idle" => work.agent = a,
         \/ again = TRUE
         \/ ~Exists(new)
         \/ new.phase = "Active" /\ ~new.deleting /\ Waits(a)
  PROVE  Wakes'
<1>1. /\ UNCHANGED <<secret, seen>> /\ work' = Idle /\ queued \subseteq queued'
      /\ \A b \in Agents \ {a} : agent'[b] = agent[b] /\ fresh'[b] = fresh[b]
  <2>1. UNCHANGED <<secret, seen>> /\ work' = Idle /\ queued \subseteq queued'
    BY DEF Put, secretVars
  <2>2. \/ UNCHANGED <<agent, fresh>>
        \/ agent' = [agent EXCEPT ![a] = new] /\ \E f : fresh' = [fresh EXCEPT ![a] = f]
    BY DEF Put
  <2>. QED  BY <2>1, <2>2 DEF Base, TypeOK
<1>2. ActivationDue'
  BY <1>1 DEF ActivationDue, Idle
<1>3. ASSUME NEW b \in Agents, b # a PROVE Served(b)'
  BY <1>1, <1>3, QuietServes DEF Wakes
<1>4. Served(a)'
  <2>1. CASE a \in queued'
    BY <2>1 DEF Served, Unattended
  <2>2. CASE a \notin queued'
    <3>1. again # TRUE /\ queued' = queued /\ agent' = [agent EXCEPT ![a] = new]
      BY <2>2 DEF Put
    <3>2. agent'[a] = new
      BY <3>1 DEF Base, TypeOK
    <3>3. CASE ~Exists(new)
      BY <3>2, <3>3 DEF Served, Exists
    <3>4. CASE new.phase = "Active" /\ ~new.deleting /\ Waits(a)
      BY <1>1, <2>2, <3>1, <3>2, <3>4 DEF Served, Unattended, Waits
    <3>. QED  BY <3>1, <3>3, <3>4
  <2>. QED  BY <2>1, <2>2
<1>. QED  BY <1>2, <1>3, <1>4 DEF Wakes

\* The agent the worker goes on with is served by that.
LEMMA ContinueServes ==
  ASSUME Base, Wakes, NEW a \in Agents, NEW at \in Steps \ {"idle"}, NEW key, Continue(a, at, key),
         work.at # "idle" => work.agent = a,
         \A b \in Agents \ {a} : secret'[b] = secret[b] /\ seen'[b] = seen[b],
         UNCHANGED <<agent, fresh>>,
         at = "activate" => Waits(a)'
  PROVE  Wakes'
<1>1. work'.at = at /\ work'.agent = a /\ \A b \in Agents \ {a} : b \in queued => b \in queued'
  BY DEF Continue
<1>2. ASSUME NEW b \in Agents, b # a PROVE Served(b)'
  BY <1>1, <1>2, QuietServes DEF Wakes
<1>3. Served(a)'
  BY <1>1 DEF Served, Unattended
<1>4. ActivationDue'
  BY <1>1 DEF ActivationDue, Waits
<1>. QED  BY <1>2, <1>3, <1>4 DEF Wakes

\* Every return of Reconcile leaves its agent Active or with a wake-up to come.
LEMMA OperatorServes == Base /\ Wakes /\ Operator => Wakes'
<1>. SUFFICES ASSUME Base, Wakes, Operator PROVE Wakes'
  OBVIOUS
<1>a. TypeOK /\ CachesAgree /\ WorkIsDue
  BY DEF Base
<1>1. ASSUME NEW a \in Agents, NotFound(a) PROVE Wakes'
  <2>1. /\ UNCHANGED <<agent, secret, fresh, seen, work>> /\ queued' = queued \ {a}
        /\ work.at = "idle" /\ ~Exists(cAgent[a])
    BY <1>1 DEF NotFound, Begin, agentVars, secretVars
  <2>2. ASSUME NEW b \in Agents, b # a PROVE Served(b)'
    BY <2>1, <2>2, QuietServes DEF Wakes
  <2>3. Served(a)'
    BY <1>a, <2>1 DEF Served, Unattended, CachesAgree
  <2>. QED  BY <2>1, <2>2, <2>3 DEF Wakes, ActivationDue
<1>2. ASSUME NEW a \in Agents, AddFinalizer(a) \/ StartRegistering(a) PROVE Wakes'
  BY <1>2, PutServes DEF AddFinalizer, StartRegistering, Protected, Begin, SetPhase
<1>3. ASSUME NEW a \in Agents, TokenRefused(a) PROVE Wakes'
  <2>1. PICK at \in {"failed", "hung"} : Continue(a, at, 0)
    BY <1>3 DEF TokenRefused, Unsuccessful
  <2>. QED  BY <1>3, <2>1, ContinueServes
            DEF TokenRefused, Registers, Protected, Begin, Steps, agentVars, secretVars
<1>4. ASSUME NEW a \in Agents, SecretFound(a) PROVE Wakes'
  <2>1. UNCHANGED <<agent, fresh, secret, seen>> /\ Continue(a, "activate", 0) /\ work.at = "idle"
    BY <1>4 DEF SecretFound, Registers, Protected, Begin, agentVars, secretVars
  <2>2. Waits(a)'
    BY <1>4, <1>a, <2>1 DEF SecretFound, CachesAgree, Waits
  <2>. QED  BY <2>1, <2>2, ContinueServes DEF Steps
<1>5. ASSUME NEW a \in Agents, CreateClient(a) PROVE Wakes'
  <2>1. UNCHANGED <<agent, fresh, secret, seen>> /\ work.at = "idle"
    BY <1>5 DEF CreateClient, Registers, Protected, Begin, agentVars, secretVars
  <2>2. PICK at \in {"store", "failed", "hung"} : \E key : Continue(a, at, key)
    BY <1>5 DEF CreateClient, Unsuccessful
  <2>. QED  BY <2>1, <2>2, ContinueServes DEF Steps
<1>6. ASSUME NEW a \in Agents, DeleteClient(a) PROVE Wakes'
  <2>1. PICK at \in {"release", "hung"} : Continue(a, at, 0)
    BY <1>6 DEF DeleteClient
  <2>. QED  BY <1>6, <2>1, ContinueServes DEF DeleteClient, Begin, Steps, agentVars, secretVars
<1>7. CASE Finish
  <2>0. PICK a \in Agents : a = work.agent
    BY <1>7, <1>a DEF Finish, MarkFailed, StoreSecret, Activate, Release, TypeOK
  <2>1. CASE MarkFailed
    BY <2>0, <2>1, PutServes DEF MarkFailed, SetPhase
  <2>2. CASE Activate
    <3>1. Waits(a) /\ ~cAgent[a].deleting
      BY <1>a, <2>0, <2>2 DEF Activate, Wakes, ActivationDue, WorkIsDue
    <3>2. /\ [cAgent[a] EXCEPT !.phase = "Active"].phase = "Active"
          /\ ~[cAgent[a] EXCEPT !.phase = "Active"].deleting
      BY <1>a, <3>1 DEF TypeOK, Agent
    <3>3. Put(a, [cAgent[a] EXCEPT !.phase = "Active"], FALSE)
      BY <2>0, <2>2 DEF Activate, SetPhase
    <3>. QED  BY <2>0, <3>1, <3>2, <3>3, PutServes
  <2>3. CASE Release
    <3>1. ~Exists(NoAgent)
      BY DEF NoAgent, Exists
    <3>. QED  BY <2>0, <2>3, <3>1, PutServes DEF Release
  <2>4. CASE StoreSecret
    <3>. DEFINE built == [owner |-> cAgent[a].uid, id |-> ClientId(a, cAgent[a]),
                          key |-> work.key]
                stored == [secret EXCEPT ![a] = IF @.owner = 0 THEN built ELSE @]
    <3>1. /\ UNCHANGED <<agent, fresh>> /\ secret' \in {secret, stored}
          /\ seen' = [seen EXCEPT ![a] = @ /\ secret' = secret]
          /\ \/ Continue(a, "activate", 0) /\ secret' = stored
             \/ work' = Idle /\ queued' = queued \cup {a}
      BY <2>0, <2>4 DEF StoreSecret, agentVars
    <3>2. cAgent[a].uid # 0
      BY <1>a, <2>0, <2>4 DEF StoreSecret, WorkIsDue, Exists
    <3>3. stored[a].owner # 0 /\ \A b \in Agents \ {a} : stored[b] = secret[b]
      BY <1>a, <3>2 DEF TypeOK
    <3>. HIDE DEF stored
    <3>4. \A b \in Agents \ {a} : secret'[b] = secret[b] /\ seen'[b] = seen[b]
      BY <1>a, <3>1, <3>3 DEF TypeOK
    <3>5. CASE Continue(a, "activate", 0) /\ secret' = stored
      <4>1. Waits(a)'
        BY <3>3, <3>5 DEF Waits
      <4>. QED  BY <2>0, <3>1, <3>4, <3>5, <4>1, ContinueServes DEF Steps
    <3>6. CASE work' = Idle /\ queued' = queued \cup {a}
      <4>1. ASSUME NEW b \in Agents, b # a PROVE Served(b)'
        BY <2>0, <3>1, <3>4, <3>6, <4>1, QuietServes DEF Wakes
      <4>2. Served(a)' /\ ActivationDue'
        BY <3>6 DEF Served, Unattended, ActivationDue, Idle
      <4>. QED  BY <4>1, <4>2 DEF Wakes
    <3>. QED  BY <3>1, <3>5, <3>6
  <2>. QED  BY <1>7, <2>1, <2>2, <2>3, <2>4 DEF Finish
<1>. QED  BY <1>1, <1>2, <1>3, <1>4, <1>5, <1>6, <1>7 DEF Operator, Serve

\* Whatever else happens to an agent or its Secret is an event.
LEMMA NextServes == Base /\ Wakes /\ [Next]_vars => Wakes'
<1>. SUFFICES ASSUME Base, Wakes, [Next]_vars PROVE Wakes'
  OBVIOUS
<1>a. TypeOK
  BY DEF Base
<1>1. CASE Operator
  BY <1>1, OperatorServes
<1>2. ASSUME NEW a \in Agents, UNCHANGED work, queued \subseteq queued',
             a \in queued' \/ (queued' = queued /\ (~fresh'[a] \/ ~seen'[a]))
                \/ UNCHANGED <<agent, secret, fresh, seen>>,
             \A b \in Agents \ {a} : /\ agent'[b] = agent[b] /\ secret'[b] = secret[b]
                                     /\ fresh'[b] = fresh[b] /\ seen'[b] = seen[b],
             Waits(a) => Waits(a)'
      PROVE  Wakes'
  <2>1. ASSUME NEW b \in Agents, b # a PROVE Served(b)' /\ (Waits(b) => Waits(b)')
    <3>1. Served(b)'
      BY <1>2, <2>1, QuietServes DEF Wakes
    <3>2. Waits(b) => Waits(b)'
      BY <1>2, <2>1 DEF Waits
    <3>. QED  BY <3>1, <3>2
  <2>2. Served(a)'
    <3>1. CASE UNCHANGED <<agent, secret, fresh, seen>>
      BY <1>2, <3>1, QuietServes DEF Wakes
    <3>. QED  BY <1>2, <3>1 DEF Served, Unattended
  <2>3. ActivationDue'
    <3>1. work.at = "activate" => work.agent \in Agents
      BY <1>a DEF TypeOK
    <3>2. \A b \in Agents : Waits(b) => Waits(b)'
      BY <1>2, <2>1
    <3>. QED  BY <1>2, <3>1, <3>2 DEF Wakes, ActivationDue, Waits
  <2>. QED  BY <2>1, <2>2, <2>3 DEF Wakes
<1>3. ASSUME NEW a \in Agents, SyncAgent(a) PROVE Wakes'
  BY <1>2, <1>3, <1>a DEF SyncAgent, TypeOK, secretVars, Waits
<1>4. ASSUME NEW a \in Agents, SyncSecret(a) PROVE Wakes'
  BY <1>2, <1>4, <1>a DEF SyncSecret, TypeOK, agentVars, Waits
<1>5. ASSUME NEW a \in Agents, NEW new, ChangeAgent(a, new) PROVE Wakes'
  BY <1>2, <1>5, <1>a DEF ChangeAgent, TypeOK, secretVars, Waits
<1>6. CASE User
  BY <1>5, <1>6 DEF User, CreateAgent, EditAgent, DeleteAgent
<1>7. ASSUME NEW a \in Agents, CollectSecret(a) \/ LoseSecret(a) PROVE Wakes'
  BY <1>2, <1>7, <1>a DEF CollectSecret, LoseSecret, RemoveSecret, TypeOK, agentVars, Waits
<1>8. ASSUME NEW a \in Agents, Suspend(a) PROVE Wakes'
  BY <1>5, <1>8 DEF Suspend
<1>9. CASE Restart
  BY <1>9 DEF Restart, Wakes, Served, Unattended, ActivationDue, Idle
<1>10. CASE UNCHANGED vars
  <2>1. ASSUME NEW b \in Agents PROVE Served(b)'
    BY <1>10, QuietServes DEF vars, Wakes
  <2>2. ActivationDue'
    BY <1>10 DEF vars, Wakes, ActivationDue, Waits
  <2>. QED  BY <2>1, <2>2 DEF Wakes
<1>. QED  BY <1>1, <1>3, <1>4, <1>6, <1>7, <1>8, <1>9, <1>10 DEF Next, Faults

\* No agent is forgotten: one that nothing is going to wake up is Active, not being deleted and
\* has a Secret, although a successful registration requeues nothing
\* (mcpagent_controller.go:58-243).
THEOREM AlwaysAttended == Spec => []Attended
<1>1. Init => Wakes
  <2>1. ~Exists(NoAgent)
    BY DEF NoAgent, Exists
  <2>. QED  BY <2>1 DEF Init, Wakes, Served, ActivationDue, Idle
<1>2. Wakes => Attended
  BY DEF Wakes, Served, Attended
<1>. QED  BY <1>1, <1>2, NextServes, BaseHolds, PTL DEF Spec

-----------------------------------------------------------------------------
(***************************************************************************)
(* Registrations last.                                                     *)
(***************************************************************************)
\* An Active agent exists and has the finalizer, so that its deletion is not yet the end of it.
ActiveProtected == \A a \in Agents :
    agent[a].phase = "Active" => Exists(agent[a]) /\ agent[a].finalizer

\* A write of a phase to a protected agent, or of anything but Active, keeps that.
LEMMA PutKeepsProtected ==
  ASSUME Base, ActiveProtected, NEW a \in Agents, NEW new, NEW again, Put(a, new, again),
         new.phase = "Active" => Exists(new) /\ new.finalizer
  PROVE  ActiveProtected'
<1>1. agent' = agent \/ agent' = [agent EXCEPT ![a] = new]
  BY DEF Put
<1>. QED  BY <1>1 DEF Base, TypeOK, ActiveProtected

\* The worker activates protected agents only.
LEMMA OperatorKeepsProtected == Base /\ ActiveProtected /\ Operator => ActiveProtected'
<1>. SUFFICES ASSUME Base, ActiveProtected, Operator PROVE ActiveProtected'
  OBVIOUS
<1>a. TypeOK /\ WorkIsDue
  BY DEF Base
<1>1. ASSUME UNCHANGED agent PROVE ActiveProtected'
  BY <1>1 DEF ActiveProtected
<1>2. ASSUME NEW a \in Agents, NEW phase, NEW again, SetPhase(a, phase, again),
             phase = "Active" => Exists(cAgent[a]) /\ cAgent[a].finalizer
      PROVE  ActiveProtected'
  <2>. DEFINE new == [cAgent[a] EXCEPT !.phase = phase]
  <2>1. new.phase = phase /\ new.finalizer = cAgent[a].finalizer /\ new.uid = cAgent[a].uid
    BY <1>a DEF TypeOK, Agent
  <2>2. Put(a, new, again)
    BY <1>2 DEF SetPhase
  <2>. HIDE DEF new
  <2>. QED  BY <1>2, <2>1, <2>2, PutKeepsProtected DEF Exists
<1>3. ASSUME NEW a \in Agents, AddFinalizer(a) PROVE ActiveProtected'
  <2>. DEFINE new == [cAgent[a] EXCEPT !.finalizer = TRUE]
  <2>1. new.finalizer = TRUE /\ new.uid = cAgent[a].uid
    BY <1>a DEF TypeOK, Agent
  <2>2. Put(a, new, TRUE) /\ Exists(cAgent[a])
    BY <1>3 DEF AddFinalizer
  <2>. HIDE DEF new
  <2>. QED  BY <2>1, <2>2, PutKeepsProtected DEF Exists
<1>4. ASSUME NEW a \in Agents, Serve(a) PROVE ActiveProtected'
  <2>1. CASE StartRegistering(a)
    BY <1>2, <2>1 DEF StartRegistering
  <2>2. CASE NotFound(a) \/ TokenRefused(a) \/ SecretFound(a) \/ CreateClient(a) \/ DeleteClient(a)
    BY <1>1, <2>2 DEF NotFound, TokenRefused, SecretFound, CreateClient, DeleteClient, agentVars
  <2>. QED  BY <1>3, <1>4, <2>1, <2>2 DEF Serve
<1>5. CASE Finish
  <2>0. PICK a \in Agents : a = work.agent
    BY <1>5, <1>a DEF Finish, MarkFailed, StoreSecret, Activate, Release, TypeOK
  <2>1. CASE MarkFailed
    BY <1>2, <2>0, <2>1 DEF MarkFailed
  <2>2. CASE Activate
    BY <1>a, <1>2, <2>0, <2>2 DEF Activate, WorkIsDue
  <2>3. CASE StoreSecret
    BY <1>1, <2>3 DEF StoreSecret, agentVars
  <2>4. CASE Release
    <3>1. NoAgent.phase # "Active"
      BY DEF NoAgent
    <3>. QED  BY <2>0, <2>4, <3>1, PutKeepsProtected DEF Release
  <2>. QED  BY <1>5, <2>1, <2>2, <2>3, <2>4 DEF Finish
<1>. QED  BY <1>4, <1>5 DEF Operator

\* Nor does anyone else: only a user's deletion touches the life of an agent, and it spares the
\* finalizer.
LEMMA NextKeepsProtected == Base /\ ActiveProtected /\ [Next]_vars => ActiveProtected'
<1>. SUFFICES ASSUME Base, ActiveProtected, [Next]_vars PROVE ActiveProtected'
  OBVIOUS
<1>a. TypeOK
  BY DEF Base
<1>1. ASSUME UNCHANGED agent PROVE ActiveProtected'
  BY <1>1 DEF ActiveProtected
<1>2. ASSUME NEW a \in Agents, NEW new, ChangeAgent(a, new),
             new.phase = "Active" => Exists(new) /\ new.finalizer
      PROVE  ActiveProtected'
  BY <1>2, <1>a DEF ChangeAgent, TypeOK, ActiveProtected
<1>3. ASSUME NEW a \in Agents, NEW choice \in Choices[a], CreateAgent(a, choice)
      PROVE  ActiveProtected'
  <2>1. [NoAgent EXCEPT !.uid = uids[a] + 1, !.clientId = choice].phase = ""
    BY DEF NoAgent
  <2>. QED  BY <1>2, <1>3, <2>1 DEF CreateAgent
<1>4. ASSUME NEW a \in Agents, NEW choice \in Choices[a], EditAgent(a, choice)
      PROVE  ActiveProtected'
  <2>1. /\ [agent[a] EXCEPT !.clientId = choice].phase = agent[a].phase
        /\ [agent[a] EXCEPT !.clientId = choice].finalizer = agent[a].finalizer
        /\ [agent[a] EXCEPT !.clientId = choice].uid = agent[a].uid
    BY <1>a DEF TypeOK, Agent
  <2>. QED  BY <1>2, <1>4, <2>1 DEF EditAgent, ActiveProtected, Exists
<1>5. ASSUME NEW a \in Agents, DeleteAgent(a) \/ Suspend(a) PROVE ActiveProtected'
  <2>1. /\ [agent[a] EXCEPT !.deleting = TRUE].phase = agent[a].phase
        /\ [agent[a] EXCEPT !.deleting = TRUE].finalizer = agent[a].finalizer
        /\ [agent[a] EXCEPT !.deleting = TRUE].uid = agent[a].uid
        /\ [agent[a] EXCEPT !.phase = "Suspended"].phase = "Suspended"
        /\ NoAgent.phase = ""
    BY <1>a DEF TypeOK, Agent, NoAgent
  <2>. QED  BY <1>2, <1>5, <2>1 DEF DeleteAgent, Suspend, ActiveProtected, Exists
<1>6. CASE Operator
  BY <1>6, OperatorKeepsProtected
<1>7. CASE \E a \in Agents : SyncAgent(a) \/ SyncSecret(a) \/ CollectSecret(a) \/ LoseSecret(a)
  BY <1>1, <1>7 DEF SyncAgent, SyncSecret, CollectSecret, LoseSecret, RemoveSecret, agentVars
<1>8. CASE Restart \/ UNCHANGED vars
  BY <1>1, <1>8 DEF Restart, vars
<1>. QED  BY <1>3, <1>4, <1>5, <1>6, <1>7, <1>8 DEF Next, User, Faults

LEMMA ActivesAreProtected == Spec => []ActiveProtected
<1>1. Init => ActiveProtected
  <2>1. NoAgent.phase # "Active"
    BY DEF NoAgent
  <2>. QED  BY <2>1 DEF Init, ActiveProtected
<1>. QED  BY <1>1, NextKeepsProtected, BaseHolds, PTL DEF Spec

\* A registration is lost only with its phase, its Secret or its client.
LEMMA RegisteredStill ==
  ASSUME NEW a \in Agents, Registered(a),
         agent'[a].phase = "Active" /\ agent'[a].uid = agent[a].uid,
         secret'[a] = secret[a], kc'[secret[a].id] = kc[secret[a].id]
  PROVE  Registered(a)'
  BY DEF Registered

\* A write that lands is based on the current copy, so that it loses no registration that it
\* does not mean to end.
LEMMA PutLasts ==
  ASSUME Base, NEW a \in Agents, NEW b \in Agents, NEW new, NEW again, Put(b, new, again),
         Registered(a),
         a = b /\ fresh[b] => new.phase = "Active" /\ new.uid = agent[a].uid
  PROVE  Registered(a)'
<1>1. UNCHANGED <<secret, kc>>
  BY DEF Put, secretVars, keycloakVars
<1>2. agent' = agent \/ (fresh[b] /\ agent' = [agent EXCEPT ![b] = new])
  BY DEF Put
<1>3. agent'[a].phase = "Active" /\ agent'[a].uid = agent[a].uid
  BY <1>2 DEF Base, TypeOK, Registered
<1>. QED  BY <1>1, <1>3, RegisteredStill

\* The worker ends no registration, unless it has just failed to reach Keycloak for it.
LEMMA OperatorLasts ==
  ASSUME Base, Creds, ActiveProtected, NEW a \in Agents, Own(a), Registered(a), Spared(a),
         Operator
  PROVE  Registered(a)'
<1>a. /\ TypeOK /\ CachesAgree /\ WorkIsDue /\ HeldSurvives /\ KeysKnown
      /\ agent[a].phase = "Active" /\ ~agent[a].deleting
      /\ kc[secret[a].id] = secret[a].key /\ secret[a].key # 0
      /\ secret[a].owner = agent[a].uid /\ Exists(agent[a])
  BY DEF Base, Creds, Registered, Spared, ActiveProtected
<1>c. fresh[a] => cAgent[a] = agent[a]
  BY <1>a DEF CachesAgree
<1>1. ASSUME UNCHANGED <<agent, secret, kc>> PROVE Registered(a)'
  BY <1>1 DEF Registered
<1>2. ASSUME NEW b \in Agents, NEW phase, NEW again, SetPhase(b, phase, again),
             a = b /\ fresh[b] => phase = "Active"
      PROVE  Registered(a)'
  <2>. DEFINE new == [cAgent[b] EXCEPT !.phase = phase]
  <2>1. new.phase = phase /\ new.uid = cAgent[b].uid /\ Put(b, new, again)
    BY <1>2, <1>a DEF SetPhase, TypeOK, Agent
  <2>. HIDE DEF new
  <2>. QED  BY <1>2, <1>c, <2>1, PutLasts
<1>3. ASSUME NEW b \in Agents, AddFinalizer(b) PROVE Registered(a)'
  <2>. DEFINE new == [cAgent[b] EXCEPT !.finalizer = TRUE]
  <2>1. new.phase = cAgent[b].phase /\ new.uid = cAgent[b].uid /\ Put(b, new, TRUE)
    BY <1>3, <1>a DEF AddFinalizer, TypeOK, Agent
  <2>. HIDE DEF new
  <2>. QED  BY <1>a, <1>c, <2>1, PutLasts
<1>4. ASSUME NEW b \in Agents, StartRegistering(b) PROVE Registered(a)'
  BY <1>2, <1>4, <1>a, <1>c DEF StartRegistering
<1>5. ASSUME NEW b \in Agents, NotFound(b) \/ TokenRefused(b) \/ SecretFound(b)
      PROVE  Registered(a)'
  BY <1>1, <1>5 DEF NotFound, TokenRefused, SecretFound, agentVars, secretVars, keycloakVars
<1>6. ASSUME NEW b \in Agents, CreateClient(b) PROVE Registered(a)'
  <2>. DEFINE id == ClientId(b, cAgent[b])
  <2>1. kc' = [kc EXCEPT ![id] = Ensured(id)] /\ UNCHANGED <<agent, secret>>
    BY <1>6 DEF CreateClient, agentVars, secretVars
  <2>2. kc[id] # 0 => Ensured(id) = kc[id]
    BY DEF Ensured
  <2>3. kc'[secret[a].id] = kc[secret[a].id]
    BY <1>a, <2>1, <2>2 DEF TypeOK
  <2>. QED  BY <1>a, <2>1, <2>3, RegisteredStill
<1>7. ASSUME NEW b \in Agents, DeleteClient(b) PROVE Registered(a)'
  <2>. DEFINE id == ClientId(b, cAgent[b])
  <2>1. /\ kc' = kc \/ kc' = [kc EXCEPT ![id] = 0]
        /\ UNCHANGED <<agent, secret>>
        /\ Exists(cAgent[b]) /\ cAgent[b].deleting
    BY <1>7 DEF DeleteClient, agentVars, secretVars
  <2>2. secret[a].owner # 0 /\ secret[a].id \in IdsOf(a) /\ secret[a].id \in ClientIds
    BY <1>a DEF KeysKnown, Exists, IdsOf
  <2>3. b # a
    BY <1>a, <2>1, <2>2 DEF HeldSurvives, Exists
  <2>4. cAgent[b].clientId \in Choices[b] \cup {Unset}
    BY <1>a DEF KeysKnown
  <2>5. id \in IdsOf(b)
    BY <2>4, OwnId
  <2>6. secret[a].id # id
    BY <2>2, <2>3, <2>5 DEF Own
  <2>7. kc'[secret[a].id] = kc[secret[a].id]
    BY <1>a, <2>1, <2>2, <2>6 DEF TypeOK
  <2>. QED  BY <1>a, <2>1, <2>7, RegisteredStill
<1>8. CASE Finish
  <2>0. PICK b \in Agents : b = work.agent
    BY <1>8, <1>a DEF Finish, MarkFailed, StoreSecret, Activate, Release, TypeOK
  <2>1. CASE MarkFailed
    BY <1>2, <2>0, <2>1 DEF MarkFailed, Spared
  <2>2. CASE Activate
    BY <1>2, <2>0, <2>2 DEF Activate
  <2>3. CASE Release
    BY <1>a, <1>c, <2>0, <2>3, PutLasts DEF Release, WorkIsDue
  <2>4. CASE StoreSecret
    <3>1. secret[a].owner # 0
      BY <1>a DEF Exists
    <3>2. UNCHANGED <<agent, kc>> /\ secret'[a] = secret[a]
      <4>. DEFINE built == [owner |-> cAgent[b].uid, id |-> ClientId(b, cAgent[b]),
                            key |-> work.key]
                  kept == IF secret[b].owner = 0 THEN built ELSE secret[b]
      <4>1. UNCHANGED <<agent, kc>> /\ (secret' = secret \/ secret' = [secret EXCEPT ![b] = kept])
        BY <2>0, <2>4 DEF StoreSecret, agentVars, keycloakVars
      <4>2. b = a => kept = secret[a]
        BY <3>1
      <4>. HIDE DEF kept
      <4>. QED  BY <1>a, <4>1, <4>2 DEF TypeOK
    <3>. QED  BY <1>a, <3>2, RegisteredStill
  <2>. QED  BY <1>8, <2>1, <2>2, <2>3, <2>4 DEF Finish
<1>. QED  BY <1>3, <1>4, <1>5, <1>6, <1>7, <1>8 DEF Operator, Serve

\* Nor does anything else that is not a fault.
LEMMA NextLasts ==
  ASSUME Base, Creds, ActiveProtected, [Next]_vars,
         NEW a \in Agents, Own(a), Registered(a), Spared(a)
  PROVE  Registered(a)'
<1>a. /\ TypeOK /\ agent[a].phase = "Active" /\ secret[a].owner = agent[a].uid
      /\ secret[a].key # 0 /\ faults' = faults /\ outages' = outages /\ agent[a].finalizer
      /\ Exists(agent[a])
  BY DEF Base, Registered, Spared, ActiveProtected
<1>1. CASE Operator
  BY <1>1, OperatorLasts
<1>2. ASSUME NEW b \in Agents, SyncAgent(b) \/ SyncSecret(b) PROVE Registered(a)'
  BY <1>2 DEF SyncAgent, SyncSecret, agentVars, secretVars, keycloakVars, Registered
<1>3. ASSUME NEW b \in Agents, CollectSecret(b) PROVE Registered(a)'
  <2>1. /\ secret[b].owner # agent[b].uid /\ secret' = [secret EXCEPT ![b] = NoSecret]
        /\ UNCHANGED <<agent, kc>>
    BY <1>3 DEF CollectSecret, RemoveSecret, agentVars, keycloakVars
  <2>2. secret'[a] = secret[a]
    BY <1>a, <2>1 DEF TypeOK
  <2>. QED  BY <1>a, <2>1, <2>2, RegisteredStill
<1>4. ASSUME NEW b \in Agents, NEW new, ChangeAgent(b, new),
             b = a => new.phase = "Active" /\ new.uid = agent[a].uid
      PROVE  Registered(a)'
  <2>1. agent' = [agent EXCEPT ![b] = new] /\ UNCHANGED <<secret, kc>>
    BY <1>4 DEF ChangeAgent, secretVars, keycloakVars
  <2>2. agent'[a].phase = "Active" /\ agent'[a].uid = agent[a].uid
    BY <1>a, <1>4, <2>1 DEF TypeOK
  <2>. QED  BY <2>1, <2>2, RegisteredStill
<1>5. ASSUME NEW b \in Agents, NEW choice \in Choices[b], CreateAgent(b, choice)
      PROVE  Registered(a)'
  <2>1. b # a
    BY <1>5, <1>a DEF CreateAgent, Exists
  <2>. QED  BY <1>4, <1>5, <2>1 DEF CreateAgent
<1>6. ASSUME NEW b \in Agents, DeleteAgent(b) PROVE Registered(a)'
  <2>1. /\ [agent[b] EXCEPT !.deleting = TRUE].phase = agent[b].phase
        /\ [agent[b] EXCEPT !.deleting = TRUE].uid = agent[b].uid
    BY <1>a DEF TypeOK, Agent
  <2>2. b = a => ChangeAgent(b, [agent[b] EXCEPT !.deleting = TRUE])
    BY <1>6, <1>a DEF DeleteAgent
  <2>3. \E new : ChangeAgent(b, new)
    BY <1>6 DEF DeleteAgent
  <2>. QED  BY <1>4, <1>a, <2>1, <2>2, <2>3
<1>7. ~Fault /\ ~Outage
  BY <1>a DEF Fault, Outage, TypeOK, boundVars
<1>8. CASE UNCHANGED vars
  BY <1>8 DEF vars, Registered
<1>. QED  BY <1>1, <1>2, <1>3, <1>5, <1>6, <1>7, <1>8
          DEF Next, User, Faults, EditAgent, LoseSecret, Suspend, Restart

\* Of an agent whose client IDs no other agent may use: once it is registered, nothing but a
\* deletion, a fault or a failure to reach Keycloak for it ends that
\* (mcpagent_controller.go:58-243).
THEOREM OwnRegistrationsLast ==
  Spec => [][\A a \in Agents : Own(a) /\ Registered(a) /\ Spared(a) => Registered(a)']_vars
<1>1. Base /\ Creds /\ ActiveProtected /\ [Next]_vars
        => [\A a \in Agents : Own(a) /\ Registered(a) /\ Spared(a) => Registered(a)']_vars
  BY NextLasts
<1>. QED  BY <1>1, BaseHolds, CredsHold, ActivesAreProtected, PTL DEF Spec

\* If no two agents may use one client ID, all registrations last.
THEOREM RegistrationsLast == Disjoint => (Spec => RegistrationLasts)
<1>1. Disjoint /\ Base /\ Creds /\ ActiveProtected /\ [Next]_vars
        => [\A a \in Agents : Registered(a) /\ Spared(a) => Registered(a)']_vars
  BY NextLasts DEF Disjoint, Own
<1>2. Disjoint => []Disjoint
  <2>1. Disjoint => Disjoint'
    BY DEF Disjoint, IdsOf
  <2>. QED  BY <2>1, PTL
<1>. QED  BY <1>1, <1>2, BaseHolds, CredsHold, ActivesAreProtected, PTL DEF Spec, RegistrationLasts

-----------------------------------------------------------------------------
(***************************************************************************)
(* Refinement: every step, seen through Reg and Stored, is a step of       *)
(* AgentRegistration for one agent or leaves both unchanged.               *)
(***************************************************************************)
\* Only agent a and its Secret change.
OnlyOf(a) == \A b \in Agents : b # a => agent'[b] = agent[b] /\ secret'[b] = secret[b]

\* Then only a is seen to change.
LEMMA SeenOfOne ==
  ASSUME NEW a \in Agents, OnlyOf(a)
  PROVE  /\ Reg[a] = Seen(a) /\ Stored[a] = Credentials(a)
         /\ Reg' = [Reg EXCEPT ![a] = Seen(a)']
         /\ Stored' = [Stored EXCEPT ![a] = Credentials(a)']
<1>1. Reg[a] = Seen(a) /\ Stored[a] = Credentials(a)
  BY DEF Reg, Stored
<1>2. \A b \in Agents : b # a => Seen(b)' = Seen(b) /\ Credentials(b)' = Credentials(b)
  BY DEF OnlyOf, Seen, Credentials
<1>3. Reg' = [Reg EXCEPT ![a] = Seen(a)']
  BY <1>2 DEF Reg
<1>4. Stored' = [Stored EXCEPT ![a] = Credentials(a)']
  BY <1>2 DEF Stored
<1>. QED  BY <1>1, <1>3, <1>4

\* A step that writes neither agents nor Secrets is not seen.
LEMMA UnseenStep ==
  ASSUME UNCHANGED <<agent, secret>>
  PROVE  UNCHANGED Registration!vars
<1>1. \A b \in Agents : Seen(b)' = Seen(b) /\ Credentials(b)' = Credentials(b)
  BY DEF Seen, Credentials
<1>2. Reg' = Reg /\ Stored' = Stored
  BY <1>1 DEF Reg, Stored
<1>. QED  BY <1>2 DEF Registration!vars

\* The agent is still there, with these fields, and so is whatever Secret it has.
LEMMA BecomesSeen ==
  ASSUME NEW a \in Agents, OnlyOf(a), Credentials(a)' = Credentials(a),
         Exists(agent'[a])
  PROVE  Registration!Becomes(a, agent'[a].phase, agent'[a].deleting, agent'[a].finalizer)
<1>1. Seen(a)' = [phase |-> agent'[a].phase, deleting |-> agent'[a].deleting,
                  finalizer |-> agent'[a].finalizer]
  BY DEF Seen
<1>2. Stored' = Stored
  <2>1. Stored' = [Stored EXCEPT ![a] = Stored[a]]
    BY SeenOfOne
  <2>. QED  BY <2>1 DEF Stored
<1>. QED  BY <1>1, <1>2, SeenOfOne DEF Registration!Becomes

\* The agent is gone; what it owned is somebody's who is gone.
LEMMA VanishSeen ==
  ASSUME TypeOK, NEW a \in Agents, OnlyOf(a), secret'[a] = secret[a], ~Exists(agent'[a])
  PROVE  Registration!Vanish(a)
<1>1. Seen(a)' = Registration!Absent
  BY DEF Seen, Registration!Absent
<1>2. Credentials(a)' = IF Credentials(a) = "own" THEN "old" ELSE Credentials(a)
  BY DEF Credentials, Exists
<1>. QED  BY <1>1, <1>2, SeenOfOne DEF Registration!Vanish

\* A write of the worker happens on the current copy or not at all.
LEMMA PutOrNot ==
  ASSUME Base, NEW a \in Agents, NEW new, NEW again, Put(a, new, again)
  PROVE  /\ secret' = secret
         /\ \/ agent' = agent
            \/ /\ agent[a] = cAgent[a] /\ agent'[a] = new
               /\ OnlyOf(a)
<1>1. secret' = secret
  BY DEF Put, secretVars
<1>2. CASE agent' = agent
  BY <1>1, <1>2
<1>3. CASE fresh[a] /\ agent' = [agent EXCEPT ![a] = new]
  <2>1. agent[a] = cAgent[a]
    BY <1>3 DEF Base, CachesAgree
  <2>2. agent'[a] = new /\ OnlyOf(a)
    BY <1>1, <1>3 DEF Base, TypeOK, OnlyOf
  <2>. QED  BY <1>1, <2>1, <2>2
<1>. QED  BY <1>2, <1>3 DEF Put

\* Whether there is an agent, and whether the Secret is its own, is decided by the uid.
LEMMA SameOwner ==
  ASSUME NEW a \in Agents, agent'[a].uid = agent[a].uid, secret'[a] = secret[a]
  PROVE  Credentials(a)' = Credentials(a) /\ (Exists(agent'[a]) <=> Exists(agent[a]))
BY DEF Credentials, Exists

\* What is seen of an agent that exists are its own fields.
LEMMA SeenAgent ==
  ASSUME TypeOK, NEW a \in Agents, Exists(agent[a])
  PROVE  /\ Registration!There(a) /\ Reg[a].phase = agent[a].phase
         /\ Reg[a].deleting = agent[a].deleting /\ Reg[a].finalizer = agent[a].finalizer
<1>1. agent[a].phase # "absent"
  BY DEF TypeOK, Agent, Phases
<1>. QED  BY <1>1 DEF Reg, Seen, Registration!There

\* The worker registers only what is Registering at least.
Started(x) == x.phase # "" /\ x.phase # "Pending"
Registering == work.at \in {"store", "activate", "failed"} => Started(cAgent[work.agent])

\* Every step keeps it: the copy does not change while the worker is at its agent.
LEMMA NextKeepsRegistering ==
  Base /\ Registering /\ [Next]_vars => Registering'
<1>. SUFFICES ASSUME Base, Registering, [Next]_vars PROVE Registering'
  OBVIOUS
<1>1. ASSUME work' = Idle PROVE Registering'
  BY <1>1 DEF Registering, Idle
<1>2. ASSUME UNCHANGED <<work, cAgent>> PROVE Registering'
  BY <1>2 DEF Registering
<1>3. ASSUME NEW a \in Agents, NEW at, NEW key, Continue(a, at, key), cAgent' = cAgent,
             Started(cAgent[a]) \/ at \in {"release", "hung"}
      PROVE  Registering'
  BY <1>3 DEF Registering, Continue
<1>4. ASSUME NEW a, NEW new, NEW again, Put(a, new, again) PROVE Registering'
  BY <1>1, <1>4 DEF Put
<1>5. ASSUME NEW a \in Agents, Serve(a) PROVE Registering'
  <2>1. CASE NotFound(a)
    BY <1>2, <2>1 DEF NotFound, cacheVars
  <2>2. CASE AddFinalizer(a) \/ StartRegistering(a)
    BY <1>4, <2>2 DEF AddFinalizer, StartRegistering, SetPhase
  <2>3. CASE TokenRefused(a) \/ SecretFound(a) \/ CreateClient(a)
    BY <1>3, <2>3 DEF TokenRefused, SecretFound, CreateClient, Registers, Started, cacheVars
  <2>4. CASE DeleteClient(a)
    <3>1. PICK at \in {"release", "hung"} : Continue(a, at, 0)
      BY <2>4 DEF DeleteClient
    <3>. QED  BY <1>3, <2>4, <3>1 DEF DeleteClient, cacheVars
  <2>. QED  BY <1>5, <2>1, <2>2, <2>3, <2>4 DEF Serve
<1>6. CASE MarkFailed \/ Activate \/ Release
  BY <1>4, <1>6 DEF MarkFailed, Activate, Release, SetPhase
<1>7. CASE StoreSecret
  <2>1. work.agent \in Agents /\ Started(cAgent[work.agent])
    BY <1>7 DEF StoreSecret, Base, TypeOK, Registering
  <2>2. cAgent' = cAgent
    BY <1>7 DEF StoreSecret, cacheVars
  <2>3. work' = Idle \/ Continue(work.agent, "activate", 0)
    BY <1>7 DEF StoreSecret
  <2>. QED  BY <1>1, <1>3, <2>1, <2>2, <2>3
<1>8. ASSUME NEW a \in Agents, SyncAgent(a) PROVE Registering'
  BY <1>8 DEF SyncAgent, Registering, Base, TypeOK, Idle
<1>9. ASSUME NEW a \in Agents, SyncSecret(a) \/ CollectSecret(a) \/ LoseSecret(a)
      PROVE  Registering'
  <2>1. cAgent' = cAgent /\ work' = work
    BY <1>9 DEF SyncSecret, CollectSecret, LoseSecret, RemoveSecret, cacheVars
  <2>. QED  BY <1>2, <2>1
<1>10. ASSUME NEW a \in Agents, NEW new, ChangeAgent(a, new) PROVE Registering'
  BY <1>2, <1>10 DEF ChangeAgent, cacheVars
<1>11. CASE User
  BY <1>10, <1>11 DEF User, CreateAgent, EditAgent, DeleteAgent
<1>12. CASE Faults
  BY <1>1, <1>9, <1>10, <1>12 DEF Faults, Suspend, Restart
<1>13. CASE UNCHANGED vars
  BY <1>2, <1>13 DEF vars
<1>. QED  BY <1>5, <1>6, <1>7, <1>8, <1>9, <1>11, <1>12, <1>13
          DEF Next, Operator, Finish

\* At first there are no agents and no credentials.
LEMMA InitRegisters == Init => Registration!Init
<1>1. ~Exists(NoAgent) /\ NoSecret.owner = 0
  BY DEF NoAgent, NoSecret, Exists
<1>. QED  BY <1>1
  DEF Init, Registration!Init, Registration!Absent, Reg, Stored, Seen, Credentials

\* A phase the worker writes: Registering comes first, and only to a protected agent.
LEMMA PhaseSeen ==
  ASSUME Base, NEW a \in Agents, NEW phase, NEW again, SetPhase(a, phase, again),
         Exists(cAgent[a]), cAgent[a].finalizer, ~cAgent[a].deleting,
         \/ phase = "Registering" /\ ~Started(cAgent[a])
         \/ phase \in {"Active", "Failed"} /\ Started(cAgent[a])
  PROVE  [Registration!Next]_(Registration!vars)
<1>. DEFINE new == [cAgent[a] EXCEPT !.phase = phase]
<1>1. new.phase = phase /\ ~new.deleting /\ new.finalizer /\ new.uid = cAgent[a].uid
  BY DEF Base, TypeOK, Agent
<1>2. new.deleting = FALSE /\ new.finalizer = TRUE
  BY DEF Base, TypeOK, Agent
<1>. HIDE DEF new
<1>3. Put(a, new, again)
  BY DEF SetPhase, new
<1>4. CASE agent' = agent /\ secret' = secret
  BY <1>4, UnseenStep
<1>5. CASE agent[a] = cAgent[a] /\ agent'[a] = new /\ OnlyOf(a) /\ secret' = secret
  <2>1. Credentials(a)' = Credentials(a) /\ Exists(agent'[a]) /\ Exists(agent[a])
    BY <1>1, <1>5, SameOwner
  <2>2. Registration!Becomes(a, phase, FALSE, TRUE)
    BY <1>1, <1>2, <1>5, <2>1, BecomesSeen
  <2>3. /\ Registration!Protected(a)
        /\ Reg[a].phase \in Registration!Unregistered <=> ~Started(cAgent[a])
    BY <1>5, <2>1, SeenAgent DEF Base, Registration!Protected, Registration!Unregistered, Started
  <2>4. Registration!Register(a) \/ Registration!Decide(a)
    BY <2>2, <2>3 DEF Registration!Register, Registration!Decide
  <2>. QED  BY <2>4 DEF Registration!Next
<1>. QED  BY <1>3, <1>4, <1>5, PutOrNot

\* The first part of a reconcile is seen as Protect or Register, or not at all.
LEMMA ServeSeen ==
  ASSUME Base, NEW a \in Agents, Serve(a)
  PROVE  [Registration!Next]_(Registration!vars)
<1>1. CASE UNCHANGED <<agent, secret>>
  BY <1>1, UnseenStep
<1>2. CASE AddFinalizer(a)
  <2>. DEFINE new == [cAgent[a] EXCEPT !.finalizer = TRUE]
  <2>1. /\ new.phase = cAgent[a].phase /\ new.deleting = FALSE /\ new.finalizer = TRUE
        /\ new.uid = cAgent[a].uid /\ ~cAgent[a].finalizer /\ ~cAgent[a].deleting
        /\ Exists(cAgent[a])
    BY <1>2 DEF AddFinalizer, Base, TypeOK, Agent
  <2>. HIDE DEF new
  <2>2. Put(a, new, TRUE)
    BY <1>2 DEF AddFinalizer, new
  <2>3. CASE agent[a] = cAgent[a] /\ agent'[a] = new /\ OnlyOf(a) /\ secret' = secret
    <3>1. Credentials(a)' = Credentials(a) /\ Exists(agent'[a]) /\ Exists(agent[a])
      BY <2>1, <2>3, SameOwner
    <3>2. Registration!Becomes(a, agent[a].phase, FALSE, TRUE)
      BY <2>1, <2>3, <3>1, BecomesSeen
    <3>3. Registration!Protect(a)
      BY <2>1, <2>3, <3>1, <3>2, SeenAgent DEF Base, Registration!Protect
    <3>. QED  BY <3>3 DEF Registration!Next
  <2>. QED  BY <1>1, <2>2, <2>3, PutOrNot
<1>3. CASE StartRegistering(a)
  <2>1. /\ Exists(cAgent[a]) /\ cAgent[a].finalizer /\ ~cAgent[a].deleting
        /\ SetPhase(a, "Registering", TRUE) /\ ~Started(cAgent[a])
    BY <1>3 DEF StartRegistering, Protected, Started
  <2>. QED  BY <2>1, PhaseSeen
<1>4. CASE NotFound(a) \/ TokenRefused(a) \/ SecretFound(a) \/ CreateClient(a) \/ DeleteClient(a)
  <2>1. UNCHANGED <<agent, secret>>
    BY <1>4 DEF NotFound, TokenRefused, SecretFound, CreateClient, DeleteClient, agentVars, secretVars
  <2>. QED  BY <2>1, <1>1
<1>. QED  BY <1>2, <1>3, <1>4 DEF Serve

\* The rest is seen as Decide, Store or Release, or not at all.
LEMMA FinishSeen ==
  ASSUME Base, Registering, Finish
  PROVE  [Registration!Next]_(Registration!vars)
<1>0. PICK a \in Agents : a = work.agent
  BY DEF Finish, MarkFailed, StoreSecret, Activate, Release, Base, TypeOK
<1>1. CASE MarkFailed \/ Activate
  <2>1. /\ Exists(cAgent[a]) /\ cAgent[a].finalizer /\ ~cAgent[a].deleting
        /\ Started(cAgent[a])
    BY <1>0, <1>1 DEF MarkFailed, Activate, Base, WorkIsDue, Registering
  <2>2. \/ SetPhase(a, "Failed", TRUE)
        \/ SetPhase(a, "Active", FALSE)
    BY <1>0, <1>1 DEF MarkFailed, Activate
  <2>. QED  BY <1>0, <2>1, <2>2, PhaseSeen
<1>2. CASE StoreSecret
  <2>. DEFINE built == [owner |-> cAgent[a].uid, id |-> ClientId(a, cAgent[a]), key |-> work.key]
  <2>1. /\ Exists(cAgent[a]) /\ cAgent[a].finalizer /\ ~cAgent[a].deleting
        /\ agent[a].uid = cAgent[a].uid /\ agent[a].finalizer /\ Exists(agent[a])
    BY <1>0, <1>2 DEF StoreSecret, Base, WorkIsDue, HeldSurvives, Exists
  <2>2. agent' = agent
    BY <1>2 DEF StoreSecret, agentVars
  <2>3. CASE secret' = secret
    BY <2>2, <2>3, UnseenStep
  <2>4. CASE secret[a].owner = 0 /\ secret' = [secret EXCEPT ![a] = built]
    <3>1. secret'[a].owner = agent'[a].uid /\ agent'[a].uid # 0 /\ OnlyOf(a)
      BY <1>0, <2>1, <2>2, <2>4 DEF Base, TypeOK, OnlyOf, Exists
    <3>2. Credentials(a) = "none" /\ Credentials(a)' = "own" /\ Seen(a)' = Seen(a)
      BY <2>2, <2>4, <3>1 DEF Credentials, Seen
    <3>3. Reg' = Reg
      <4>1. Reg' = [Reg EXCEPT ![a] = Reg[a]]
        BY <1>0, <3>1, <3>2, SeenOfOne
      <4>. QED  BY <4>1 DEF Reg
    <3>4. Registration!Store(a)
      BY <1>0, <2>1, <3>1, <3>2, <3>3, SeenOfOne, SeenAgent DEF Base, Registration!Store
    <3>. QED  BY <1>0, <3>4 DEF Registration!Next
  <2>5. secret' = secret \/ (secret[a].owner = 0 /\ secret' = [secret EXCEPT ![a] = built])
    <3>. DEFINE stored == [secret EXCEPT ![a] = IF @.owner = 0 THEN built ELSE @]
    <3>1. secret' \in {secret, stored}
      BY <1>0, <1>2 DEF StoreSecret
    <3>2. CASE secret[a].owner = 0
      BY <3>1, <3>2
    <3>3. CASE secret[a].owner # 0
      <4>1. stored = secret
        BY <3>3 DEF Base, TypeOK
      <4>. QED  BY <3>1, <4>1
    <3>. QED  BY <3>2, <3>3
  <2>. QED  BY <2>3, <2>4, <2>5
<1>3. CASE Release
  <2>1. Put(a, NoAgent, FALSE) /\ Exists(cAgent[a]) /\ cAgent[a].deleting
    BY <1>0, <1>3 DEF Release, Base, WorkIsDue
  <2>2. CASE UNCHANGED <<agent, secret>>
    BY <2>2, UnseenStep
  <2>3. CASE agent[a] = cAgent[a] /\ agent'[a] = NoAgent /\ OnlyOf(a) /\ secret' = secret
    <3>1. ~Exists(agent'[a])
      <4>1. ~Exists(NoAgent)
        BY DEF NoAgent, Exists
      <4>. QED  BY <2>3, <4>1
    <3>2. Registration!Vanish(a)
      BY <1>0, <2>3, <3>1, VanishSeen DEF Base
    <3>3. Registration!Release(a)
      BY <1>0, <2>1, <2>3, <3>2, SeenAgent DEF Base, Registration!Release
    <3>. QED  BY <1>0, <3>3 DEF Registration!Next
  <2>. QED  BY <1>0, <2>1, <2>2, <2>3, PutOrNot
<1>. QED  BY <1>1, <1>2, <1>3 DEF Finish

\* The next uid is nobody's.
LEMMA NextIsNew == \A m, n \in Nat : m <= n => m # n + 1
  OBVIOUS

\* Somebody else's write is seen as Create, Delete or Suspend; an edit is not seen.
LEMMA UserSeen ==
  ASSUME Base, NEW a \in Agents, NEW new, ChangeAgent(a, new),
         \/ /\ \E c : CreateAgent(a, c)
            /\ Exists(new) /\ new.phase = "" /\ new.deleting = FALSE /\ new.finalizer = FALSE
         \/ /\ Exists(agent[a]) /\ new.uid = agent[a].uid /\ new.finalizer = agent[a].finalizer
            /\ \/ new.deleting = agent[a].deleting /\ new.phase \in {agent[a].phase, "Suspended"}
               \/ /\ ~agent[a].deleting /\ agent[a].finalizer
                  /\ new.deleting = TRUE /\ new.phase = agent[a].phase
         \/ Exists(agent[a]) /\ ~agent[a].deleting /\ ~agent[a].finalizer /\ ~Exists(new)
  PROVE  [Registration!Next]_(Registration!vars)
<1>1. agent'[a] = new /\ OnlyOf(a) /\ secret' = secret
  BY DEF ChangeAgent, secretVars, Base, TypeOK, OnlyOf
<1>b. agent[a].deleting \in BOOLEAN /\ agent[a].finalizer \in BOOLEAN
  BY DEF Base, TypeOK, Agent
<1>2. CASE /\ \E c : CreateAgent(a, c)
           /\ Exists(new) /\ new.phase = "" /\ new.deleting = FALSE /\ new.finalizer = FALSE
  <2>1. PICK c : CreateAgent(a, c)
    BY <1>2
  <2>2. ~Exists(agent[a]) /\ secret[a].owner \in Nat /\ secret[a].owner <= uids[a]
    BY <2>1 DEF CreateAgent, Base, TypeOK, UidsCount, Secret
  <2>3. agent'[a].uid = uids[a] + 1 /\ uids[a] \in Nat
    <3>1. agent' = [agent EXCEPT ![a] = [NoAgent EXCEPT !.uid = uids[a] + 1, !.clientId = c]]
      BY <2>1 DEF CreateAgent, ChangeAgent
    <3>. QED  BY <3>1 DEF Base, TypeOK, NoAgent
  <2>4. Credentials(a)' = Credentials(a)
    <3>1. /\ secret'[a].owner = secret[a].owner /\ agent[a].uid = 0
          /\ secret[a].owner # agent'[a].uid
      <4>1. secret[a].owner # uids[a] + 1
        BY <2>2, <2>3, NextIsNew
      <4>2. secret'[a].owner = secret[a].owner
        BY <1>1
      <4>3. agent[a].uid = 0
        BY <2>2 DEF Exists
      <4>. QED  BY <2>3, <4>1, <4>2, <4>3
    <3>. QED  BY <3>1 DEF Credentials
  <2>5. Registration!Becomes(a, "", FALSE, FALSE)
    BY <1>1, <1>2, <2>4, BecomesSeen
  <2>6. ~Registration!There(a)
    BY <2>2 DEF Registration!There, Reg, Seen
  <2>. QED  BY <2>5, <2>6 DEF Registration!Create, Registration!Next
<1>3. CASE Exists(agent[a]) /\ new.uid = agent[a].uid /\ new.finalizer = agent[a].finalizer
  <2>1. /\ Credentials(a)' = Credentials(a) /\ Exists(agent'[a])
        /\ Registration!Becomes(a, new.phase, new.deleting, new.finalizer)
    BY <1>1, <1>3, SameOwner, BecomesSeen
  <2>2. /\ Registration!There(a) /\ Reg[a].phase = agent[a].phase
        /\ Reg[a].deleting = agent[a].deleting /\ Reg[a].finalizer = agent[a].finalizer
    BY <1>3, SeenAgent DEF Base
  <2>3. CASE new.deleting = agent[a].deleting /\ new.phase = agent[a].phase
    <3>1. Seen(a)' = Seen(a)
      BY <1>1, <1>3, <2>1, <2>3 DEF Seen
    <3>2. Reg' = [Reg EXCEPT ![a] = Reg[a]] /\ Stored' = [Stored EXCEPT ![a] = Stored[a]]
      BY <1>1, <2>1, <3>1, SeenOfOne
    <3>3. Reg' = Reg /\ Stored' = Stored
      BY <3>2 DEF Reg, Stored
    <3>. QED  BY <3>3 DEF Registration!vars
  <2>4. CASE new.deleting = agent[a].deleting /\ new.phase = "Suspended"
    BY <1>3, <2>1, <2>2, <2>4 DEF Registration!Suspend, Registration!Next
  <2>5. CASE /\ ~agent[a].deleting /\ agent[a].finalizer
             /\ new.deleting = TRUE /\ new.phase = agent[a].phase
    <3>1. new.finalizer = TRUE
      BY <1>b, <1>3, <2>5
    <3>2. Registration!Becomes(a, Reg[a].phase, TRUE, TRUE)
      BY <2>1, <2>2, <2>5, <3>1
    <3>3. Registration!Delete(a)
      BY <2>2, <2>5, <3>2 DEF Registration!Delete
    <3>. QED  BY <3>3 DEF Registration!Next
  <2>6. CASE Exists(agent[a]) /\ ~agent[a].deleting /\ ~agent[a].finalizer /\ ~Exists(new)
    BY <1>3, <2>6 DEF Exists
  <2>7. CASE \E c : CreateAgent(a, c)
    BY <1>3, <2>7 DEF CreateAgent
  <2>. QED  BY <2>3, <2>4, <2>5, <2>6, <2>7
<1>4. CASE Exists(agent[a]) /\ ~agent[a].deleting /\ ~agent[a].finalizer /\ ~Exists(new)
  <2>1. Registration!Vanish(a)
    BY <1>1, <1>4, VanishSeen DEF Base
  <2>2. Registration!Delete(a)
    BY <1>4, <2>1, SeenAgent DEF Base, Registration!Delete
  <2>. QED  BY <2>2 DEF Registration!Next
<1>. QED  BY <1>2, <1>3, <1>4

\* Whoever removes the Secret, the credentials are lost.
LEMMA LossSeen ==
  ASSUME Base, NEW a \in Agents, RemoveSecret(a)
  PROVE  [Registration!Next]_(Registration!vars)
<1>1. /\ agent' = agent /\ secret'[a].owner = 0 /\ OnlyOf(a) /\ secret[a].owner # 0
  BY DEF RemoveSecret, agentVars, Base, TypeOK, OnlyOf, NoSecret
<1>2. Credentials(a) # "none" /\ Credentials(a)' = "none" /\ Seen(a)' = Seen(a)
  BY <1>1 DEF Credentials, Seen
<1>3. Reg' = Reg
  <2>1. Reg' = [Reg EXCEPT ![a] = Reg[a]]
    BY <1>1, <1>2, SeenOfOne
  <2>. QED  BY <2>1 DEF Reg
<1>4. Registration!Lose(a)
  BY <1>1, <1>2, <1>3, SeenOfOne DEF Registration!Lose
<1>. QED  BY <1>4 DEF Registration!Next

\* Every step is one of AgentRegistration or is not seen.
LEMMA NextRegisters ==
  Base /\ Registering /\ [Next]_vars => [Registration!Next]_(Registration!vars)
<1>. SUFFICES ASSUME Base, Registering, [Next]_vars
              PROVE  [Registration!Next]_(Registration!vars)
  OBVIOUS
<1>a. \A b \in Agents : agent[b] \in Agent
  BY DEF Base, TypeOK
<1>1. CASE Operator
  BY <1>1, ServeSeen, FinishSeen DEF Operator
<1>2. ASSUME NEW a \in Agents, SyncAgent(a) \/ SyncSecret(a)
      PROVE  [Registration!Next]_(Registration!vars)
  BY <1>2, UnseenStep DEF SyncAgent, SyncSecret, agentVars, secretVars
<1>3. ASSUME NEW a \in Agents, CollectSecret(a) \/ LoseSecret(a)
      PROVE  [Registration!Next]_(Registration!vars)
  BY <1>3, LossSeen DEF CollectSecret, LoseSecret
<1>4. ASSUME NEW a \in Agents, NEW c, CreateAgent(a, c)
      PROVE  [Registration!Next]_(Registration!vars)
  <2>. DEFINE new == [NoAgent EXCEPT !.uid = uids[a] + 1, !.clientId = c]
  <2>1. /\ new.uid = uids[a] + 1 /\ new.phase = ""
        /\ new.deleting = FALSE /\ new.finalizer = FALSE
    BY DEF NoAgent
  <2>2. ChangeAgent(a, new)
    BY <1>4 DEF CreateAgent
  <2>. HIDE DEF new
  <2>3. Exists(new)
    <3>1. uids[a] + 1 # 0
      BY DEF Base, TypeOK
    <3>. QED  BY <2>1, <3>1 DEF Exists
  <2>. QED  BY <1>4, <2>1, <2>2, <2>3, UserSeen
<1>5. ASSUME NEW a \in Agents, NEW c, EditAgent(a, c)
      PROVE  [Registration!Next]_(Registration!vars)
  <2>. DEFINE new == [agent[a] EXCEPT !.clientId = c]
  <2>1. /\ new.uid = agent[a].uid /\ new.phase = agent[a].phase
        /\ new.deleting = agent[a].deleting /\ new.finalizer = agent[a].finalizer
    BY <1>a DEF Agent
  <2>2. ChangeAgent(a, new) /\ Exists(agent[a])
    BY <1>5 DEF EditAgent
  <2>. HIDE DEF new
  <2>. QED  BY <2>1, <2>2, UserSeen
<1>6. ASSUME NEW a \in Agents, DeleteAgent(a)
      PROVE  [Registration!Next]_(Registration!vars)
  <2>1. CASE agent[a].finalizer
    <3>. DEFINE new == [agent[a] EXCEPT !.deleting = TRUE]
    <3>1. /\ new.uid = agent[a].uid /\ new.phase = agent[a].phase
          /\ new.deleting = TRUE /\ new.finalizer = agent[a].finalizer
      BY <1>a DEF Agent
    <3>2. ChangeAgent(a, new) /\ Exists(agent[a]) /\ ~agent[a].deleting
      BY <1>6, <2>1 DEF DeleteAgent
    <3>. HIDE DEF new
    <3>. QED  BY <2>1, <3>1, <3>2, UserSeen
  <2>2. CASE ~agent[a].finalizer
    <3>1. ~Exists(NoAgent)
      BY DEF NoAgent, Exists
    <3>2. ChangeAgent(a, NoAgent) /\ Exists(agent[a]) /\ ~agent[a].deleting
      BY <1>6, <2>2 DEF DeleteAgent
    <3>. QED  BY <2>2, <3>1, <3>2, UserSeen
  <2>. QED  BY <2>1, <2>2
<1>7. ASSUME NEW a \in Agents, Suspend(a)
      PROVE  [Registration!Next]_(Registration!vars)
  <2>. DEFINE new == [agent[a] EXCEPT !.phase = "Suspended"]
  <2>1. /\ new.uid = agent[a].uid /\ new.phase = "Suspended"
        /\ new.deleting = agent[a].deleting /\ new.finalizer = agent[a].finalizer
    BY <1>a DEF Agent
  <2>2. ChangeAgent(a, new) /\ Exists(agent[a])
    BY <1>7 DEF Suspend
  <2>. HIDE DEF new
  <2>. QED  BY <2>1, <2>2, UserSeen
<1>8. CASE Restart \/ UNCHANGED vars
  BY <1>8, UnseenStep DEF Restart, vars
<1>. QED  BY <1>1, <1>2, <1>3, <1>4, <1>5, <1>6, <1>7, <1>8 DEF Next, User, Faults

\* What the reconciler promises, it keeps for any agents, client IDs and bounds, with the
\* stale copies, conflicts, lost answers and restarts there may be: see ImplementsRegistration.
THEOREM RegistrationImplemented == Spec => ImplementsRegistration
<1>1. Init => Registering
  BY DEF Init, Registering, Idle
<1>. QED  BY <1>1, BaseHolds, NextKeepsRegistering, InitRegisters, NextRegisters, PTL
          DEF Spec, ImplementsRegistration, Registration!Spec
=============================================================================
