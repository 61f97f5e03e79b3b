---------------------- MODULE MCPPolicyController_proofs ----------------------
(***************************************************************************)
(* Theorems about MCPPolicyController, for all lists of rules, requests    *)
(* and bounds, and about the translation it applies.                       *)
(***************************************************************************)
EXTENDS MCPPolicyController, TLAPS

-----------------------------------------------------------------------------
(***************************************************************************)
(* Types; a copy marked fresh is the stored MCPPolicy; only a policy with  *)
(* the finalizer has been acknowledged.                                    *)
(***************************************************************************)
Consistent == fresh => held = policy

IInv == TypeOK /\ Consistent

\* A write keeps the invariant if what is written is a policy.
LEMMA PutKeepsIInv ==
    ASSUME IInv, NEW new \in Policy \cup {None}, NEW again \in BOOLEAN, Put(new, again)
    PROVE  IInv'
<1>1. policy' \in Policy \cup {None} /\ held' \in Policy \cup {None}
    BY DEF IInv, TypeOK, Put
<1>3. changes' \in Nat /\ faults' \in Nat
    BY DEF IInv, TypeOK, Put, Fault
<1>4. fresh' \in BOOLEAN /\ cerbos' \in BOOLEAN /\ queued' \in BOOLEAN
    BY Zenon DEF IInv, TypeOK, Put
<1>2. Consistent'
    BY DEF IInv, Consistent, Put
<1> QED BY <1>1, <1>2, <1>3, <1>4 DEF IInv, TypeOK

LEMMA ReconcileKeepsIInv == IInv /\ Reconcile => IInv'
<1> SUFFICES ASSUME IInv, Reconcile PROVE IInv'
    OBVIOUS
<1> USE NoneAssumption
<1>0. held \in Policy \cup {None}
    BY DEF IInv, TypeOK
<1>1. CASE NotFound
    BY <1>1 DEF IInv, TypeOK, Consistent, NotFound
<1>2. CASE Release
    BY <1>2, PutKeepsIInv DEF Release
<1>3. CASE AddFinalizer
    <2>1. [held EXCEPT !.finalizer = TRUE] \in Policy
        BY <1>0, <1>3 DEF AddFinalizer, Policy
    <2> QED BY <1>3, <2>1, PutKeepsIInv DEF AddFinalizer
<1>4. CASE Acknowledge
    <2>1. [held EXCEPT !.phase = IF cerbos THEN "Synced" ELSE "Pending",
                       !.id = held.rules] \in Policy
        BY <1>0, <1>4 DEF Acknowledge, Policy, Phases
    <2> QED BY <1>4, <2>1, PutKeepsIInv DEF Acknowledge
<1> QED BY <1>1, <1>2, <1>3, <1>4 DEF Reconcile

LEMMA ChangeKeepsIInv ==
    ASSUME IInv, NEW new \in Policy \cup {None}, Change(new)
    PROVE  IInv'
<1>1. changes' \in Nat /\ faults' \in Nat
    BY DEF IInv, TypeOK, Change
<1>2. fresh' \in BOOLEAN /\ cerbos' \in BOOLEAN /\ queued' \in BOOLEAN /\ ~fresh'
    BY Zenon DEF IInv, TypeOK, Change
<1>3. policy' \in Policy \cup {None} /\ held' \in Policy \cup {None}
    BY DEF IInv, TypeOK, Change
<1> QED BY <1>1, <1>2, <1>3 DEF IInv, TypeOK, Consistent

LEMMA EnvironmentKeepsIInv == IInv /\ Environment => IInv'
<1> SUFFICES ASSUME IInv, Environment PROVE IInv'
    OBVIOUS
<1>0. policy \in Policy \cup {None}
    BY DEF IInv, TypeOK
<1>1. CASE SyncPolicy
    BY <1>1 DEF IInv, TypeOK, Consistent, SyncPolicy
<1>2. ASSUME NEW rules \in RuleLists, CreatePolicy(rules) PROVE IInv'
    <2>1. [rules |-> rules, phase |-> "", id |-> None, deleting |-> FALSE,
           finalizer |-> FALSE] \in Policy
        BY DEF Policy, Phases
    <2> QED BY <1>2, <2>1, ChangeKeepsIInv DEF CreatePolicy
<1>3. ASSUME NEW rules \in RuleLists, EditPolicy(rules) PROVE IInv'
    <2>1. [policy EXCEPT !.rules = rules] \in Policy
        BY <1>0, <1>3 DEF EditPolicy, Policy
    <2> QED BY <1>3, <2>1, ChangeKeepsIInv DEF EditPolicy
<1>4. CASE DeletePolicy
    <2>1. [policy EXCEPT !.deleting = TRUE] \in Policy
        BY <1>0, <1>4 DEF DeletePolicy, Policy
    <2> QED BY <1>4, <2>1, ChangeKeepsIInv DEF DeletePolicy
<1>5. CASE Restart
    BY <1>5 DEF IInv, TypeOK, Consistent, Restart, Fault
<1> QED BY <1>1, <1>2, <1>3, <1>4, <1>5 DEF Environment

\* Every reachable state is well typed, and a fresh copy is the stored policy: what Put's
\* check of the resourceVersion rests on.
THEOREM TypeCorrect == Spec => [](TypeOK /\ Consistent)
<1>1. Init => IInv
    <2> SUFFICES ASSUME Init PROVE IInv
        OBVIOUS
    <2>1. changes \in Nat /\ faults \in Nat
        BY DEF Init
    <2>2. fresh \in BOOLEAN /\ cerbos \in BOOLEAN /\ queued \in BOOLEAN
        BY Zenon DEF Init
    <2>3. policy \in Policy \cup {None} /\ held \in Policy \cup {None} /\ held = policy
        BY DEF Init
    <2> QED BY <2>1, <2>2, <2>3 DEF IInv, TypeOK, Consistent
<1>2. IInv /\ [Next]_vars => IInv'
    <2>1. IInv /\ UNCHANGED vars => IInv'
        BY DEF IInv, TypeOK, Consistent, vars
    <2> QED BY <2>1, ReconcileKeepsIInv, EnvironmentKeepsIInv DEF Next
<1>3. IInv => TypeOK /\ Consistent
    BY DEF IInv
<1> QED BY <1>1, <1>2, <1>3, PTL DEF Spec

-----------------------------------------------------------------------------
(***************************************************************************)
(* What the status acknowledges                                            *)
(***************************************************************************)
AcknowledgesNow ==
    policy' # None /\ policy'.id # None /\ (policy = None \/ policy'.id # policy.id)
      => /\ policy # None /\ policy'.rules = policy.rules
         /\ policy'.id = policy'.rules
         /\ policy'.finalizer /\ ~policy'.deleting

\* Whatever is edited, deleted, created again or lost in between, the status only ever
\* acknowledges the rules that are in force when it is written.
THEOREM AcknowledgesCurrentHolds == Spec => AcknowledgesCurrent
<1>1. IInv /\ [Next]_vars => AcknowledgesNow
    <2> SUFFICES ASSUME IInv, [Next]_vars PROVE AcknowledgesNow
        OBVIOUS
    <2> USE NoneAssumption
    <2>0. /\ policy \in Policy \cup {None} /\ held \in Policy \cup {None}
          /\ fresh => held = policy
        BY DEF IInv, TypeOK, Consistent
    <2>1. CASE policy' = policy
        BY <2>1 DEF AcknowledgesNow
    <2>2. CASE Release
        BY <2>1, <2>2 DEF Release, Put, AcknowledgesNow
    <2>3. CASE AddFinalizer
        BY <2>0, <2>1, <2>3 DEF AddFinalizer, Put, AcknowledgesNow, Policy
    <2>4. CASE Acknowledge
        BY <2>0, <2>1, <2>4 DEF Acknowledge, Put, AcknowledgesNow, Policy
    <2>5. ASSUME NEW rules \in RuleLists, CreatePolicy(rules) PROVE AcknowledgesNow
        BY <2>5 DEF CreatePolicy, Change, AcknowledgesNow
    <2>6. ASSUME NEW rules \in RuleLists, EditPolicy(rules) PROVE AcknowledgesNow
        BY <2>0, <2>6 DEF EditPolicy, Change, AcknowledgesNow, Policy
    <2>7. CASE DeletePolicy
        BY <2>0, <2>7 DEF DeletePolicy, Change, AcknowledgesNow, Policy
    <2>8. CASE NotFound \/ SyncPolicy \/ Restart \/ UNCHANGED vars
        BY <2>1, <2>8 DEF NotFound, SyncPolicy, Restart, vars
    <2> QED BY <2>2, <2>3, <2>4, <2>5, <2>6, <2>7, <2>8 DEF Next, Reconcile, Environment
<1>2. Spec => []IInv
    BY TypeCorrect, PTL DEF IInv
<1> QED BY <1>1, <1>2, PTL DEF Spec, AcknowledgesCurrent, AcknowledgesNow

-----------------------------------------------------------------------------
(***************************************************************************)
(* No wake-up is lost                                                      *)
(***************************************************************************)
\* A write that is done is an event; one that is refused or fails is requeued.
LEMMA PutKeepsAttended ==
    ASSUME NEW new, NEW again, Attended, Put(new, again)
    PROVE  Attended'
BY Zenon DEF Attended, Put

\* A reconcile that finds nothing may drop the key, for its copy is fresh or there is an
\* event to come; every other one ends in a write.
THEOREM AlwaysAttended == Spec => []Attended
<1>1. Init => Attended
    BY DEF Init, Attended
<1>2. IInv /\ Attended /\ [Next]_vars => Attended'
    <2> SUFFICES ASSUME IInv, Attended, [Next]_vars PROVE Attended'
        OBVIOUS
    <2>1. CASE NotFound
        BY <2>1 DEF NotFound, Attended, IInv, Consistent
    <2>2. CASE Release \/ AddFinalizer \/ Acknowledge
        BY <2>2, PutKeepsAttended DEF Release, AddFinalizer, Acknowledge
    <2>3. CASE SyncPolicy
        BY <2>3 DEF SyncPolicy, Attended
    <2>4. ASSUME NEW rules \in RuleLists, CreatePolicy(rules) \/ EditPolicy(rules)
          PROVE  Attended'
        BY <2>4 DEF CreatePolicy, EditPolicy, Change, Attended
    <2>5. CASE DeletePolicy
        BY <2>5 DEF DeletePolicy, Change, Attended
    <2>6. CASE Restart
        BY Zenon, <2>6 DEF Restart, Attended
    <2>7. CASE UNCHANGED vars
        BY <2>7 DEF vars, Attended
    <2> QED BY <2>1, <2>2, <2>3, <2>4, <2>5, <2>6, <2>7 DEF Next, Reconcile, Environment
<1>3. Spec => []IInv
    BY TypeCorrect, PTL DEF IInv
<1> QED BY <1>1, <1>2, <1>3, PTL DEF Spec

-----------------------------------------------------------------------------
(***************************************************************************)
(* The status settles                                                      *)
(***************************************************************************)
\* What Converges says is true in the end.
Settled ==
    policy # None /\ ~policy.deleting =>
        policy.id = policy.rules /\ policy.phase = IF cerbos THEN "Synced" ELSE "Pending"

\* A status that is settled is not unsettled by anything but a user or a fault: the reconciler
\* writes it again and again, and writes the same (mcppolicy_controller.go:79-124).
THEOREM SettledLasts ==
    Spec => [][Settled /\ UNCHANGED <<changes, faults>> => Settled']_vars
<1>1. IInv /\ [Next]_vars => (Settled /\ UNCHANGED <<changes, faults>> => Settled')
    <2> SUFFICES ASSUME IInv, [Next]_vars, Settled, UNCHANGED <<changes, faults>>
                 PROVE  Settled'
        OBVIOUS
    <2>0. /\ policy \in Policy \cup {None} /\ held \in Policy \cup {None}
          /\ fresh => held = policy
          /\ changes \in Nat /\ faults \in Nat
        BY DEF IInv, TypeOK, Consistent
    <2>1. CASE policy' = policy /\ cerbos' = cerbos
        BY <2>1 DEF Settled
    <2>2. CASE Release
        BY <2>1, <2>2 DEF Release, Put, Settled
    <2>3. CASE AddFinalizer
        <3>1. cerbos' = cerbos /\ (policy' = policy \/ (fresh /\ policy' = [held EXCEPT !.finalizer = TRUE]))
            BY <2>3 DEF AddFinalizer, Put
        <3>2. fresh /\ policy' = [held EXCEPT !.finalizer = TRUE] =>
                /\ policy # None /\ policy'.rules = policy.rules /\ policy'.id = policy.id
                /\ policy'.phase = policy.phase /\ policy'.deleting = policy.deleting
            BY <2>0, <2>3 DEF AddFinalizer, Policy
        <3> QED BY <2>1, <3>1, <3>2 DEF Settled
    <2>4. CASE Acknowledge
        <3> DEFINE p == IF cerbos THEN "Synced" ELSE "Pending"
        <3>1. /\ cerbos' = cerbos
              /\ policy' = policy \/ policy' = [held EXCEPT !.phase = p, !.id = held.rules]
            BY <2>4 DEF Acknowledge, Put
        <3>2. policy' = [held EXCEPT !.phase = p, !.id = held.rules] =>
                policy'.phase = p /\ policy'.id = policy'.rules
            BY <2>0, <2>4 DEF Acknowledge, Policy
        <3> QED BY <2>1, <3>1, <3>2 DEF Settled
    <2>5. CASE NotFound \/ SyncPolicy \/ UNCHANGED vars
        BY <2>1, <2>5 DEF NotFound, SyncPolicy, vars
    <2>6. ~(\E rules \in RuleLists : CreatePolicy(rules) \/ EditPolicy(rules)) /\ ~DeletePolicy /\ ~Restart
        <3>1. changes + 1 # changes /\ faults + 1 # faults
            BY <2>0
        <3> QED BY <3>1 DEF CreatePolicy, EditPolicy, DeletePolicy, Change, Restart, Fault
    <2> QED BY <2>2, <2>3, <2>4, <2>5, <2>6 DEF Next, Reconcile, Environment
<1>2. Spec => []IInv
    BY TypeCorrect, PTL DEF IInv
<1> QED BY <1>1, <1>2, PTL DEF Spec

-----------------------------------------------------------------------------
(***************************************************************************)
(* The translation                                                         *)
(***************************************************************************)
\* Translating actions does not confuse two of them.
LEMMA MapActionInjective ==
    ASSUME NEW a, NEW b, Plain(a), Plain(b), MapAction(a) = MapAction(b)
    PROVE  a = b
<1>1. DOMAIN a = DOMAIN b
    BY DEF MapAction
<1>2. ASSUME NEW i \in DOMAIN a PROVE a[i] = b[i]
    BY <1>1, <1>2 DEF MapAction, Plain
<1>3. a = [i \in DOMAIN a |-> a[i]] /\ b = [i \in DOMAIN b |-> b[i]]
    BY DEF Plain
<1> QED BY <1>1, <1>2, <1>3

\* Any is the only action that Any translates to.
LEMMA MapActionAny == ASSUME NEW a, Plain(a) PROVE MapAction(a) = Any <=> a = Any
<1>1. Plain(Any) /\ MapAction(Any) = Any
    <2>1. DOMAIN Any = 1..1 /\ Any[1] = "*" /\ Any = [i \in DOMAIN Any |-> Any[i]]
        BY DEF Any
    <2>2. \A i \in DOMAIN Any : Any[i] # ":" /\ Any[i] # "/"
        BY <2>1
    <2>3. MapAction(Any) = [i \in DOMAIN Any |-> Any[i]]
        BY <2>2 DEF MapAction
    <2> QED BY <2>1, <2>2, <2>3 DEF Plain
<1> QED BY <1>1, MapActionInjective

\* An agent's role is nobody else's, and not a role that is given to people.
LEMMA AgentRoleUnique ==
    /\ \A n, m : AgentRole(n) = AgentRole(m) => n = m
    /\ \A n, role : Plain(role) => role # AgentRole(n)
    /\ \A n : AgentRole(n) # Any
<1>1. \A n : DOMAIN AgentRole(n) = 1..3 /\ AgentRole(n)[2] = ":" /\ AgentRole(n)[3] = n
    BY DEF AgentRole
<1>2. DOMAIN Any = 1..1
    BY DEF Any
<1> QED BY <1>1, <1>2 DEF Plain

\* Different servers are different resources, and none is that of a policy without a server.
LEMMA ResourcesDiffer ==
    /\ \A m, n : ServerKind(m) = ServerKind(n) => m = n
    /\ \A n : ServerKind(n) # <<"mcp", ":", "tool">>
<1>1. \A n : Len(ServerKind(n)) = 5 /\ ServerKind(n)[5] = n
    BY DEF ServerKind
<1>2. Len(<<"mcp", ":", "tool">>) = 3
    OBVIOUS
<1> QED BY <1>1, <1>2

\* A policy is about a server or about "mcp:tool", nothing else.
LEMMA KindsAreNot ==
    /\ \A n : ServerKind(n) # <<"mcp-server">>
    /\ <<"mcp", ":", "tool">> # <<"mcp-server">>
<1>1. \A n : Len(ServerKind(n)) = 5
    BY DEF ServerKind
<1>2. Len(<<"mcp", ":", "tool">>) = 3 /\ Len(<<"mcp-server">>) = 1
    OBVIOUS
<1> QED BY <1>1, <1>2

\* Rule k is the first that names a server: the resource of the policy is that server.
FirstNamed(rules, k) ==
    rules[k].server # NoServer /\ \A j \in DOMAIN rules : j < k => rules[j].server = NoServer

LEMMA ResourceOfFirst ==
    ASSUME NEW rules \in RuleLists, NEW k \in DOMAIN rules, FirstNamed(rules, k)
    PROVE  ResourceKind(rules) = ServerKind(rules[k].server)
<1> DEFINE named == {j \in DOMAIN rules : rules[j].server # NoServer}
           first == CHOOSE i \in named : \A j \in named : i <= j
<1>1. \A j \in DOMAIN rules : j \in Nat
    BY RulesAssumption
<1>2. k \in named /\ \A j \in named : k <= j
    BY <1>1 DEF FirstNamed
<1>3. first \in named /\ \A j \in named : first <= j
    BY <1>2
<1>4. first = k
    <2>1. first \in Nat /\ k \in Nat /\ first <= k /\ k <= first
        BY <1>1, <1>2, <1>3
    <2> HIDE DEF first
    <2> QED BY <2>1
<1>5. ResourceKind(rules) = ServerKind(rules[first].server)
    BY <1>2 DEF ResourceKind
<1> QED BY <1>4, <1>5

\* Everyone a rule names but the agents of a rule that has roles is among the principals, and
\* nobody else.
Agents(rule) == IF rule.roles = {} THEN rule.agentRefs ELSE {}

LEMMA PrincipalsKept ==
    ASSUME NEW rule, NEW q \in Requests, \A role \in rule.roles : Plain(role)
    PROVE  (\/ Any \in MapPrincipals(rule)
            \/ (q.roles \cup {AgentRole(q.agent)}) \cap MapPrincipals(rule) # {})
           <=>
           (\/ rule.roles \cup Agents(rule) = {}
            \/ Any \in rule.roles
            \/ q.roles \cap rule.roles # {}
            \/ q.agent \in Agents(rule))
<1>0. \A role \in q.roles : Plain(role)
    BY RequestsAssumption
<1>1. CASE rule.roles # {}
    <2>1. MapPrincipals(rule) = rule.roles /\ Agents(rule) = {}
        BY <1>1 DEF MapPrincipals, Agents
    <2>2. AgentRole(q.agent) \notin rule.roles
        BY AgentRoleUnique
    <2> QED BY <1>1, <2>1, <2>2
<1>2. CASE rule.roles = {} /\ rule.agentRefs # {}
    <2>1. /\ MapPrincipals(rule) = {AgentRole(name) : name \in rule.agentRefs}
          /\ Agents(rule) = rule.agentRefs
        BY <1>2 DEF MapPrincipals, Agents
    <2>2. Any \notin MapPrincipals(rule) /\ q.roles \cap MapPrincipals(rule) = {}
        BY <1>0, <2>1, AgentRoleUnique
    <2>3. AgentRole(q.agent) \in MapPrincipals(rule) <=> q.agent \in rule.agentRefs
        BY <2>1, AgentRoleUnique
    <2> QED BY <1>2, <2>1, <2>2, <2>3
<1>3. CASE rule.roles = {} /\ rule.agentRefs = {}
    BY <1>3 DEF MapPrincipals, Agents
<1> QED BY <1>1, <1>2, <1>3

LEMMA ActionsKept ==
    ASSUME NEW actions, \A a \in actions : Plain(a), NEW q \in Requests
    PROVE  LET mapped == {MapAction(a) : a \in actions}
           IN  /\ Any \in mapped <=> Any \in actions
               /\ MapAction(q.method) \in mapped <=> q.method \in actions
<1>1. Plain(q.method)
    BY RequestsAssumption
<1> QED BY <1>1, MapActionInjective, MapActionAny

\* What becomes of a rule: it is about the first server that any rule of the list names, and
\* has lost its agents if it names roles too.
Narrowed(rule, server) ==
    [effect |-> rule.effect, roles |-> rule.roles, agentRefs |-> Agents(rule),
     actions |-> rule.actions, server |-> server, tools |-> rule.tools]

NarrowedList(rules, k) == [i \in DOMAIN rules |-> Narrowed(rules[i], rules[k].server)]

\* A list some rule of which names a server is translated as if each rule named the first such
\* server and no rule with roles named agents (translate.go:141-173): what the list says beyond
\* that, Cerbos does not get to know, however it is asked.
THEOREM NarrowedAlike ==
    ASSUME NEW rules \in RuleLists, NEW k \in DOMAIN rules, FirstNamed(rules, k),
           NarrowedList(rules, k) \in RuleLists
    PROVE  TranslatePolicy(rules) = TranslatePolicy(NarrowedList(rules, k))
<1> DEFINE narrowed == NarrowedList(rules, k)
<1>1. DOMAIN narrowed = DOMAIN rules
    BY DEF NarrowedList
<1>2. ASSUME NEW i \in DOMAIN rules
      PROVE  TranslateRule(narrowed[i]) = TranslateRule(rules[i]) /\ narrowed[i].server = rules[k].server
    <2>1. narrowed[i] = Narrowed(rules[i], rules[k].server)
        BY DEF NarrowedList
    <2>2. MapPrincipals(narrowed[i]) = MapPrincipals(rules[i])
        BY <2>1 DEF Narrowed, Agents, MapPrincipals
    <2> QED BY <2>1, <2>2 DEF Narrowed, TranslateRule
<1>3. ResourceKind(narrowed) = ServerKind(rules[k].server)
    <2>1. DOMAIN rules = 1..Len(rules) /\ Len(rules) \in Nat \ {0}
        BY RulesAssumption
    <2>2. 1 \in DOMAIN narrowed /\ narrowed[1].server = rules[k].server /\ FirstNamed(narrowed, 1)
        BY <1>1, <1>2, <2>1 DEF FirstNamed
    <2>3. narrowed \in RuleLists
        OBVIOUS
    <2> HIDE DEF narrowed
    <2> QED BY <2>2, <2>3, ResourceOfFirst
<1>4. ResourceKind(rules) = ResourceKind(narrowed)
    BY <1>3, ResourceOfFirst
<1>5. [i \in DOMAIN rules |-> TranslateRule(rules[i])]
          = [i \in DOMAIN narrowed |-> TranslateRule(narrowed[i])]
    BY <1>1, <1>2
<1> HIDE DEF narrowed
<1>6. TranslatePolicy(rules) = TranslatePolicy(narrowed)
    BY <1>4, <1>5 DEF TranslatePolicy
<1> QED BY <1>6 DEF narrowed

-----------------------------------------------------------------------------
(***************************************************************************)
(* Ways to ask Cerbos                                                      *)
(***************************************************************************)
\* As the translation would have it.  No document describes it.
Mirrored(q) ==
    [kind |-> ServerKind(q.server), action |-> MapAction(q.method),
     roles |-> q.roles \cup {AgentRole(q.agent)}, tool |-> q.tool]

LEMMA MirroredFits ==
    ASSUME NEW rules \in RuleLists, NEW k \in DOMAIN rules, FirstNamed(rules, k),
           NEW i \in DOMAIN rules, NEW q \in Requests
    PROVE  Matches(TranslatePolicy(rules), i, Mirrored(q))
               <=> Applies(Narrowed(rules[i], rules[k].server), q)
<1> DEFINE rule == rules[i]
           translated == TranslatePolicy(rules).rules[i]
           narrowed == Narrowed(rule, rules[k].server)
           check == Mirrored(q)
<1>1. /\ TranslatePolicy(rules).resource = ResourceKind(rules)
      /\ translated.actions = {MapAction(a) : a \in rule.actions}
      /\ translated.roles = MapPrincipals(rule)
      /\ translated.tools = rule.tools
    BY DEF TranslatePolicy, TranslateRule
<1>2. /\ narrowed.server = rules[k].server /\ narrowed.actions = rule.actions
      /\ narrowed.roles = rule.roles /\ narrowed.agentRefs = Agents(rule)
      /\ narrowed.tools = rule.tools
    BY DEF Narrowed
<1>3. /\ \A role \in rule.roles : Plain(role)
      /\ \A a \in rule.actions : Plain(a)
    BY RulesAssumption
<1>4. TranslatePolicy(rules).resource = ServerKind(q.server)
        <=> narrowed.server \in {NoServer, q.server}
    BY <1>1, <1>2, ResourceOfFirst, ResourcesDiffer DEF FirstNamed
<1>5. Any \in translated.actions \/ MapAction(q.method) \in translated.actions
        <=> Any \in narrowed.actions \/ q.method \in narrowed.actions
    BY <1>1, <1>2, <1>3, ActionsKept
<1>6. (\/ Any \in translated.roles
       \/ (q.roles \cup {AgentRole(q.agent)}) \cap translated.roles # {})
      <=>
      (\/ narrowed.roles \cup narrowed.agentRefs = {}
       \/ Any \in narrowed.roles
       \/ q.roles \cap narrowed.roles # {}
       \/ q.agent \in narrowed.agentRefs)
    BY <1>1, <1>2, <1>3, PrincipalsKept
<1>7. /\ check.kind = ServerKind(q.server) /\ check.action = MapAction(q.method)
      /\ check.roles = q.roles \cup {AgentRole(q.agent)} /\ check.tool = q.tool
    BY DEF Mirrored
<1> HIDE DEF translated, narrowed, check
<1>8. {Any, check.action} \cap translated.actions # {}
        <=> Any \in translated.actions \/ MapAction(q.method) \in translated.actions
    BY <1>7
<1>9. ({Any} \cup check.roles) \cap translated.roles # {}
        <=> \/ Any \in translated.roles
            \/ (q.roles \cup {AgentRole(q.agent)}) \cap translated.roles # {}
    BY <1>7
<1> QED BY <1>1, <1>2, <1>4, <1>5, <1>6, <1>7, <1>8, <1>9 DEF Matches, Applies, translated, narrowed, check

LEMMA UniformFits ==
    ASSUME NEW rules \in RuleLists, Uniform(rules), NEW i \in DOMAIN rules, NEW q \in Requests
    PROVE  Matches(TranslatePolicy(rules), i, Mirrored(q)) <=> Applies(rules[i], q)
<1>1. 1 \in DOMAIN rules /\ FirstNamed(rules, 1)
    <2>1. DOMAIN rules = 1..Len(rules) /\ Len(rules) \in Nat \ {0}
        BY RulesAssumption
    <2> QED BY <2>1 DEF Uniform, FirstNamed
<1>2. Applies(Narrowed(rules[i], rules[1].server), q) <=> Applies(rules[i], q)
    <2>1. Agents(rules[i]) = rules[i].agentRefs /\ rules[1].server = rules[i].server
        BY DEF Uniform, Agents
    <2> QED BY <2>1 DEF Applies, Narrowed
<1> QED BY <1>1, <1>2, MirroredFits

\* There is a way to turn requests into checks with which every translated rule of every list
\* about one server applies to exactly the requests it was written for (translate.go:80-191).
THEOREM SomeWayFits ==
    \E check \in [Requests -> {Mirrored(q) : q \in Requests}] :
        \A rules \in RuleLists : Uniform(rules) =>
            \A i \in DOMAIN rules, q \in Requests :
                Matches(TranslatePolicy(rules), i, check[q]) <=> Applies(rules[i], q)
<1> DEFINE check == [q \in Requests |-> Mirrored(q)]
<1>1. check \in [Requests -> {Mirrored(q) : q \in Requests}]
    OBVIOUS
<1>2. ASSUME NEW rules \in RuleLists, Uniform(rules), NEW i \in DOMAIN rules, NEW q \in Requests
      PROVE  Matches(TranslatePolicy(rules), i, check[q]) <=> Applies(rules[i], q)
    BY <1>2, UniformFits
<1> QED BY <1>1, <1>2

\* As docs/security.md:65-69 has it: kind "mcp-server", the MCP method, the roles of the token.
Documented(q) ==
    [kind |-> <<"mcp-server">>, action |-> q.method, roles |-> q.roles, tool |-> q.tool]

\* Asked like this, no translated rule ever applies: each policy is about another kind of
\* resource.  Nor would the right kind be enough: a method with "/" is no action of a rule, and
\* an agent that a rule names is none of its roles (translate.go:97, 146-173).
THEOREM DocumentedNeverMatches ==
    ASSUME NEW rules \in RuleLists, NEW i \in DOMAIN rules, NEW q \in Requests
    PROVE  LET cerbosPolicy == TranslatePolicy(rules)
           IN  /\ ~Matches(cerbosPolicy, i, Documented(q))
               /\ cerbosPolicy.resource # Documented(q).kind
               /\ (\E j \in DOMAIN q.method : q.method[j] = "/") =>
                      Documented(q).action \notin cerbosPolicy.rules[i].actions
               /\ rules[i].roles = {} /\ rules[i].agentRefs # {} =>
                      ({Any} \cup Documented(q).roles) \cap cerbosPolicy.rules[i].roles = {}
<1> DEFINE cerbosPolicy == TranslatePolicy(rules)
<1>1. /\ cerbosPolicy.resource = ResourceKind(rules)
      /\ cerbosPolicy.rules[i].actions = {MapAction(a) : a \in rules[i].actions}
      /\ cerbosPolicy.rules[i].roles = MapPrincipals(rules[i])
    BY DEF TranslatePolicy, TranslateRule
<1>2. /\ Documented(q).kind = <<"mcp-server">> /\ Documented(q).action = q.method
      /\ Documented(q).roles = q.roles
    BY DEF Documented
<1>3. ResourceKind(rules) # <<"mcp-server">>
    BY KindsAreNot DEF ResourceKind
<1>4. ASSUME NEW j \in DOMAIN q.method, q.method[j] = "/", NEW a \in rules[i].actions
      PROVE  q.method # MapAction(a)
    <2>1. SUFFICES ASSUME q.method = MapAction(a) PROVE FALSE
        OBVIOUS
    <2>2. j \in DOMAIN a /\ MapAction(a)[j] # "/"
        BY <1>4, <2>1 DEF MapAction
    <2> QED BY <1>4, <2>1, <2>2
<1>5. ASSUME rules[i].roles = {}, rules[i].agentRefs # {}
      PROVE  ({Any} \cup q.roles) \cap MapPrincipals(rules[i]) = {}
    <2>1. MapPrincipals(rules[i]) = {AgentRole(name) : name \in rules[i].agentRefs}
        BY <1>5 DEF MapPrincipals
    <2>2. \A role \in q.roles : Plain(role)
        BY RequestsAssumption
    <2> QED BY <2>1, <2>2, AgentRoleUnique
<1> HIDE DEF cerbosPolicy
<1>6. cerbosPolicy.resource # Documented(q).kind
    BY <1>1, <1>2, <1>3
<1>7. ~Matches(cerbosPolicy, i, Documented(q))
    BY <1>6 DEF Matches
<1>8. (\E j \in DOMAIN q.method : q.method[j] = "/") =>
          Documented(q).action \notin cerbosPolicy.rules[i].actions
    BY <1>1, <1>2, <1>4
<1>9. rules[i].roles = {} /\ rules[i].agentRefs # {} =>
          ({Any} \cup Documented(q).roles) \cap cerbosPolicy.rules[i].roles = {}
    BY <1>1, <1>2, <1>5
<1> QED BY <1>6, <1>7, <1>8, <1>9 DEF cerbosPolicy

\* As docs/implementation/phase-3-agent-rbac.md:1060-1070 planned it: kind "mcp:tool", the mapped
\* action, one role for every agent; the tool is the resource's name, not its attribute.
Planned(q) ==
    [kind |-> <<"mcp", ":", "tool">>, action |-> MapAction(q.method), roles |-> {<<"mcp-agent">>},
     tool |-> NoServer]

\* Asked like this, no rule of a list about servers applies, and no rule for named agents
\* (translate.go:146-173).
THEOREM PlannedNeverMatches ==
    ASSUME NEW rules \in RuleLists, NEW i \in DOMAIN rules, NEW q \in Requests,
           \/ \E k \in DOMAIN rules : FirstNamed(rules, k)
           \/ rules[i].roles = {} /\ rules[i].agentRefs # {}
    PROVE  ~Matches(TranslatePolicy(rules), i, Planned(q))
<1> DEFINE cerbosPolicy == TranslatePolicy(rules)
<1>1. /\ cerbosPolicy.resource = ResourceKind(rules)
      /\ cerbosPolicy.rules[i].roles = MapPrincipals(rules[i])
    BY DEF TranslatePolicy, TranslateRule
<1>2. Planned(q).kind = <<"mcp", ":", "tool">> /\ Planned(q).roles = {<<"mcp-agent">>}
    BY DEF Planned
<1> HIDE DEF cerbosPolicy
<1>3. ASSUME NEW k \in DOMAIN rules, FirstNamed(rules, k) PROVE ~Matches(cerbosPolicy, i, Planned(q))
    <2>1. cerbosPolicy.resource # Planned(q).kind
        BY <1>1, <1>2, <1>3, ResourceOfFirst, ResourcesDiffer
    <2> QED BY <2>1 DEF Matches
<1>4. ASSUME rules[i].roles = {}, rules[i].agentRefs # {} PROVE ~Matches(cerbosPolicy, i, Planned(q))
    <2>1. MapPrincipals(rules[i]) = {AgentRole(name) : name \in rules[i].agentRefs}
        BY <1>4 DEF MapPrincipals
    <2>2. \A n : AgentRole(n) # <<"mcp-agent">> /\ AgentRole(n) # Any
        <3>1. \A n : Len(AgentRole(n)) = 3
            BY DEF AgentRole
        <3>2. Len(<<"mcp-agent">>) = 1
            OBVIOUS
        <3> QED BY <3>1, <3>2, AgentRoleUnique
    <2>3. ({Any} \cup Planned(q).roles) \cap cerbosPolicy.rules[i].roles = {}
        BY <1>1, <1>2, <2>1, <2>2
    <2> QED BY <2>3 DEF Matches
<1> QED BY <1>3, <1>4 DEF cerbosPolicy

\* A policy no rule of which names a server and one some rule of which does are never consulted
\* for the same check, in whatever way requests are turned into checks: the first is about
\* "mcp:tool", so what is written for every server does not come on top of what is written
\* for one (translate.go:164-173).
THEOREM NeverTogether ==
    ASSUME NEW general \in RuleLists, \A j \in DOMAIN general : general[j].server = NoServer,
           NEW rules \in RuleLists, NEW k \in DOMAIN rules, FirstNamed(rules, k),
           NEW i \in DOMAIN general, NEW j \in DOMAIN rules, NEW check
    PROVE  ~(Matches(TranslatePolicy(general), i, check) /\ Matches(TranslatePolicy(rules), j, check))
<1>1. TranslatePolicy(general).resource = <<"mcp", ":", "tool">>
    BY DEF TranslatePolicy, ResourceKind
<1>2. TranslatePolicy(rules).resource = ServerKind(rules[k].server)
    BY ResourceOfFirst DEF TranslatePolicy
<1> QED BY <1>1, <1>2, ResourcesDiffer DEF Matches

-----------------------------------------------------------------------------
(***************************************************************************)
(* The translation keeps the meaning of rules about one server.            *)
(***************************************************************************)
LEMMA SameMeaningOfSame ==
    ASSUME NEW rules \in RuleLists, NEW others \in RuleLists, Uniform(rules), Uniform(others),
           TranslatePolicy(rules) = TranslatePolicy(others), NEW i \in DOMAIN rules
    PROVE  SameMeaning(rules[i], others[i])
<1>1. /\ TranslatePolicy(rules).rules = [j \in DOMAIN rules |-> TranslateRule(rules[j])]
      /\ TranslatePolicy(others).rules = [j \in DOMAIN others |-> TranslateRule(others[j])]
    BY DEF TranslatePolicy
<1>2. DOMAIN rules = DOMAIN others
    BY <1>1
<1>3. TranslateRule(rules[i]) = TranslateRule(others[i])
    BY <1>1, <1>2
<1>4. rules[i].effect = others[i].effect
    <2>1. MapEffect(rules[i].effect) = MapEffect(others[i].effect)
        BY <1>3 DEF TranslateRule
    <2>2. rules[i].effect \in {"ALLOW", "DENY"} /\ others[i].effect \in {"ALLOW", "DENY"}
        BY <1>2, RulesAssumption
    <2> QED BY <2>1, <2>2 DEF MapEffect
<1>5. ASSUME NEW q \in Requests PROVE Applies(rules[i], q) <=> Applies(others[i], q)
    BY <1>2, UniformFits
<1> QED BY <1>4, <1>5 DEF SameMeaning

\* Two lists of rules about one server that are translated alike mean the same, rule by rule:
\* whatever methods, roles, agents, tools and servers there are.  So the Cerbos policy of what
\* the status acknowledges has all that its rules say.
THEOREM MeaningKeptHolds == Spec => []MeaningKept
<1>1. IInv => MeaningKept
    <2> SUFFICES ASSUME IInv, policy # None, policy.id # None, Uniform(policy.id),
                        NEW rules \in RuleLists, Uniform(rules),
                        TranslatePolicy(rules) = TranslatePolicy(policy.id), NEW i \in DOMAIN rules
                 PROVE  SameMeaning(rules[i], policy.id[i])
        BY DEF MeaningKept
    <2>1. policy.id \in RuleLists
        BY DEF IInv, TypeOK, Policy
    <2> QED BY <2>1, SameMeaningOfSame
<1>2. Spec => []IInv
    BY TypeCorrect, PTL DEF IInv
<1> QED BY <1>1, <1>2, PTL
=============================================================================
