-------------------------- MODULE CerbosTranslation --------------------------
(***************************************************************************)
(* The translation of an MCPPolicy into a Cerbos resource policy           *)
(* (internal/cerbos/translate.go).  A string is the sequence of the words  *)
(* it is put together from: "tools/call" is <<"tools", "/", "call">>, the  *)
(* role "agent:x" is <<"agent", ":", "x">>.                                *)
(***************************************************************************)
EXTENDS Naturals, Sequences

CONSTANT NoServer   \* spec.rules[i].resources.serverRef left out

Any == <<"*">>

\* strings.ReplaceAll(a, "/", ":")
MapAction(a) == [i \in DOMAIN a |-> IF a[i] = "/" THEN ":" ELSE a[i]]

MapEffect(effect) == IF effect = "ALLOW" THEN "EFFECT_ALLOW" ELSE "EFFECT_DENY"

AgentRole(name) == <<"agent", ":", name>>

\* Mutant: rules that name agents are taken for rules that name nobody.
MapRolesOnly(rule) == IF rule.roles # {} THEN rule.roles ELSE {Any}

\* Roles if there are any, else the agents, else everyone.
MapPrincipals(rule) ==
    IF rule.roles # {} THEN rule.roles
    ELSE IF rule.agentRefs # {} THEN {AgentRole(name) : name \in rule.agentRefs}
    ELSE {Any}

ServerKind(server) == <<"mcp", ":", "server", ":", server>>

\* The resource of the whole policy: that of the first rule which has a serverRef.
ResourceKind(rules) ==
    LET named == {i \in DOMAIN rules : rules[i].server # NoServer}
        first == CHOOSE i \in named : \A j \in named : i <= j
    IN  IF named = {} THEN <<"mcp", ":", "tool">> ELSE ServerKind(rules[first].server)

\* `tools` is the condition on request.resource.attr.tool; there is none if it is empty.
TranslateRule(rule) ==
    [actions |-> {MapAction(a) : a \in rule.actions},
     effect  |-> MapEffect(rule.effect),
     roles   |-> MapPrincipals(rule),
     tools   |-> rule.tools]

\* Never refused: the CRD admits neither an empty list of rules nor another effect.
TranslatePolicy(rules) ==
    [resource |-> ResourceKind(rules),
     rules    |-> [i \in DOMAIN rules |-> TranslateRule(rules[i])]]

-----------------------------------------------------------------------------
(***************************************************************************)
(* A rule as its API type has it: a request is an agent, with the roles of *)
(* its token, that calls a method, on a tool, of a server.  And a rule as  *)
(* Cerbos reads it, asked with a kind of resource, an action, roles and    *)
(* the attribute tool.  How a request becomes such a check is not in the   *)
(* code: nothing in the repository calls Cerbos.                           *)
(***************************************************************************)
Applies(rule, q) ==
    /\ rule.server \in {NoServer, q.server}
    /\ Any \in rule.actions \/ q.method \in rule.actions
    /\ \/ rule.roles \cup rule.agentRefs = {}
       \/ Any \in rule.roles
       \/ q.roles \cap rule.roles # {}
       \/ q.agent \in rule.agentRefs
    /\ rule.tools # {} => q.tool \in rule.tools

Matches(policy, i, check) ==
    LET rule == policy.rules[i]
    IN  /\ policy.resource = check.kind
        /\ {Any, check.action} \cap rule.actions # {}
        /\ ({Any} \cup check.roles) \cap rule.roles # {}
        /\ rule.tools # {} => check.tool \in rule.tools
=============================================================================
