------------------------ MODULE MCMCPPolicyController ------------------------
(***************************************************************************)
(* Rules and requests for the model checker: two servers, two tools, two   *)
(* methods, an agent with a role and one without.                          *)
(***************************************************************************)
EXTENDS MCPPolicyController

Call == <<"tools", "/", "call">>
List == <<"tools", "/", "list">>
Dev  == <<"dev">>

RuleFor(effect, roles, agentRefs, actions, server, tools) ==
    [effect |-> effect, roles |-> roles, agentRefs |-> agentRefs, actions |-> actions,
     server |-> server, tools |-> tools]

Read   == RuleFor("ALLOW", {Dev}, {}, {Call, List}, "s1", {"read"})
NoBot  == RuleFor("DENY", {}, {"bot"}, {Call}, "s1", {"drop", "read"})
Open   == RuleFor("ALLOW", {}, {}, {Any}, "s1", {})
\* As Open and Read, but for one agent, one method or any tool.
OpenBot == [Open EXCEPT !.agentRefs = {"bot"}]
Narrow  == [Read EXCEPT !.actions = {Call}]
AnyTool == [Read EXCEPT !.tools = {}]
Other  == RuleFor("DENY", {Dev}, {}, {Call}, "s2", {})
Listed == RuleFor("ALLOW", {Dev}, {"bot"}, {List}, NoServer, {})

Lists == {<<Read>>, <<Narrow>>, <<AnyTool>>, <<NoBot>>, <<Listed>>, <<Open, NoBot>>,
          <<OpenBot, NoBot>>, <<NoBot, Open, Read>>, <<Read, Other>>, <<Listed, Other>>}

AllRequests ==
    [method : {Call, List}, agent : {"bot", "web"}, roles : {{}, {Dev}},
     server : {"s1", "s2"}, tool : {"read", "drop"}]
=============================================================================
