----------------------------- MODULE Marketplace -----------------------------
(***************************************************************************)
(* Deployments from the catalog (internal/marketplace): several callers    *)
(* run DeployFromCatalog for one entry and namespace at the same time, one *)
(* API call after the other, while the catalog is changed and servers are  *)
(* deleted.  The Secret "<entry>-secrets", the MCPServer "<entry>" and the *)
(* MCPPolicy "<entry>-policy" have fixed names and no owner.               *)
(***************************************************************************)
EXTENDS CerbosTranslation

CONSTANTS
    Callers,       \* whoever runs DeployFromCatalog; a caller's values are its own
    Entries,       \* versions of the entry
    SecretKeys,
    Name,          \* name of the entry and the server
    None,          \* no entry, Secret, MCPServer, MCPPolicy, default policy
    MaxCalls,      \* bound: deployments
    MaxChanges,    \* bound: changes of the catalog
    MaxDeletions,  \* bound: deletions of the server
    MaxFaults      \* bound: calls that fail or lose their answer, and lost callers

\* A template asks for `required` keys, and its MCPServerSpec may itself refer to keys (`declared`).
ASSUME EntriesAssumption ==
    \A e \in Entries : e.required \subseteq SecretKeys /\ e.declared \subseteq SecretKeys
ASSUME MarketplaceBoundsAssumption ==
    MaxCalls \in Nat /\ MaxChanges \in Nat /\ MaxDeletions \in Nat /\ MaxFaults \in Nat
VARIABLES
    catalog,   \* what the CatalogStore holds under the name
    secret,    \* secret[k]: who provided the value of key k; no keys if it does not exist
    server,    \* the MCPServer: its entry, the secret keys it refers to, who made it
    policy,    \* the MCPPolicy's rules
    call,      \* call[c]: where c's deployment is, its copy of the entry, the secrets given
    got,       \* got[c]: the Secret as c's Get returned it
    current,   \* current[c]: that is still its resourceVersion
    calls, changes, deletions, faults

objects == <<secret, server, policy>>
bounds  == <<calls, changes, deletions, faults>>
vars    == <<catalog, secret, server, policy, call, got, current, calls, changes, deletions,
             faults>>

Steps   == {"idle", "get", "put", "server", "policy", "ok", "failed"}
Running == {"get", "put", "server", "policy"}
Secret  == UNION {[keys -> Callers] : keys \in SUBSET SecretKeys}
Absent  == [k \in {} |-> None]
Idle    == [at |-> "idle", entry |-> None, given |-> {}]

\* The default policy's tools become the actions of rules for everyone.
PolicyRule(effect, actions) ==
    [effect |-> effect, roles |-> {}, agentRefs |-> {}, actions |-> actions,
     server |-> Name, tools |-> {}]

BuildPolicyRules(default) ==
    LET allow == IF default.allowed = {} THEN <<>>
                 ELSE <<PolicyRule("ALLOW", default.allowed)>>
        deny  == IF default.denied = {} THEN <<>>
                 ELSE <<PolicyRule("DENY", default.denied)>>
    IN  IF allow \o deny = <<>> THEN <<PolicyRule("ALLOW", {Any})>> ELSE allow \o deny

Policies == {BuildPolicyRules(e.policy) : e \in {f \in Entries : f.policy # None}}
Servers  == [entry : Entries, keys : SUBSET SecretKeys, by : Callers, deleting : BOOLEAN]
ASSUME NoneAssumption == None \notin Entries /\ None \notin Policies /\ None \notin Servers

TypeOK ==
    /\ catalog \in Entries \cup {None}
    /\ secret \in Secret
    /\ server \in Servers \cup {None} /\ policy \in Policies \cup {None}
    /\ call \in [Callers -> [at : Steps, entry : Entries \cup {None}, given : SUBSET SecretKeys]]
    /\ \A c \in Callers : call[c].at \in Running => call[c].entry # None
    /\ got \in [Callers -> Secret] /\ current \in [Callers -> BOOLEAN]
    /\ calls \in Nat /\ changes \in Nat /\ deletions \in Nat /\ faults \in Nat

Init ==
    /\ catalog = None /\ secret = Absent /\ server = None /\ policy = None
    /\ call = [c \in Callers |-> Idle]
    /\ got = [c \in Callers |-> Absent] /\ current = [c \in Callers |-> FALSE]
    /\ calls = 0 /\ changes = 0 /\ deletions = 0 /\ faults = 0

-----------------------------------------------------------------------------
(***************************************************************************)
(* DeployFromCatalog                                                       *)
(***************************************************************************)
Goto(c, at) == call' = [call EXCEPT ![c].at = at]

\* Look up the entry and check that every required secret is among the given ones.
Deploy(c, given) ==
    /\ call[c].at \notin Running
    /\ calls < MaxCalls /\ calls' = calls + 1
    /\ call' = [call EXCEPT ![c] =
          [at    |-> IF catalog = None THEN "failed"
                     ELSE IF ~(catalog.required \subseteq given) THEN "failed"
                     ELSE IF given = {} THEN "server" ELSE "get",
           entry |-> catalog, given |-> given]]
    /\ UNCHANGED <<catalog, objects, got, current, changes, deletions, faults>>

\* CreateOrUpdate: Get, then Create or Update, whichever the Get calls for.
GetSecret(c) ==
    /\ call[c].at = "get"
    /\ got' = [got EXCEPT ![c] = secret] /\ current' = [current EXCEPT ![c] = TRUE]
    /\ Goto(c, "put")
    /\ UNCHANGED <<catalog, objects, bounds>>

\* The call succeeds and c goes on at `next`, or its answer is lost.
Done(c, next) ==
    /\ \/ Goto(c, next) /\ UNCHANGED faults
       \/ Goto(c, "failed") /\ faults < MaxFaults /\ faults' = faults + 1
    /\ UNCHANGED <<calls, changes, deletions>>

\* Mutant: the Secret's data is replaced.
Replaced(c) == [k \in call[c].given |-> c]

\* StringData is merged into what the Secret holds: the keys of others stay.
Merged(c) ==
    [k \in call[c].given \cup DOMAIN got[c] |-> IF k \in call[c].given THEN c ELSE got[c][k]]

PutSecret(c) ==
    /\ call[c].at = "put" /\ current[c]
    /\ secret' = Merged(c)
    /\ current' = [b \in Callers |-> current[b] /\ secret' = secret]
    /\ Done(c, "server")
    /\ UNCHANGED <<catalog, server, policy, got>>

\* The template's spec, with a reference to each given key added to those it has.
NewServer(c) ==
    [entry |-> call[c].entry, keys |-> call[c].entry.declared \cup call[c].given, by |-> c,
     deleting |-> FALSE]

\* Mutant: the deployment returns as soon as the server is there.
CreateServerOnly(c) ==
    /\ call[c].at = "server" /\ server = None
    /\ server' = NewServer(c)
    /\ Done(c, "ok")
    /\ UNCHANGED <<catalog, secret, policy, got, current>>

CreateServer(c) ==
    /\ call[c].at = "server" /\ server = None
    /\ server' = NewServer(c)
    /\ Done(c, IF call[c].entry.policy = None THEN "ok" ELSE "policy")
    /\ UNCHANGED <<catalog, secret, policy, got, current>>

CreatePolicy(c) ==
    /\ call[c].at = "policy" /\ policy = None
    /\ policy' = BuildPolicyRules(call[c].entry.policy)
    /\ Done(c, "ok")
    /\ UNCHANGED <<catalog, secret, server, got, current>>

\* Mutant: a policy that exists already is good enough.
RefusedOrDone(c) ==
    /\ \/ call[c].at = "put" /\ ~current[c] /\ Goto(c, "failed")
       \/ call[c].at = "server" /\ server # None /\ Goto(c, "failed")
       \/ call[c].at = "policy" /\ policy # None /\ Goto(c, "ok")
    /\ UNCHANGED <<catalog, objects, got, current, bounds>>

\* AlreadyExists, or a conflict.  Nothing that was made before is taken back.
Refused(c) ==
    /\ \/ call[c].at = "put" /\ ~current[c]
       \/ call[c].at = "server" /\ server # None
       \/ call[c].at = "policy" /\ policy # None
    /\ Goto(c, "failed")
    /\ UNCHANGED <<catalog, objects, got, current, bounds>>

\* A call fails without effect, the context ends, or the caller's process does.
Abort(c) ==
    /\ call[c].at \in Running
    /\ Goto(c, "failed")
    /\ faults < MaxFaults /\ faults' = faults + 1
    /\ UNCHANGED <<catalog, objects, got, current, calls, changes, deletions>>

Caller(c) ==
    \/ \E given \in SUBSET SecretKeys : Deploy(c, given)
    \/ GetSecret(c) \/ PutSecret(c) \/ CreateServer(c) \/ CreatePolicy(c)
    \/ Refused(c) \/ Abort(c)

-----------------------------------------------------------------------------
(***************************************************************************)
(* The catalog and the users                                               *)
(***************************************************************************)
ChangeCatalog(entry) ==
    /\ catalog # entry
    /\ changes < MaxChanges /\ changes' = changes + 1
    /\ catalog' = entry
    /\ UNCHANGED <<objects, call, got, current, calls, deletions, faults>>

Add(entry) == ChangeCatalog(entry)
Delete     == ChangeCatalog(None)

\* A deleted MCPServer keeps its name until its controller has dropped the finalizer.
DeleteServer ==
    /\ server # None /\ ~server.deleting
    /\ deletions < MaxDeletions /\ deletions' = deletions + 1
    /\ server' = [server EXCEPT !.deleting = TRUE]
    /\ UNCHANGED <<catalog, secret, policy, call, got, current, calls, changes, faults>>

FinalizeServer ==
    /\ server # None /\ server.deleting
    /\ server' = None
    /\ UNCHANGED <<catalog, secret, policy, call, got, current, bounds>>

Next ==
    \/ \E c \in Callers : Caller(c)
    \/ \E entry \in Entries : Add(entry)
    \/ Delete
    \/ DeleteServer \/ FinalizeServer

Spec == Init /\ [][Next]_vars

-----------------------------------------------------------------------------
(***************************************************************************)
(* Properties                                                              *)
(***************************************************************************)
\* Every key that the MCPServer refers to, the ones its entry requires among them, is in the
\* Secret, whatever other deployments, failed ones included, have made of it since
\* (deploy.go:50-54, 58-84, 97-111): its pods can start.  Nobody sees to the keys that a
\* template refers to without requiring them.
SecretsResolvable == server # None =>
    LET unasked == server.entry.declared \ server.entry.required
    IN  /\ server.entry.required \subseteq server.keys
        /\ server.keys \ unasked \subseteq DOMAIN secret

\* As long as no call has failed on its own and none is under way, a server whose entry has a
\* default policy has a policy (deploy.go:114-138).  One failing call is enough to leave
\* it without for good: the retry is refused at the MCPServer.
Guarded ==
    faults = 0 /\ server # None /\ server.entry.policy # None
    /\ (\A c \in Callers : call[c].at \notin Running)
        => policy # None

\* A deployment returns without an error only if the policy is the one of the entry that it
\* looked up, and if the MCPServer, unless deleted since, is its own (deploy.go:39-42).
SuccessIsWhole ==
    [][\A c \in Callers : call[c].at # "ok" /\ call'[c].at = "ok" =>
        LET e == call[c].entry
        IN  /\ e.policy # None => policy' = BuildPolicyRules(e.policy)
            /\ deletions = 0 => server' # None /\ server'.by = c /\ server'.entry = e]_vars

(***************************************************************************)
(* The invariant that SecretsResolvable, Guarded and SuccessIsWhole rest   *)
(* on: what has been checked stays true of the held entry, what is in the  *)
(* Secret stays there, a resourceVersion stands for what was read, and the *)
(* policy is still to come from a deployment that has made its server.     *)
(***************************************************************************)
Validated == \A c \in Callers :
    call[c].at \in Running => call[c].entry.required \subseteq call[c].given
Provided == \A c \in Callers :
    call[c].at = "server" => call[c].given \subseteq DOMAIN secret
ReadsCurrent == \A c \in Callers : current[c] => got[c] = secret
ServerMade == \A c \in Callers : call[c].at = "policy" =>
    /\ call[c].entry.policy # None
    /\ deletions = 0 => server # None /\ server.by = c /\ server.entry = call[c].entry
PolicyComing ==
    faults = 0 /\ server # None /\ server.entry.policy # None /\ policy = None
        => \E c \in Callers : call[c].at = "policy"
DeletionsCounted == server # None /\ server.deleting => deletions > 0

IInv == /\ TypeOK /\ SecretsResolvable /\ Validated /\ Provided /\ ReadsCurrent
        /\ ServerMade /\ PolicyComing /\ DeletionsCounted
=============================================================================
