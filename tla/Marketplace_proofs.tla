-------------------------- MODULE Marketplace_proofs --------------------------
(***************************************************************************)
(* Theorems about Marketplace, for all callers, entries, secret keys and   *)
(* bounds.                                                                 *)
(***************************************************************************)
EXTENDS Marketplace, TLAPS

-----------------------------------------------------------------------------
(***************************************************************************)
(* DeployFromCatalog                                                       *)
(***************************************************************************)
LEMMA DeployKeepsIInv ==
    ASSUME IInv, NEW c \in Callers, NEW given \in SUBSET SecretKeys, Deploy(c, given)
    PROVE  IInv'
<1> DEFINE at == IF catalog = None THEN "failed"
                 ELSE IF ~(catalog.required \subseteq given) THEN "failed"
                 ELSE IF given = {} THEN "server" ELSE "get"
           new == [at |-> at, entry |-> catalog, given |-> given]
<1>0. /\ call' = [call EXCEPT ![c] = new]
      /\ UNCHANGED <<catalog, secret, server, policy, got, current, changes, deletions, faults>>
      /\ calls' = calls + 1
      /\ call[c].at \notin Running
    BY DEF Deploy, objects
<1>1. TypeOK
    BY DEF IInv
<1>2. at \in Steps /\ (at \in Running => catalog # None /\ catalog.required \subseteq given)
    BY DEF Steps, Running
<1>3. TypeOK'
    <2>1. new \in [at : Steps, entry : Entries \cup {None}, given : SUBSET SecretKeys]
        BY <1>1, <1>2 DEF TypeOK
    <2> HIDE DEF new
    <2>2. call' \in [Callers -> [at : Steps, entry : Entries \cup {None},
                                 given : SUBSET SecretKeys]]
        BY <1>0, <1>1, <2>1 DEF TypeOK
    <2>3. \A b \in Callers : call'[b].at \in Running => call'[b].entry # None
        BY <1>0, <1>1, <1>2 DEF TypeOK, new
    <2>4. calls' \in Nat
        BY <1>0, <1>1 DEF TypeOK
    <2> QED BY <1>0, <1>1, <2>2, <2>3, <2>4 DEF TypeOK
<1>4. \A b \in Callers : call'[b] = IF b = c THEN new ELSE call[b]
    BY <1>0, <1>1 DEF TypeOK
<1> HIDE DEF at
<1>5. Validated'
    BY <1>2, <1>4 DEF IInv, Validated
<1>6. Provided'
    <2>1. at = "server" => given = {}
        BY DEF at
    <2> QED BY <1>0, <1>4, <2>1 DEF IInv, Provided
<1>7. ServerMade'
    <2>1. at # "policy"
        BY DEF at
    <2> QED BY <1>0, <1>4, <2>1 DEF IInv, ServerMade
<1>8. PolicyComing'
    BY <1>0, <1>4 DEF IInv, PolicyComing, Running
<1>9. (SecretsResolvable /\ ReadsCurrent /\ DeletionsCounted)'
    BY <1>0 DEF IInv, SecretsResolvable, ReadsCurrent, DeletionsCounted
<1> QED BY <1>3, <1>5, <1>6, <1>7, <1>8, <1>9 DEF IInv

\* A step that moves c's deployment to `at` and touches neither the other deployments nor
\* the counters other than faults.
LEMMA GotoTyped ==
    ASSUME TypeOK, NEW c \in Callers, NEW at \in Steps, Goto(c, at),
           at \in Running => call[c].entry # None
    PROVE  /\ call' \in [Callers -> [at : Steps, entry : Entries \cup {None},
                                     given : SUBSET SecretKeys]]
           /\ \A b \in Callers : call'[b].at \in Running => call'[b].entry # None
           /\ \A b \in Callers : call'[b].entry = call[b].entry /\ call'[b].given = call[b].given
           /\ \A b \in Callers : call'[b].at = IF b = c THEN at ELSE call[b].at
<1>1. call' = [call EXCEPT ![c].at = at]
    BY DEF Goto
<1>2. call \in [Callers -> [at : Steps, entry : Entries \cup {None}, given : SUBSET SecretKeys]]
    BY DEF TypeOK
<1>3. call[c] \in [at : Steps, entry : Entries \cup {None}, given : SUBSET SecretKeys]
    BY <1>2
<1> DEFINE new == [call[c] EXCEPT !.at = at]
<1>4. new \in [at : Steps, entry : Entries \cup {None}, given : SUBSET SecretKeys]
      /\ new.at = at /\ new.entry = call[c].entry /\ new.given = call[c].given
    BY <1>3
<1>5. call' = [call EXCEPT ![c] = new]
    BY <1>1
<1> HIDE DEF new
<1>6. \A b \in Callers : call'[b] = IF b = c THEN new ELSE call[b]
    BY <1>2, <1>5
<1>7. call' \in [Callers -> [at : Steps, entry : Entries \cup {None}, given : SUBSET SecretKeys]]
    BY <1>2, <1>4, <1>5
<1> QED BY <1>4, <1>6, <1>7 DEF TypeOK

\* What a running deployment may go on to, and what a failure leaves.
LEMMA DoneGoes ==
    ASSUME TypeOK, NEW c \in Callers, NEW next, Done(c, next)
    PROVE  /\ \/ Goto(c, next) /\ faults' = faults
              \/ Goto(c, "failed") /\ faults' > 0
           /\ calls' = calls /\ changes' = changes /\ deletions' = deletions
           /\ calls' \in Nat /\ changes' \in Nat /\ deletions' \in Nat /\ faults' \in Nat
<1> SUFFICES ASSUME faults \in Nat /\ calls \in Nat /\ changes \in Nat /\ deletions \in Nat
             PROVE  /\ \/ Goto(c, next) /\ faults' = faults
                       \/ Goto(c, "failed") /\ faults' > 0
                    /\ calls' = calls /\ changes' = changes /\ deletions' = deletions
                    /\ calls' \in Nat /\ changes' \in Nat /\ deletions' \in Nat
                    /\ faults' \in Nat
    BY DEF TypeOK
<1>1. calls' = calls /\ changes' = changes /\ deletions' = deletions
    BY DEF Done
<1>2. CASE Goto(c, next) /\ UNCHANGED faults
    BY <1>1, <1>2
<1>3. CASE Goto(c, "failed") /\ faults < MaxFaults /\ faults' = faults + 1
    BY <1>1, <1>3
<1> QED BY <1>2, <1>3 DEF Done

LEMMA GetSecretKeepsIInv ==
    ASSUME IInv, NEW c \in Callers, GetSecret(c)
    PROVE  IInv'
<1>0. /\ call[c].at = "get" /\ Goto(c, "put")
      /\ got' = [got EXCEPT ![c] = secret] /\ current' = [current EXCEPT ![c] = TRUE]
      /\ UNCHANGED <<catalog, secret, server, policy, calls, changes, deletions, faults>>
    BY DEF GetSecret, objects, bounds
<1>1. TypeOK
    BY DEF IInv
<1>2. call[c].entry # None
    BY <1>0, <1>1 DEF TypeOK, Running
<1>3. /\ call' \in [Callers -> [at : Steps, entry : Entries \cup {None},
                                given : SUBSET SecretKeys]]
      /\ \A b \in Callers : call'[b].at \in Running => call'[b].entry # None
      /\ \A b \in Callers : call'[b].entry = call[b].entry /\ call'[b].given = call[b].given
      /\ \A b \in Callers : call'[b].at = IF b = c THEN "put" ELSE call[b].at
    BY <1>0, <1>1, <1>2, GotoTyped DEF Steps
<1>4. TypeOK'
    <2>1. got' \in [Callers -> Secret] /\ current' \in [Callers -> BOOLEAN]
        BY <1>0, <1>1 DEF TypeOK
    <2> QED BY <1>0, <1>1, <1>3, <2>1 DEF TypeOK
<1>5. Validated'
    BY <1>0, <1>3 DEF IInv, Validated, Running
<1>6. Provided' /\ ServerMade'
    BY <1>0, <1>3 DEF IInv, Provided, ServerMade
<1>7. ReadsCurrent'
    BY <1>0, <1>1 DEF IInv, ReadsCurrent, TypeOK
<1>8. PolicyComing'
    BY <1>0, <1>3 DEF IInv, PolicyComing
<1>9. (SecretsResolvable /\ DeletionsCounted)'
    BY <1>0 DEF IInv, SecretsResolvable, DeletionsCounted
<1> QED BY <1>4, <1>5, <1>6, <1>7, <1>8, <1>9 DEF IInv

LEMMA PutSecretKeepsIInv ==
    ASSUME IInv, NEW c \in Callers, PutSecret(c)
    PROVE  IInv'
<1>0. /\ call[c].at = "put" /\ current[c] /\ secret' = Merged(c)
      /\ current' = [b \in Callers |-> current[b] /\ secret' = secret]
      /\ Done(c, "server")
      /\ UNCHANGED <<catalog, server, policy, got>>
    BY DEF PutSecret
<1>1. TypeOK
    BY DEF IInv
<1>2. call[c].entry # None /\ call[c].entry.required \subseteq call[c].given
    BY <1>0, <1>1 DEF TypeOK, Running, IInv, Validated
<1>3. got[c] = secret /\ secret \in Secret /\ call[c].given \subseteq SecretKeys
    BY <1>0, <1>1 DEF IInv, ReadsCurrent, TypeOK
<1>4. secret' \in Secret /\ DOMAIN secret' = call[c].given \cup DOMAIN secret
    <2>1. PICK keys \in SUBSET SecretKeys : secret \in [keys -> Callers]
        BY <1>3 DEF Secret
    <2>2. secret' = [k \in call[c].given \cup keys |->
                        IF k \in call[c].given THEN c ELSE secret[k]]
        BY <1>0, <1>3, <2>1 DEF Merged
    <2>3. secret' \in [call[c].given \cup keys -> Callers]
        BY <2>1, <2>2
    <2>4. call[c].given \cup keys \in SUBSET SecretKeys
        BY <1>3, <2>1
    <2> QED BY <2>1, <2>2, <2>3, <2>4 DEF Secret
<1>5. PICK at \in {"server", "failed"} :
        /\ Goto(c, at) /\ (at = "failed" => faults' > 0) /\ (at = "server" => faults' = faults)
        /\ calls' = calls /\ changes' = changes /\ deletions' = deletions
        /\ calls' \in Nat /\ changes' \in Nat /\ deletions' \in Nat /\ faults' \in Nat
    BY <1>0, <1>1, DoneGoes
<1>6. /\ call' \in [Callers -> [at : Steps, entry : Entries \cup {None},
                                given : SUBSET SecretKeys]]
      /\ \A b \in Callers : call'[b].at \in Running => call'[b].entry # None
      /\ \A b \in Callers : call'[b].entry = call[b].entry /\ call'[b].given = call[b].given
      /\ \A b \in Callers : call'[b].at = IF b = c THEN at ELSE call[b].at
    BY <1>1, <1>2, <1>5, GotoTyped DEF Steps
<1>7. TypeOK'
    <2>1. current' \in [Callers -> BOOLEAN]
        BY <1>0
    <2> QED BY <1>0, <1>1, <1>4, <1>5, <1>6, <2>1 DEF TypeOK
<1>8. Validated'
    BY <1>2, <1>6 DEF IInv, Validated
<1>9. Provided'
    BY <1>4, <1>6 DEF IInv, Provided
<1>10. ServerMade'
    BY <1>0, <1>5, <1>6 DEF IInv, ServerMade
<1>11. ReadsCurrent'
    BY <1>0 DEF IInv, ReadsCurrent
<1>12. PolicyComing'
    <2>1. faults' = 0 => faults = 0
        BY <1>5
    <2> QED BY <1>0, <1>6, <2>1 DEF IInv, PolicyComing
<1>13. SecretsResolvable'
    BY <1>0, <1>4 DEF IInv, SecretsResolvable
<1>14. DeletionsCounted'
    BY <1>0, <1>5 DEF IInv, DeletionsCounted
<1> QED BY <1>7, <1>8, <1>9, <1>10, <1>11, <1>12, <1>13, <1>14 DEF IInv

LEMMA CreateServerKeepsIInv ==
    ASSUME IInv, NEW c \in Callers, CreateServer(c)
    PROVE  IInv'
<1> DEFINE next == IF call[c].entry.policy = None THEN "ok" ELSE "policy"
<1>0. /\ call[c].at = "server" /\ server = None
      /\ server' = NewServer(c)
      /\ Done(c, next)
      /\ UNCHANGED <<catalog, secret, policy, got, current>>
    BY DEF CreateServer
<1>1. TypeOK
    BY DEF IInv
<1>2. /\ call[c].entry \in Entries /\ call[c].given \in SUBSET SecretKeys
      /\ call[c].entry # None
      /\ call[c].entry.required \subseteq call[c].given
      /\ call[c].given \subseteq DOMAIN secret
    BY <1>0, <1>1 DEF TypeOK, Running, IInv, Validated, Provided
<1>3. /\ server' \in Servers /\ server' # None
      /\ server'.entry = call[c].entry /\ server'.by = c /\ ~server'.deleting
      /\ server'.keys = call[c].entry.declared \cup call[c].given
    <2>1. call[c].entry.declared \cup call[c].given \in SUBSET SecretKeys
        BY <1>2, EntriesAssumption
    <2>2. server' \in Servers
        BY <1>0, <1>2, <2>1 DEF Servers, NewServer
    <2>3. server' # None
        BY <2>2, NoneAssumption
    <2>4. /\ server'.entry = call[c].entry /\ server'.by = c /\ server'.deleting = FALSE
          /\ server'.keys = call[c].entry.declared \cup call[c].given
        BY <1>0 DEF NewServer
    <2> QED BY <2>2, <2>3, <2>4
<1>4. PICK at \in {"ok", "policy", "failed"} :
        /\ Goto(c, at) /\ (at = "failed" => faults' > 0) /\ (at # "failed" => at = next)
        /\ calls' = calls /\ changes' = changes /\ deletions' = deletions
        /\ calls' \in Nat /\ changes' \in Nat /\ deletions' \in Nat /\ faults' \in Nat
    BY <1>0, <1>1, DoneGoes
<1>5. /\ call' \in [Callers -> [at : Steps, entry : Entries \cup {None},
                                given : SUBSET SecretKeys]]
      /\ \A b \in Callers : call'[b].at \in Running => call'[b].entry # None
      /\ \A b \in Callers : call'[b].entry = call[b].entry /\ call'[b].given = call[b].given
      /\ \A b \in Callers : call'[b].at = IF b = c THEN at ELSE call[b].at
    BY <1>1, <1>2, <1>4, GotoTyped DEF Steps
<1>6. TypeOK'
    BY <1>0, <1>1, <1>3, <1>4, <1>5 DEF TypeOK
<1>7. Validated'
    BY <1>2, <1>5 DEF IInv, Validated
<1>8. Provided'
    BY <1>0, <1>5 DEF IInv, Provided
<1>9. ServerMade'
    <2>1. ASSUME NEW b \in Callers, call'[b].at = "policy"
          PROVE  /\ call'[b].entry.policy # None
                 /\ deletions' = 0 =>
                      server' # None /\ server'.by = b /\ server'.entry = call'[b].entry
        <3>1. CASE b = c
            BY <1>3, <1>4, <1>5, <2>1, <3>1
        <3>2. CASE b # c
            \* Only a deletion can have taken the server of b's deployment away.
            <4>1. call[b].at = "policy"
                BY <1>5, <2>1, <3>2
            <4>2. call[b].entry.policy # None /\ deletions # 0
                BY <1>0, <4>1 DEF IInv, ServerMade
            <4> QED BY <1>4, <1>5, <4>2
        <3> QED BY <3>1, <3>2
    <2> QED BY <2>1 DEF ServerMade
<1>10. PolicyComing'
    <2>1. faults' = 0 /\ call[c].entry.policy # None => at = "policy"
        BY <1>4
    <2> QED BY <1>3, <1>5, <2>1 DEF PolicyComing
<1>11. (SecretsResolvable /\ ReadsCurrent /\ DeletionsCounted)'
    BY <1>0, <1>2, <1>3 DEF IInv, SecretsResolvable, ReadsCurrent, DeletionsCounted
<1> QED BY <1>6, <1>7, <1>8, <1>9, <1>10, <1>11 DEF IInv

\* A list of rules is never the absent policy.
LEMMA PolicyMade ==
    ASSUME NEW e \in Entries, e.policy # None
    PROVE  BuildPolicyRules(e.policy) \in Policies /\ BuildPolicyRules(e.policy) # None
BY NoneAssumption DEF Policies

LEMMA CreatePolicyKeepsIInv ==
    ASSUME IInv, NEW c \in Callers, CreatePolicy(c)
    PROVE  IInv'
<1>0. /\ call[c].at = "policy" /\ policy = None
      /\ policy' = BuildPolicyRules(call[c].entry.policy)
      /\ Done(c, "ok")
      /\ UNCHANGED <<catalog, secret, server, got, current>>
    BY DEF CreatePolicy
<1>1. TypeOK
    BY DEF IInv
<1>2. call[c].entry \in Entries /\ call[c].entry # None /\ call[c].entry.policy # None
    BY <1>0, <1>1 DEF TypeOK, Running, IInv, ServerMade
<1>3. policy' \in Policies /\ policy' # None
    BY <1>0, <1>2, PolicyMade
<1>4. PICK at \in {"ok", "failed"} :
        /\ Goto(c, at)
        /\ calls' = calls /\ changes' = changes /\ deletions' = deletions
        /\ calls' \in Nat /\ changes' \in Nat /\ deletions' \in Nat /\ faults' \in Nat
    BY <1>0, <1>1, DoneGoes
<1>5. /\ call' \in [Callers -> [at : Steps, entry : Entries \cup {None},
                                given : SUBSET SecretKeys]]
      /\ \A b \in Callers : call'[b].at \in Running => call'[b].entry # None
      /\ \A b \in Callers : call'[b].entry = call[b].entry /\ call'[b].given = call[b].given
      /\ \A b \in Callers : call'[b].at = IF b = c THEN at ELSE call[b].at
    BY <1>1, <1>2, <1>4, GotoTyped DEF Steps
<1>6. TypeOK'
    BY <1>0, <1>1, <1>3, <1>4, <1>5 DEF TypeOK
<1>7. Validated' /\ Provided'
    BY <1>0, <1>5 DEF IInv, Validated, Provided, Running
<1>8. ServerMade'
    BY <1>0, <1>4, <1>5 DEF IInv, ServerMade
<1>9. PolicyComing'
    BY <1>3 DEF PolicyComing
<1>10. (SecretsResolvable /\ ReadsCurrent /\ DeletionsCounted)'
    BY <1>0, <1>4 DEF IInv, SecretsResolvable, ReadsCurrent, DeletionsCounted
<1> QED BY <1>6, <1>7, <1>8, <1>9, <1>10 DEF IInv

\* A deployment that fails takes nothing back, and if it owed the policy, then either the
\* policy is there already or the failure is one of its own.
LEMMA FailureKeepsIInv ==
    ASSUME IInv, NEW c \in Callers, Goto(c, "failed"),
           UNCHANGED <<catalog, objects, got, current, calls, changes, deletions>>,
           faults' \in Nat,
           \/ faults' = faults /\ (call[c].at = "policy" => policy # None)
           \/ faults' > 0
    PROVE  IInv'
<1>0. UNCHANGED <<catalog, secret, server, policy, got, current, calls, changes, deletions>>
    BY DEF objects
<1>1. TypeOK
    BY DEF IInv
<1>2. /\ call' \in [Callers -> [at : Steps, entry : Entries \cup {None},
                                given : SUBSET SecretKeys]]
      /\ \A b \in Callers : call'[b].at \in Running => call'[b].entry # None
      /\ \A b \in Callers : call'[b].entry = call[b].entry /\ call'[b].given = call[b].given
      /\ \A b \in Callers : call'[b].at = IF b = c THEN "failed" ELSE call[b].at
    BY <1>1, GotoTyped DEF Steps, Running
<1>3. TypeOK'
    BY <1>0, <1>1, <1>2 DEF TypeOK
<1>4. Validated' /\ Provided' /\ ServerMade'
    BY <1>0, <1>2 DEF IInv, Validated, Provided, ServerMade, Running
<1>5. PolicyComing'
    BY <1>0, <1>2 DEF IInv, PolicyComing
<1>6. (SecretsResolvable /\ ReadsCurrent /\ DeletionsCounted)'
    BY <1>0 DEF IInv, SecretsResolvable, ReadsCurrent, DeletionsCounted
<1> QED BY <1>3, <1>4, <1>5, <1>6 DEF IInv

LEMMA RefusedKeepsIInv ==
    ASSUME IInv, NEW c \in Callers, Refused(c)
    PROVE  IInv'
<1>1. /\ Goto(c, "failed")
      /\ UNCHANGED <<catalog, objects, got, current, calls, changes, deletions>>
      /\ faults' = faults /\ (call[c].at = "policy" => policy # None)
    BY DEF Refused, bounds
<1>2. faults' \in Nat
    BY <1>1 DEF IInv, TypeOK
<1> QED BY <1>1, <1>2, FailureKeepsIInv

LEMMA AbortKeepsIInv ==
    ASSUME IInv, NEW c \in Callers, Abort(c)
    PROVE  IInv'
<1>1. /\ Goto(c, "failed")
      /\ UNCHANGED <<catalog, objects, got, current, calls, changes, deletions>>
      /\ faults' = faults + 1
    BY DEF Abort
<1>2. faults' \in Nat /\ faults' > 0
    BY <1>1 DEF IInv, TypeOK
<1> QED BY <1>1, <1>2, FailureKeepsIInv

-----------------------------------------------------------------------------
(***************************************************************************)
(* The catalog and the users                                               *)
(***************************************************************************)
LEMMA ChangeCatalogKeepsIInv ==
    ASSUME IInv, NEW entry \in Entries \cup {None}, ChangeCatalog(entry)
    PROVE  IInv'
<1>0. /\ catalog' = entry /\ changes' = changes + 1
      /\ UNCHANGED <<secret, server, policy, call, got, current, calls, deletions, faults>>
    BY DEF ChangeCatalog, objects
<1>1. TypeOK'
    BY <1>0 DEF IInv, TypeOK
<1>2. (SecretsResolvable /\ Validated /\ Provided /\ ReadsCurrent)'
    BY <1>0 DEF IInv, SecretsResolvable, Validated, Provided, ReadsCurrent
<1>3. (ServerMade /\ PolicyComing /\ DeletionsCounted)'
    BY <1>0 DEF IInv, ServerMade, PolicyComing, DeletionsCounted
<1> QED BY <1>1, <1>2, <1>3 DEF IInv

LEMMA DeleteServerKeepsIInv ==
    ASSUME IInv, DeleteServer
    PROVE  IInv'
<1>0. /\ server # None /\ server' = [server EXCEPT !.deleting = TRUE]
      /\ deletions' = deletions + 1
      /\ UNCHANGED <<catalog, secret, policy, call, got, current, calls, changes, faults>>
    BY DEF DeleteServer
<1>1. server \in Servers /\ deletions \in Nat
    BY <1>0 DEF IInv, TypeOK
<1>2. /\ server' \in Servers /\ server'.entry = server.entry /\ server'.keys = server.keys
      /\ server'.by = server.by
    BY <1>0, <1>1 DEF Servers
<1>3. deletions' \in Nat /\ deletions' > 0
    BY <1>0, <1>1
<1>4. TypeOK'
    BY <1>0, <1>2, <1>3 DEF IInv, TypeOK
<1>5. (SecretsResolvable /\ Validated /\ Provided /\ ReadsCurrent)'
    BY <1>0, <1>2 DEF IInv, SecretsResolvable, Validated, Provided, ReadsCurrent
<1>6. (ServerMade /\ PolicyComing /\ DeletionsCounted)'
    BY <1>0, <1>2, <1>3 DEF IInv, ServerMade, PolicyComing, DeletionsCounted
<1> QED BY <1>4, <1>5, <1>6 DEF IInv

LEMMA FinalizeServerKeepsIInv ==
    ASSUME IInv, FinalizeServer
    PROVE  IInv'
<1>0. /\ server # None /\ server.deleting /\ server' = None
      /\ UNCHANGED <<catalog, secret, policy, call, got, current, calls, changes, deletions,
                     faults>>
    BY DEF FinalizeServer, bounds
<1>1. deletions' # 0
    BY <1>0 DEF IInv, DeletionsCounted
<1>2. TypeOK'
    BY <1>0 DEF IInv, TypeOK
<1>3. (SecretsResolvable /\ Validated /\ Provided /\ ReadsCurrent)'
    BY <1>0 DEF IInv, SecretsResolvable, Validated, Provided, ReadsCurrent
<1>4. (ServerMade /\ PolicyComing /\ DeletionsCounted)'
    BY <1>0, <1>1 DEF IInv, ServerMade, PolicyComing, DeletionsCounted
<1> QED BY <1>2, <1>3, <1>4 DEF IInv

-----------------------------------------------------------------------------
LEMMA InitHolds == Init => IInv
<1> SUFFICES ASSUME Init PROVE IInv
    OBVIOUS
<1>1. Absent \in Secret
    BY DEF Absent, Secret
<1>2. Idle \in [at : Steps, entry : Entries \cup {None}, given : SUBSET SecretKeys]
      /\ Idle.at = "idle"
    BY DEF Idle, Steps
<1>3. \A c \in Callers : call[c] = Idle /\ ~current[c]
    BY DEF Init
<1>4. TypeOK
    BY <1>1, <1>2, <1>3 DEF Init, TypeOK, Running
<1>5. SecretsResolvable /\ PolicyComing /\ DeletionsCounted
    BY DEF Init, SecretsResolvable, PolicyComing, DeletionsCounted
<1>6. Validated /\ Provided /\ ReadsCurrent /\ ServerMade
    BY <1>2, <1>3 DEF Validated, Provided, ReadsCurrent, ServerMade, Running
<1> QED BY <1>4, <1>5, <1>6 DEF IInv

LEMMA StepKeepsIInv == IInv /\ [Next]_vars => IInv'
<1> SUFFICES ASSUME IInv, [Next]_vars PROVE IInv'
    OBVIOUS
<1>1. CASE \E c \in Callers : Caller(c)
    <2>1. PICK c \in Callers : Caller(c)
        BY <1>1
    <2>2. CASE \E given \in SUBSET SecretKeys : Deploy(c, given)
        BY <2>2, DeployKeepsIInv
    <2>3. CASE GetSecret(c)
        BY <2>3, GetSecretKeepsIInv
    <2>4. CASE PutSecret(c)
        BY <2>4, PutSecretKeepsIInv
    <2>5. CASE CreateServer(c)
        BY <2>5, CreateServerKeepsIInv
    <2>6. CASE CreatePolicy(c)
        BY <2>6, CreatePolicyKeepsIInv
    <2>7. CASE Refused(c)
        BY <2>7, RefusedKeepsIInv
    <2>8. CASE Abort(c)
        BY <2>8, AbortKeepsIInv
    <2> QED BY <2>1, <2>2, <2>3, <2>4, <2>5, <2>6, <2>7, <2>8 DEF Caller
<1>2. CASE \/ \E entry \in Entries : Add(entry)
           \/ Delete
    BY <1>2, ChangeCatalogKeepsIInv DEF Add, Delete
<1>3. CASE DeleteServer
    BY <1>3, DeleteServerKeepsIInv
<1>4. CASE FinalizeServer
    BY <1>4, FinalizeServerKeepsIInv
<1>5. CASE UNCHANGED vars
    <2>1. TypeOK' /\ SecretsResolvable' /\ Validated' /\ Provided'
        BY <1>5 DEF vars, objects, IInv, TypeOK, SecretsResolvable, Validated, Provided
    <2>2. ReadsCurrent' /\ ServerMade' /\ PolicyComing' /\ DeletionsCounted'
        BY <1>5 DEF vars, IInv, ReadsCurrent, ServerMade, PolicyComing, DeletionsCounted
    <2> QED BY <2>1, <2>2 DEF IInv
<1> QED BY <1>1, <1>2, <1>3, <1>4, <1>5 DEF Next

\* Every reachable state is well typed and satisfies what the deployment steps rest on.
THEOREM InvariantHolds == Spec => []IInv
BY InitHolds, StepKeepsIInv, PTL DEF Spec

\* Every variable keeps its type, whatever the callers, entries and bounds.
THEOREM TypeCorrect == Spec => []TypeOK
<1>1. IInv => TypeOK
    BY DEF IInv
<1> QED BY <1>1, InvariantHolds, PTL

\* Every secret key that a deployed server refers to is there, whatever other deployments did,
\* but for those its template refers to without requiring them (deploy.go:58-84, 97-111).
THEOREM SecretsStayResolvable == Spec => []SecretsResolvable
<1>1. IInv => SecretsResolvable
    BY DEF IInv
<1> QED BY <1>1, InvariantHolds, PTL

\* Without a failing call no server is left without its entry's policy (deploy.go:114-138).
THEOREM ServersGuarded == Spec => []Guarded
<1>1. IInv => Guarded
    BY DEF IInv, Guarded, PolicyComing, Running
<1> QED BY <1>1, InvariantHolds, PTL

\* The step that makes a deployment return leaves the entry's policy and its server.
LEMMA SuccessStep ==
    ASSUME IInv, [Next]_vars, NEW c \in Callers, call[c].at # "ok", call'[c].at = "ok"
    PROVE  LET e == call[c].entry
           IN  /\ e.policy # None => policy' = BuildPolicyRules(e.policy)
               /\ deletions = 0 => server' # None /\ server'.by = c /\ server'.entry = e
<1>1. call \in [Callers -> [at : Steps, entry : Entries \cup {None}, given : SUBSET SecretKeys]]
    BY DEF IInv, TypeOK
<1>2. PICK b \in Callers : Caller(b)
    <2>1. call' # call
        OBVIOUS
    <2> QED BY <2>1 DEF Next, Add, Delete, ChangeCatalog, DeleteServer, FinalizeServer, vars
<1>3. ASSUME NEW at, Goto(b, at)
      PROVE  b = c /\ at = "ok"
    <2>1. call' = [call EXCEPT ![b].at = at]
        BY <1>3 DEF Goto
    <2>2. b = c
        BY <1>1, <2>1
    <2> QED BY <1>1, <2>1, <2>2
<1>4. CASE CreateServer(b)
    <2>1. PICK at : Goto(b, at) /\ at \in {"failed", IF call[b].entry.policy = None
                                                      THEN "ok" ELSE "policy"}
        BY <1>4 DEF CreateServer, Done
    <2>2. b = c /\ call[c].entry.policy = None
        BY <1>3, <2>1
    <2>3. server' = NewServer(c)
        BY <1>4, <2>2 DEF CreateServer
    <2>4. call[c].entry \in Entries /\ call[c].given \in SUBSET SecretKeys
        BY <1>1, <1>4, <2>2 DEF CreateServer, IInv, TypeOK, Running
    <2>5. call[c].entry.declared \cup call[c].given \in SUBSET SecretKeys
        BY <2>4, EntriesAssumption
    <2>6. server' \in Servers
        BY <2>3, <2>4, <2>5 DEF Servers, NewServer
    <2>7. server'.by = c /\ server'.entry = call[c].entry
        BY <2>3 DEF NewServer
    <2> QED BY <2>2, <2>6, <2>7, NoneAssumption
<1>5. CASE CreatePolicy(b)
    <2>1. PICK at : Goto(b, at)
        BY <1>5 DEF CreatePolicy, Done
    <2>2. b = c
        BY <1>3, <2>1
    <2> QED BY <1>5, <2>2 DEF CreatePolicy, IInv, ServerMade
<1>6. CASE GetSecret(b) \/ PutSecret(b) \/ Refused(b) \/ Abort(b)
    <2>1. \E at \in {"put", "server", "failed"} : Goto(b, at)
        BY <1>6 DEF GetSecret, PutSecret, Refused, Abort, Done
    <2> QED BY <1>3, <2>1
<1>7. CASE \E given \in SUBSET SecretKeys : Deploy(b, given)
    <2>1. PICK given \in SUBSET SecretKeys, at \in {"failed", "server", "get"} :
            call' = [call EXCEPT ![b] = [at |-> at, entry |-> catalog, given |-> given]]
        BY <1>7 DEF Deploy
    <2> QED BY <1>1, <2>1
<1> QED BY <1>2, <1>4, <1>5, <1>6, <1>7 DEF Caller

\* A deployment that returns without an error has made all of what it should (deploy.go:39-142).
THEOREM SuccessesAreWhole == Spec => SuccessIsWhole
<1>1. IInv /\ [Next]_vars =>
        [\A c \in Callers : call[c].at # "ok" /\ call'[c].at = "ok" =>
            LET e == call[c].entry
            IN  /\ e.policy # None => policy' = BuildPolicyRules(e.policy)
                /\ deletions = 0 => server' # None /\ server'.by = c /\ server'.entry = e]_vars
    BY SuccessStep
<1> QED BY <1>1, InvariantHolds, PTL DEF Spec, SuccessIsWhole
=============================================================================
