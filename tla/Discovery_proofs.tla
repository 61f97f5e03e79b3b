-------------------------- MODULE Discovery_proofs --------------------------
(***************************************************************************)
(* Theorems about Discovery, for any callers, discoveries and versions of  *)
(* the server.                                                             *)
(***************************************************************************)
EXTENDS Discovery, TLAPS

\* A step of c leaves the calls of the others alone.
OthersKeep(c) == \A b \in Callers : b # c =>
    call'[b] = call[b] /\ lists'[b] = lists[b] /\ reply'[b] = reply[b] /\ began'[b] = began[b]

LEMMA CallType ==
    ASSUME TypeOK, NEW c \in Callers
    PROVE  /\ call[c].at \in Steps /\ call[c].method \in Methods /\ call[c].id \in Nat
           /\ lists[c] \in [Methods -> Nat] /\ began[c] \in Nat
           /\ reply[c].version \in Nat
BY DEF TypeOK, Reply

LEMMA GotoTyped ==
    ASSUME TypeOK, NEW c \in Callers, NEW at \in Steps, NEW k \in Methods, NEW i \in Nat,
           Goto(c, at, k, i)
    PROVE  /\ call' \in [Callers -> [at : Steps, method : Methods, id : Nat]]
           /\ call'[c].at = at /\ call'[c].method = k /\ call'[c].id = i
           /\ \A b \in Callers : b # c => call'[b] = call[b]
BY DEF TypeOK, Goto

\* What a step of c makes of c's own call.
LEMMA DiscoverStep ==
    ASSUME TypeOK, NEW c \in Callers, Discover(c)
    PROVE  /\ TypeOK' /\ OthersKeep(c) /\ idCounter' = idCounter /\ version' = version
           /\ call'[c].at = "send" /\ call'[c].method = 1 /\ call'[c].id = call[c].id
           /\ began'[c] = version
<1>1. /\ Goto(c, "send", 1, call[c].id) /\ "send" \in Steps /\ 1 \in Methods
      /\ call[c].id \in Nat
    BY CallType DEF Discover, Steps, Methods
<1>2. /\ call' \in [Callers -> [at : Steps, method : Methods, id : Nat]]
      /\ call'[c].at = "send" /\ call'[c].method = 1 /\ call'[c].id = call[c].id
      /\ \A b \in Callers : b # c => call'[b] = call[b]
    BY <1>1, GotoTyped
<1>3. lists' \in [Callers -> [Methods -> Nat]] /\ began' \in [Callers -> Nat] /\ calls' \in Nat
    BY DEF TypeOK, Discover
<1> QED BY <1>2, <1>3 DEF Discover, TypeOK, OthersKeep

LEMMA SendStep ==
    ASSUME TypeOK, NEW c \in Callers, Send(c)
    PROVE  /\ TypeOK' /\ OthersKeep(c) /\ idCounter' = idCounter + 1 /\ version' = version
           /\ call'[c].at = "wait" /\ call'[c].method = call[c].method /\ call'[c].id = idCounter + 1
           /\ lists'[c] = lists[c] /\ began'[c] = began[c]
<1>1. /\ Goto(c, "wait", call[c].method, idCounter + 1) /\ "wait" \in Steps
      /\ call[c].method \in Methods /\ idCounter + 1 \in Nat
    BY CallType DEF Send, Steps, TypeOK
<1>2. /\ call' \in [Callers -> [at : Steps, method : Methods, id : Nat]]
      /\ call'[c].at = "wait" /\ call'[c].method = call[c].method /\ call'[c].id = idCounter + 1
      /\ \A b \in Callers : b # c => call'[b] = call[b]
    BY <1>1, GotoTyped
<1> QED BY <1>2 DEF Send, TypeOK, OthersKeep

LEMMA ReadStep ==
    ASSUME TypeOK, NEW c \in Callers, Read(c), Decoded(reply[c])
    PROVE  /\ TypeOK' /\ OthersKeep(c) /\ idCounter' = idCounter /\ version' = version
           /\ call'[c].at = IF call[c].method = 3 THEN "done" ELSE "send"
           /\ call'[c].method = IF call[c].method = 3 THEN 3 ELSE call[c].method + 1
           /\ call'[c].id = call[c].id
           /\ lists'[c] = [lists[c] EXCEPT ![call[c].method] = reply[c].version]
           /\ began'[c] = began[c]
<1> DEFINE at == IF call[c].method = 3 THEN "done" ELSE "send"
           k  == IF call[c].method = 3 THEN 3 ELSE call[c].method + 1
<1>1. Goto(c, at, k, call[c].id)
    BY DEF Read
<1>2. at \in Steps /\ k \in Methods /\ call[c].id \in Nat
    BY CallType DEF Steps, Methods
<1>3. /\ call' \in [Callers -> [at : Steps, method : Methods, id : Nat]]
      /\ call'[c].at = at /\ call'[c].method = k /\ call'[c].id = call[c].id
      /\ \A b \in Callers : b # c => call'[b] = call[b]
    <2> HIDE DEF at, k
    <2> QED BY <1>1, <1>2, GotoTyped
<1>4. lists' = [lists EXCEPT ![c][call[c].method] = reply[c].version]
      /\ reply' = [reply EXCEPT ![c] = NoReply] /\ UNCHANGED <<idCounter, version, began, calls>>
    BY DEF Read
<1>5. lists' \in [Callers -> [Methods -> Nat]]
    BY <1>4, CallType DEF TypeOK
<1>6. reply' \in [Callers -> Reply]
    BY <1>4 DEF TypeOK, Reply, NoReply, Bodies
<1> QED BY <1>3, <1>4, <1>5, <1>6 DEF TypeOK, OthersKeep

\* The two ways to fail.
LEMMA FailStep ==
    ASSUME TypeOK, NEW c \in Callers, Expire(c) \/ (Read(c) /\ ~Decoded(reply[c]))
    PROVE  /\ TypeOK' /\ OthersKeep(c) /\ idCounter' = idCounter /\ version' = version
           /\ call'[c].at = "failed" /\ call'[c].id = call[c].id
<1>1. /\ Fails(c) /\ reply' = [reply EXCEPT ![c] = NoReply]
      /\ UNCHANGED <<idCounter, version, began, calls>>
    BY DEF Read, Expire
<1>2. /\ Goto(c, "failed", call[c].method, call[c].id) /\ "failed" \in Steps
      /\ call[c].method \in Methods /\ call[c].id \in Nat
    BY <1>1, CallType DEF Fails, Steps
<1>3. /\ call' \in [Callers -> [at : Steps, method : Methods, id : Nat]]
      /\ call'[c].at = "failed" /\ call'[c].id = call[c].id
      /\ \A b \in Callers : b # c => call'[b] = call[b]
    BY <1>2, GotoTyped
<1>4. lists' \in [Callers -> [Methods -> Nat]] /\ reply' \in [Callers -> Reply]
    BY <1>1 DEF Fails, TypeOK, Reply, NoReply, Bodies
<1> QED BY <1>1, <1>3, <1>4 DEF Fails, TypeOK, OthersKeep

LEMMA AnswerStep ==
    ASSUME TypeOK, NEW c \in Callers, Answer(c)
    PROVE  /\ TypeOK' /\ OthersKeep(c) /\ idCounter' = idCounter /\ version' = version
           /\ call'[c].at = "read" /\ call'[c].method = call[c].method /\ call'[c].id = call[c].id
           /\ lists'[c] = lists[c] /\ began'[c] = began[c] /\ reply'[c].version = version
<1>1. /\ Goto(c, "read", call[c].method, call[c].id)
      /\ UNCHANGED <<idCounter, lists, version, began, calls>>
    BY DEF Answer
<1>2. PICK ok \in BOOLEAN, body \in Bodies :
        reply' = [reply EXCEPT ![c] = [ok |-> ok, body |-> body, version |-> version]]
    BY DEF Answer
<1>0. "read" \in Steps /\ call[c].method \in Methods /\ call[c].id \in Nat
    BY CallType DEF Steps
<1>3. /\ call' \in [Callers -> [at : Steps, method : Methods, id : Nat]]
      /\ call'[c].at = "read" /\ call'[c].method = call[c].method /\ call'[c].id = call[c].id
      /\ \A b \in Callers : b # c => call'[b] = call[b]
    BY <1>0, <1>1, GotoTyped
<1>4. [ok |-> ok, body |-> body, version |-> version] \in Reply
    BY <1>2 DEF TypeOK, Reply
<1>5. reply' \in [Callers -> Reply]
    BY <1>2, <1>4 DEF TypeOK
<1>6. TypeOK'
    BY <1>1, <1>3, <1>5 DEF TypeOK
<1>7. OthersKeep(c)
    BY <1>1, <1>2, <1>3 DEF TypeOK, OthersKeep
<1> QED BY <1>1, <1>2, <1>3, <1>6, <1>7 DEF TypeOK

-----------------------------------------------------------------------------
(***************************************************************************)
(* The invariant is one of each call by itself, and of each pair of calls. *)
(***************************************************************************)
Sent(c) == call[c].at \in {"wait", "read"}
ProgressOf(c) == call[c].at \in Running \cup {"done"} =>
    /\ began[c] <= version
    /\ \A m \in Methods : m <= Taken(c) => began[c] <= lists[c][m] /\ lists[c][m] <= version
    /\ \A m, n \in Methods : m <= n /\ n <= Taken(c) => lists[c][m] <= lists[c][n]
AnsweredOf(c) == call[c].at = "read" =>
    /\ began[c] <= reply[c].version /\ reply[c].version <= version
    /\ \A m \in Methods : m <= Taken(c) => lists[c][m] <= reply[c].version

LEMMA PerCall ==
    /\ Progress <=> \A c \in Callers : ProgressOf(c)
    /\ Answered <=> \A c \in Callers : AnsweredOf(c)
BY DEF Progress, ProgressOf, Answered, AnsweredOf

\* The calls that a step does not concern keep what held of them.
LEMMA Untouched ==
    ASSUME TypeOK, NEW c \in Callers, OthersKeep(c), version' = version, Progress, Answered
    PROVE  \A b \in Callers : b # c => ProgressOf(b)' /\ AnsweredOf(b)'
BY DEF OthersKeep, Progress, ProgressOf, Answered, AnsweredOf, Taken

\* IDs stay apart if the step's own ID is kept, or is a new one.
LEMMA IdsStep ==
    ASSUME IInv, NEW c \in Callers, TypeOK', OthersKeep(c),
           \/ idCounter' = idCounter /\ call'[c].id = call[c].id /\ (Sent(c)' => Sent(c))
           \/ idCounter' = idCounter + 1 /\ call'[c].id = idCounter + 1
    PROVE  IdsUnique' /\ IdsCounted'
<1> USE DEF Sent
<1>1. \A b \in Callers : call[b].id \in Nat /\ call'[b].id \in Nat /\ call[b].id <= idCounter
    BY DEF IInv, TypeOK, IdsCounted
<1>2. idCounter \in Nat
    BY DEF IInv, TypeOK
<1>3. IdsCounted'
    BY <1>1, <1>2 DEF IdsCounted, OthersKeep
<1>4. IdsUnique'
    BY <1>1, <1>2 DEF IInv, IdsUnique, OthersKeep
<1> QED BY <1>3, <1>4

\* It is enough to look at the call that takes the step.
LEMMA OneCall ==
    ASSUME IInv, NEW c \in Callers, TypeOK', OthersKeep(c), version' = version,
           \/ idCounter' = idCounter /\ call'[c].id = call[c].id /\ (Sent(c)' => Sent(c))
           \/ idCounter' = idCounter + 1 /\ call'[c].id = idCounter + 1,
           ProgressOf(c)', AnsweredOf(c)'
    PROVE  IInv'
<1>1. IdsUnique' /\ IdsCounted'
    BY IdsStep
<1>2. \A b \in Callers : ProgressOf(b)' /\ AnsweredOf(b)'
    BY Untouched DEF IInv
<1>3. Progress' /\ Answered'
    BY <1>2 DEF Progress, ProgressOf, Answered, AnsweredOf
<1> QED BY <1>1, <1>3 DEF IInv

LEMMA DiscoverKeeps == ASSUME IInv, NEW c \in Callers, Discover(c) PROVE IInv'
<1>0. TypeOK /\ version \in Nat
    BY DEF IInv, TypeOK
<1>1. ProgressOf(c)'
    BY <1>0, DiscoverStep DEF ProgressOf, Taken, Methods
<1>2. AnsweredOf(c)'
    BY <1>0, DiscoverStep DEF AnsweredOf
<1> QED BY <1>0, <1>1, <1>2, DiscoverStep, OneCall DEF Sent

LEMMA SendKeeps == ASSUME IInv, NEW c \in Callers, Send(c) PROVE IInv'
<1>0. TypeOK
    BY DEF IInv
<1>1. ProgressOf(c)'
    BY <1>0, SendStep DEF Send, IInv, Progress, ProgressOf, Taken, Running
<1>2. AnsweredOf(c)'
    BY <1>0, SendStep DEF AnsweredOf
<1> QED BY <1>0, <1>1, <1>2, SendStep, OneCall

LEMMA ReadKeeps == ASSUME IInv, NEW c \in Callers, Read(c), Decoded(reply[c]) PROVE IInv'
<1> DEFINE k == call[c].method
<1>0. TypeOK /\ call[c].at = "read"
    BY DEF IInv, Read
<1>1. /\ k \in 1..3 /\ version \in Nat /\ began[c] \in Nat
      /\ lists[c] \in [1..3 -> Nat] /\ reply[c].version \in Nat
    BY <1>0, CallType DEF TypeOK, Methods
<1>2. /\ began[c] <= version /\ began[c] <= reply[c].version /\ reply[c].version <= version
      /\ \A m \in 1..3 : m <= k - 1 => /\ began[c] <= lists[c][m] /\ lists[c][m] <= version
                                       /\ lists[c][m] <= reply[c].version
      /\ \A m, n \in 1..3 : m <= n /\ n <= k - 1 => lists[c][m] <= lists[c][n]
    BY <1>0 DEF IInv, Progress, Answered, Taken, Running, Methods
<1>3. Taken(c)' = k
    <2>1. /\ call'[c].at = IF k = 3 THEN "done" ELSE "send"
          /\ call'[c].method = IF k = 3 THEN 3 ELSE k + 1
        BY <1>0, ReadStep
    <2>2. Taken(c)' = IF call'[c].at = "done" THEN 3 ELSE call'[c].method - 1
        BY DEF Taken
    <2>3. CASE k = 3
        BY <2>1, <2>2, <2>3
    <2>4. CASE k # 3
        <3>1. call'[c].at # "done" /\ call'[c].method = k + 1
            BY <2>1, <2>4
        <3>2. k \in Nat
            BY <1>1
        <3> HIDE DEF k
        <3> QED BY <2>2, <3>1, <3>2
    <2> QED BY <2>3, <2>4
<1>4. /\ \A m \in 1..3 : m # k => lists'[c][m] = lists[c][m]
      /\ lists'[c][k] = reply[c].version
    BY <1>0, <1>1, ReadStep
<1>5. ProgressOf(c)'
    <2>1. \A m \in 1..3 : m <= k => began[c] <= lists'[c][m] /\ lists'[c][m] <= version
        BY <1>1, <1>2, <1>4
    <2>2. \A m, n \in 1..3 : m <= n /\ n <= k => lists'[c][m] <= lists'[c][n]
        BY <1>1, <1>2, <1>4
    <2>3. began'[c] = began[c] /\ version' = version
        BY <1>0, ReadStep
    <2> QED BY <1>2, <1>3, <2>1, <2>2, <2>3 DEF ProgressOf, Methods
<1>6. AnsweredOf(c)'
    BY <1>0, ReadStep DEF AnsweredOf
<1>7. ~Sent(c)'
    BY <1>0, ReadStep DEF Sent
<1> QED BY <1>0, <1>5, <1>6, <1>7, ReadStep, OneCall

LEMMA FailKeeps ==
    ASSUME IInv, NEW c \in Callers, Expire(c) \/ (Read(c) /\ ~Decoded(reply[c]))
    PROVE  IInv'
<1>0. TypeOK
    BY DEF IInv
<1>1. ProgressOf(c)' /\ AnsweredOf(c)' /\ ~Sent(c)'
    BY <1>0, FailStep DEF ProgressOf, AnsweredOf, Running, Sent
<1> QED BY <1>0, <1>1, FailStep, OneCall

LEMMA AnswerKeeps == ASSUME IInv, NEW c \in Callers, Answer(c) PROVE IInv'
<1>0. TypeOK /\ call[c].at = "wait"
    BY DEF IInv, Answer
<1>1. Taken(c)' = Taken(c)
    BY <1>0, AnswerStep DEF Taken
<1>2. ProgressOf(c)'
    BY <1>0, <1>1, AnswerStep DEF IInv, Progress, ProgressOf, Running
<1>3. AnsweredOf(c)'
    BY <1>0, <1>1, AnswerStep DEF TypeOK, IInv, Progress, AnsweredOf, Running
<1>4. Sent(c)
    BY <1>0 DEF Sent
<1> QED BY <1>0, <1>2, <1>3, <1>4, AnswerStep, OneCall

LEMMA UpgradeKeeps == IInv /\ Upgrade => IInv'
<1> SUFFICES ASSUME IInv, Upgrade PROVE IInv'
    OBVIOUS
<1>1. version \in Nat /\ version' = version + 1
      /\ UNCHANGED <<idCounter, call, lists, reply, began, calls>>
    BY DEF IInv, TypeOK, Upgrade
<1>2. TypeOK' /\ IdsUnique' /\ IdsCounted'
    BY <1>1 DEF IInv, TypeOK, IdsUnique, IdsCounted
<1>3. \A c \in Callers : /\ began[c] \in Nat /\ reply[c].version \in Nat
                         /\ lists[c] \in [Methods -> Nat]
    BY CallType DEF IInv
<1>4. Progress'
    BY <1>1, <1>3 DEF IInv, Progress, Taken
<1>5. Answered'
    BY <1>1, <1>3 DEF IInv, Answered, Taken
<1> QED BY <1>2, <1>4, <1>5 DEF IInv

-----------------------------------------------------------------------------
\* IInv holds initially and every step keeps it: of any number of callers of one Client, in any
\* interleaving of their calls, answers, failures and upgrades of the server (discovery.go:126-254).
THEOREM InvariantHolds == Spec => []IInv
<1>1. Init => IInv
    <2> SUFFICES ASSUME Init PROVE IInv
        OBVIOUS
    <2>1. TypeOK
        BY DEF Init, TypeOK, Steps, Methods, Reply, NoReply, Bodies
    <2>2. \A c \in Callers : call[c].at = "idle" /\ call[c].id = 0
        BY DEF Init
    <2> QED BY <2>1, <2>2
        DEF Init, IInv, IdsUnique, IdsCounted, Progress, Answered, Running
<1>2. IInv /\ [Next]_vars => IInv'
    <2> SUFFICES ASSUME IInv, [Next]_vars PROVE IInv'
        OBVIOUS
    <2>1. ASSUME NEW c \in Callers, Caller(c) PROVE IInv'
        BY <2>1, DiscoverKeeps, SendKeeps, ReadKeeps, FailKeeps DEF Caller
    <2>2. ASSUME NEW c \in Callers, Answer(c) PROVE IInv'
        BY <2>2, AnswerKeeps
    <2>3. CASE Upgrade
        BY <2>3, UpgradeKeeps
    <2>4. CASE UNCHANGED vars
        BY <2>4 DEF vars, IInv, TypeOK, IdsUnique, IdsCounted, Progress, Answered, Taken
    <2> QED BY <2>1, <2>2, <2>3, <2>4 DEF Next
<1> QED BY <1>1, <1>2, PTL DEF Spec

\* The state of every call stays well typed.
THEOREM TypeCorrect == Spec => []TypeOK
<1>1. IInv => TypeOK
    BY DEF IInv
<1> QED BY <1>1, InvariantHolds, PTL

\* No two requests under way share an ID (discovery.go:211-215).
THEOREM RequestsDistinct == Spec => []IdsUnique
<1>1. IInv => IdsUnique
    BY DEF IInv
<1> QED BY <1>1, InvariantHolds, PTL

\* What Discover returns without an error are three lists that the server gave during the
\* call, each from a version no older than the one before (discovery.go:126-149).
THEOREM CapabilitiesGenuine == Spec => []Genuine
<1>1. IInv => Genuine
    <2> SUFFICES ASSUME IInv, NEW c \in Callers, call[c].at = "done"
                 PROVE  began[c] <= lists[c][1] /\ ListsInOrder(c) /\ lists[c][3] <= version
        BY DEF Genuine
    <2>1. /\ \A m \in Methods : m <= 3 => began[c] <= lists[c][m] /\ lists[c][m] <= version
          /\ \A m, n \in Methods : m <= n /\ n <= 3 => lists[c][m] <= lists[c][n]
        BY DEF IInv, Progress, Taken
    <2>2. 1 \in Methods /\ 2 \in Methods /\ 3 \in Methods
        BY DEF Methods
    <2> QED BY <2>1, <2>2 DEF ListsInOrder
<1> QED BY <1>1, InvariantHolds, PTL
-----------------------------------------------------------------------------
\* How many steps a Discover takes at most until it returns: three for each call.
Left(c) ==
    LET calls_left == 3 * (4 - call[c].method)
    IN  CASE call[c].at = "send" -> calls_left
          [] call[c].at = "wait" -> calls_left - 1
          [] call[c].at = "read" -> calls_left - 2
          [] OTHER -> 0

\* Left, case by case.
LEMMA LeftCases ==
    ASSUME NEW c \in Callers, NEW m \in Methods, call[c].method = m
    PROVE  /\ call[c].at = "send" => Left(c) = 12 - 3 * m
           /\ call[c].at = "wait" => Left(c) = 11 - 3 * m
           /\ call[c].at = "read" => Left(c) = 10 - 3 * m
           /\ call[c].at \in {"done", "failed"} => Left(c) = 0
<1>1. 3 * (4 - m) = 12 - 3 * m
    BY DEF Methods
<1>2. 3 * (4 - call[c].method) = 12 - 3 * m
    BY <1>1
<1> QED BY <1>2 DEF Left, Methods

\* A running Discover is one step nearer its end with each step of its own: it comes back to
\* no call that it has made, and there are three (discovery.go:126-149).
LEMMA StepAdvances ==
    ASSUME TypeOK, NEW c \in Callers, call[c].at \in Running, Caller(c) \/ Answer(c)
    PROVE  Left(c)' < Left(c) /\ OthersKeep(c)
<1> DEFINE m == call[c].method
<1>1. m \in Methods
    BY CallType
<1>2. CASE Send(c)
    <2>1. call[c].at = "send" /\ call'[c].at = "wait" /\ call'[c].method = m /\ OthersKeep(c)
        BY <1>2, SendStep DEF Send
    <2>2. Left(c) = 12 - 3 * m
        BY <1>1, <2>1, LeftCases
    <2>3. Left(c)' = 11 - 3 * m
        BY <1>1, <2>1 DEF Left, Methods
    <2> QED BY <1>1, <2>1, <2>2, <2>3 DEF Methods
<1>3. CASE Answer(c)
    <2>1. call[c].at = "wait" /\ call'[c].at = "read" /\ call'[c].method = m /\ OthersKeep(c)
        BY <1>3, AnswerStep DEF Answer
    <2>2. Left(c) = 11 - 3 * m
        BY <1>1, <2>1, LeftCases
    <2>3. Left(c)' = 10 - 3 * m
        BY <1>1, <2>1 DEF Left, Methods
    <2> QED BY <1>1, <2>1, <2>2, <2>3 DEF Methods
<1>4. CASE Read(c) /\ Decoded(reply[c])
    <2>1. /\ call[c].at = "read" /\ OthersKeep(c)
          /\ call'[c].at = IF m = 3 THEN "done" ELSE "send"
          /\ call'[c].method = IF m = 3 THEN 3 ELSE m + 1
        BY <1>4, ReadStep DEF Read
    <2>2. Left(c) = 10 - 3 * m
        BY <1>1, <2>1, LeftCases
    <2>3. CASE m = 3
        <3>1. Left(c)' = 0
            BY <2>1, <2>3 DEF Left
        <3> QED BY <2>1, <2>2, <2>3, <3>1
    <2>4. CASE m # 3
        <3>1. call'[c].at = "send" /\ call'[c].method = m + 1
            BY <2>1, <2>4
        <3>2. Left(c)' = 3 * (4 - (m + 1))
            BY <3>1 DEF Left
        <3> QED BY <1>1, <2>1, <2>2, <3>2 DEF Methods
    <2> QED BY <2>3, <2>4
<1>5. CASE Expire(c) \/ (Read(c) /\ ~Decoded(reply[c]))
    <2>1. call[c].at \in {"wait", "read"} /\ call'[c].at = "failed" /\ OthersKeep(c)
        BY <1>5, FailStep DEF Expire, Read
    <2>2. Left(c)' = 0
        BY <2>1 DEF Left
    <2>3. Left(c) \in {11 - 3 * m, 10 - 3 * m}
        BY <1>1, <2>1, LeftCases
    <2> QED BY <1>1, <2>1, <2>2, <2>3 DEF Methods
<1>6. ~Discover(c)
    BY DEF Discover
<1> QED BY <1>2, <1>3, <1>4, <1>5, <1>6 DEF Caller

LEMMA LeftBounds ==
    ASSUME NEW m \in Methods, NEW l \in {12 - 3 * m, 11 - 3 * m, 10 - 3 * m}
    PROVE  l \in 1..9
BY DEF Methods

Advancing ==
    \A c \in Callers :
        call[c].at \in Running =>
            /\ Left(c) \in 1..9
            /\ call'[c] = call[c] \/ Left(c)' < Left(c)

\* No step, of the call itself or of other callers and the server, takes a running Discover
\* back, and it has at most nine to go: with goroutines that run and a time limit that fires, it
\* returns (discovery.go:116-149).
THEOREM CallsAdvance == Spec => [][Advancing]_vars
<1>1. IInv /\ [Next]_vars => [Advancing]_vars
    <2> SUFFICES ASSUME IInv, Next
                 PROVE  Advancing
        OBVIOUS
    <2> SUFFICES ASSUME NEW c \in Callers, call[c].at \in Running
                 PROVE  Left(c) \in 1..9 /\ (call'[c] = call[c] \/ Left(c)' < Left(c))
        BY DEF Advancing
    <2>1. TypeOK
        BY DEF IInv
    <2>2. Left(c) \in 1..9
        <3>1. call[c].method \in Methods
            BY <2>1, CallType
        <3>2. Left(c) \in {12 - 3 * call[c].method, 11 - 3 * call[c].method, 10 - 3 * call[c].method}
            BY <3>1, LeftCases DEF Running
        <3> QED BY <3>1, <3>2, LeftBounds
    <2>3. ASSUME NEW b \in Callers, Caller(b) \/ Answer(b)
          PROVE  call'[c] = call[c] \/ Left(c)' < Left(c)
        <3>1. CASE b = c
            BY <2>1, <2>3, <3>1, StepAdvances
        <3>2. CASE b # c
            <4>1. OthersKeep(b)
                BY <2>1, <2>3, DiscoverStep, SendStep, ReadStep, FailStep, AnswerStep DEF Caller
            <4> QED BY <3>2, <4>1 DEF OthersKeep
        <3> QED BY <3>1, <3>2
    <2>4. ASSUME Upgrade PROVE call'[c] = call[c]
        BY <2>4 DEF Upgrade
    <2>5. (\E b \in Callers : Caller(b) \/ Answer(b)) \/ Upgrade
        BY DEF Next
    <2>6. call'[c] = call[c] \/ Left(c)' < Left(c)
        BY <2>3, <2>4, <2>5
    <2> QED BY <2>2, <2>6
<1> QED BY <1>1, InvariantHolds, PTL DEF Spec
=============================================================================
