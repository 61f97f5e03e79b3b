------------------------- MODULE AuditLogger_proofs -------------------------
(***************************************************************************)
(* Theorems about AuditLogger, for any finite set of requests and any      *)
(* number of sinks, whichever of them are stuck.                           *)
(***************************************************************************)
EXTENDS AuditLogger, FiniteSetTheorems, TLAPS

PairedAt(r, i) ==
    /\ job[r][i].at # "none" => job[r][i].sink = i /\ r \in Tried
    /\ job[r][i].at = "none" => ~job[r][i].stored
    /\ job[r][i].at = "written" => job[r][i].stored
    /\ received[i][r] = Bit(job[r][i].stored)
    /\ log[r].at = "loop" => (r \in Tried /\ (job[r][i].at = "none" <=> i >= log[r].i))
    /\ log[r].at \in {"new", "line"} => job[r][i].at = "none"

LEMMA PairedByParts == Paired <=> \A r \in Requests, i \in Sinks : PairedAt(r, i)
BY DEF Paired, PairedAt

LEMMA PairedByPartsNext == Paired' <=> \A r \in Requests, i \in Sinks : PairedAt(r, i)'
BY DEF Paired, PairedAt

LEMMA Types ==
    ASSUME TypeOK, NEW r \in Requests, NEW i \in Sinks
    PROVE  /\ log[r].at \in Points /\ log[r].i \in 1..NumSinks + 1
           /\ job[r][i] \in Job /\ job[r][i].sink \in 0..NumSinks
           /\ job[r][i].stored \in BOOLEAN /\ received[i][r] \in Nat
BY DEF TypeOK, Job

\* Steps of Log: another point of r's call.
LEMMA LogTyped ==
    ASSUME TypeOK, NEW r \in Requests, NEW at \in Points, NEW k \in 1..NumSinks + 1,
           log' = [log EXCEPT ![r] = [at |-> at, i |-> k]]
    PROVE  /\ log' \in [Requests -> [at : Points, i : 1..NumSinks + 1]]
           /\ log'[r].at = at /\ log'[r].i = k
           /\ \A q \in Requests : q # r => log'[q] = log[q]
BY DEF TypeOK

\* Steps of a goroutine or of its sink: another state of one job.
JobBecomes(r, i, j) ==
    /\ job' \in [Requests -> [Sinks -> Job]]
    /\ job'[r][i] = j
    /\ \A q \in Requests, k \in Sinks : <<q, k>> # <<r, i>> => job'[q][k] = job[q][k]

LEMMA JobTyped ==
    ASSUME TypeOK, NEW r \in Requests, NEW i \in Sinks, NEW j \in Job,
           job' = [job EXCEPT ![r][i] = j]
    PROVE  JobBecomes(r, i, j)
<1>1. job \in [Requests -> [Sinks -> Job]]
    BY DEF TypeOK
<1>2. job' \in [Requests -> [Sinks -> Job]] /\ job'[r][i] = j
    BY <1>1
<1>3. ASSUME NEW q \in Requests, NEW k \in Sinks, <<q, k>> # <<r, i>>
      PROVE  job'[q][k] = job[q][k]
    <2>1. q # r \/ k # i
        BY <1>3
    <2> QED BY <1>1, <2>1
<1> QED BY <1>2, <1>3 DEF JobBecomes

-----------------------------------------------------------------------------
(***************************************************************************)
(* The failures and their number                                           *)
(***************************************************************************)
LEMMA FailedFinite == IsFiniteSet(Failed)
<1>1. IsFiniteSet(Sinks)
    BY FS_Interval, AuditAssumption DEF Sinks
<1>2. IsFiniteSet(Requests \X Sinks)
    BY <1>1, FS_Product, AuditAssumption
<1> QED BY <1>2, FS_Subset DEF Failed

LEMMA FailedSame ==
    ASSUME \A r \in Requests, i \in Sinks : job'[r][i].at = "failed" <=> job[r][i].at = "failed"
    PROVE  Failed' = Failed
BY DEF Failed

-----------------------------------------------------------------------------
LEMMA CallKeeps == ASSUME IInv, NEW r \in Requests, Call(r) PROVE IInv'
<1>0. "line" \in Points /\ 1 \in 1..NumSinks + 1
    BY AuditAssumption DEF Points
<1>1. /\ log' \in [Requests -> [at : Points, i : 1..NumSinks + 1]]
      /\ log'[r].at = "line" /\ \A q \in Requests : q # r => log'[q] = log[q]
    BY <1>0, LogTyped DEF IInv, Call
<1>2. TypeOK'
    BY <1>1 DEF IInv, TypeOK, Call
<1>3. \A q \in Requests, i \in Sinks : PairedAt(q, i)'
    BY <1>1 DEF IInv, Paired, PairedAt, Call, Tried
<1>4. Failed' = Failed
    BY FailedSame DEF Call
<1> QED BY <1>2, <1>3, <1>4, PairedByPartsNext DEF IInv, Call

LEMMA WriteLineKeeps == ASSUME IInv, NEW r \in Requests, WriteLine(r) PROVE IInv'
<1>0. "loop" \in Points /\ 1 \in 1..NumSinks + 1
    BY AuditAssumption DEF Points
<1>1. /\ log' \in [Requests -> [at : Points, i : 1..NumSinks + 1]]
      /\ log'[r].at = "loop" /\ log'[r].i = 1 /\ \A q \in Requests : q # r => log'[q] = log[q]
    BY <1>0, LogTyped DEF IInv, WriteLine
<1>2. TypeOK'
    BY <1>1 DEF IInv, TypeOK, WriteLine
<1>3. \A q \in Requests, i \in Sinks : PairedAt(q, i)'
    <2> SUFFICES ASSUME NEW q \in Requests, NEW i \in Sinks PROVE PairedAt(q, i)'
        OBVIOUS
    <2>1. PairedAt(q, i) /\ i >= 1
        BY PairedByParts, AuditAssumption DEF IInv, Sinks
    <2> QED BY <1>1, <2>1 DEF PairedAt, WriteLine, Tried
<1>4. Failed' = Failed
    BY FailedSame DEF WriteLine
<1> QED BY <1>2, <1>3, <1>4, PairedByPartsNext DEF IInv, WriteLine

LEMMA DispatchKeeps == ASSUME IInv, NEW r \in Requests, Dispatch(r) PROVE IInv'
<1> DEFINE i == log[r].i
<1>0. /\ TypeOK /\ log[r].at = "loop" /\ i \in Sinks
      /\ job' = [job EXCEPT ![r][i] = Started(i)]
      /\ log' = [log EXCEPT ![r] = [at |-> "loop", i |-> i + 1]]
      /\ UNCHANGED <<stdout, dropped, received, errors, restarts>>
    BY DEF IInv, Dispatch
<1>1. Started(i) \in Job /\ i + 1 \in 1..NumSinks + 1 /\ "loop" \in Points
    BY <1>0, AuditAssumption DEF Started, Job, Sinks, Points
<1> HIDE DEF i
<1>2. /\ log' \in [Requests -> [at : Points, i : 1..NumSinks + 1]]
      /\ log'[r].at = "loop" /\ log'[r].i = i + 1 /\ \A q \in Requests : q # r => log'[q] = log[q]
    BY <1>0, <1>1, LogTyped
<1>3. /\ job' \in [Requests -> [Sinks -> Job]] /\ job'[r][i] = Started(i)
      /\ \A q \in Requests, k \in Sinks : <<q, k>> # <<r, i>> => job'[q][k] = job[q][k]
    <2>1. JobBecomes(r, i, Started(i))
        BY <1>0, <1>1, JobTyped
    <2> QED BY <2>1 DEF JobBecomes
<1>4. TypeOK'
    BY <1>0, <1>2, <1>3 DEF TypeOK
<1>5. PairedAt(r, i) /\ job[r][i].at = "none" /\ r \in Tried
    <2>1. PairedAt(r, i) /\ log[r].i = i /\ i \in Nat
        BY <1>0, PairedByParts DEF IInv, i, Sinks
    <2> QED BY <1>0, <2>1 DEF PairedAt
<1>6. \A q \in Requests, k \in Sinks : PairedAt(q, k)'
    <2> SUFFICES ASSUME NEW q \in Requests, NEW k \in Sinks PROVE PairedAt(q, k)'
        OBVIOUS
    <2>1. PairedAt(q, k) /\ k \in Nat /\ i \in Nat
        BY <1>0, PairedByParts DEF IInv, Sinks
    <2>2. CASE q = r /\ k = i
        <3>1. received[i][r] = Bit(FALSE)
            BY <1>5 DEF PairedAt, Bit
        <3> QED BY <1>0, <1>2, <1>3, <1>5, <2>1, <2>2, <3>1 DEF PairedAt, Started, Tried
    <2>3. CASE q = r /\ k # i
        <3>1. log[r].at = "loop" /\ log[r].i = i
            BY <1>0 DEF i
        <3>2. k >= i <=> k >= i + 1
            BY <2>1, <2>3
        <3> QED BY <1>0, <1>2, <1>3, <2>1, <2>3, <3>1, <3>2 DEF PairedAt, Tried
    <2>4. CASE q # r
        BY <1>0, <1>2, <1>3, <2>1, <2>4 DEF PairedAt, Tried
    <2> QED BY <2>2, <2>3, <2>4
<1>7. Failed' = Failed
    BY <1>0, <1>3, <1>5, FailedSame DEF Started
<1> QED BY <1>0, <1>4, <1>6, <1>7, PairedByPartsNext DEF IInv

LEMMA ReturnKeeps == ASSUME IInv, NEW r \in Requests, Return(r) PROVE IInv'
<1>0. "returned" \in Points /\ log[r].i \in 1..NumSinks + 1
    BY DEF IInv, TypeOK, Points
<1>1. /\ log' \in [Requests -> [at : Points, i : 1..NumSinks + 1]]
      /\ log'[r].at = "returned" /\ \A q \in Requests : q # r => log'[q] = log[q]
    BY <1>0, LogTyped DEF IInv, Return
<1>2. TypeOK'
    BY <1>1 DEF IInv, TypeOK, Return
<1>3. \A q \in Requests, i \in Sinks : PairedAt(q, i)'
    BY <1>1 DEF IInv, Paired, PairedAt, Return, Tried
<1>4. Failed' = Failed
    BY FailedSame DEF Return
<1> QED BY <1>2, <1>3, <1>4, PairedByPartsNext DEF IInv, Return

LEMMA StoreKeeps == ASSUME IInv, NEW r \in Requests, NEW i \in Sinks, Store(r, i) PROVE IInv'
<1> DEFINE j == [at |-> job[r][i].at, sink |-> job[r][i].sink, stored |-> TRUE]
<1>0. /\ TypeOK /\ job[r][i].at # "none" /\ ~job[r][i].stored
      /\ job' = [job EXCEPT ![r][i] = j]
      /\ UNCHANGED <<log, stdout, dropped, errors, restarts>>
    BY DEF IInv, Store
<1>1. PairedAt(r, i)
    BY PairedByParts DEF IInv
<1>2. job[r][i].sink = i /\ received[i][r] = 0
    BY <1>0, <1>1 DEF PairedAt, Bit
<1>3. received' = [received EXCEPT ![i] = [received[i] EXCEPT ![r] = 1]]
    BY <1>2 DEF Store
<1>4. j \in Job
    BY <1>0 DEF TypeOK, Job
<1>5. j.at = job[r][i].at /\ j.sink = job[r][i].sink /\ j.stored
    OBVIOUS
<1> HIDE DEF j
<1>6. /\ job' \in [Requests -> [Sinks -> Job]] /\ job'[r][i] = j
      /\ \A q \in Requests, k \in Sinks : <<q, k>> # <<r, i>> => job'[q][k] = job[q][k]
    <2>1. JobBecomes(r, i, j)
        BY <1>0, <1>4, JobTyped
    <2> QED BY <2>1 DEF JobBecomes
<1>7. /\ received' \in [Sinks -> [Requests -> Nat]] /\ received'[i][r] = 1
      /\ \A q \in Requests, k \in Sinks : <<q, k>> # <<r, i>> => received'[k][q] = received[k][q]
    BY <1>0, <1>3 DEF TypeOK
<1>8. TypeOK'
    BY <1>0, <1>6, <1>7 DEF TypeOK
<1>9. \A q \in Requests, k \in Sinks : PairedAt(q, k)'
    <2> SUFFICES ASSUME NEW q \in Requests, NEW k \in Sinks PROVE PairedAt(q, k)'
        OBVIOUS
    <2>1. PairedAt(q, k)
        BY PairedByParts DEF IInv
    <2>2. CASE <<q, k>> = <<r, i>>
        BY <1>0, <1>1, <1>5, <1>6, <1>7, <2>2 DEF PairedAt, Bit, Tried
    <2>3. CASE <<q, k>> # <<r, i>>
        BY <1>0, <1>6, <1>7, <2>1, <2>3 DEF PairedAt, Tried
    <2> QED BY <2>2, <2>3
<1>10. Failed' = Failed
    BY <1>5, <1>6, FailedSame
<1> QED BY <1>0, <1>8, <1>9, <1>10, PairedByPartsNext DEF IInv

\* A goroutine that ends keeps its sink and what the sink has stored.
LEMMA EndKeeps ==
    ASSUME IInv, NEW r \in Requests, NEW i \in Sinks, NEW at \in Ends,
           job[r][i].at = "running", at = "written" => job[r][i].stored,
           job' = [job EXCEPT ![r][i] = Ended(job[r][i], at)],
           UNCHANGED <<log, stdout, dropped, received, restarts>>, errors' \in Nat
    PROVE  /\ TypeOK' /\ Paired'
           /\ job'[r][i].at = at
           /\ \A q \in Requests, k \in Sinks : <<q, k>> # <<r, i>> => job'[q][k] = job[q][k]
<1> DEFINE j == Ended(job[r][i], at)
<1>1. j \in Job /\ j.at = at /\ j.sink = job[r][i].sink /\ j.stored = job[r][i].stored
    BY DEF IInv, TypeOK, Ended, Job
<1> HIDE DEF j
<1>2. /\ job' \in [Requests -> [Sinks -> Job]] /\ job'[r][i] = j
      /\ \A q \in Requests, k \in Sinks : <<q, k>> # <<r, i>> => job'[q][k] = job[q][k]
    <2>1. TypeOK /\ job' = [job EXCEPT ![r][i] = j]
        BY DEF IInv, j
    <2>2. JobBecomes(r, i, j)
        BY <1>1, <2>1, JobTyped
    <2> QED BY <2>2 DEF JobBecomes
<1>3. TypeOK'
    BY <1>2 DEF IInv, TypeOK
<1>4. \A q \in Requests, k \in Sinks : PairedAt(q, k)'
    <2> SUFFICES ASSUME NEW q \in Requests, NEW k \in Sinks PROVE PairedAt(q, k)'
        OBVIOUS
    <2>1. PairedAt(q, k)
        BY PairedByParts DEF IInv
    <2>2. CASE <<q, k>> = <<r, i>>
        BY <1>1, <1>2, <2>1, <2>2 DEF PairedAt, Ends, Tried
    <2>3. CASE <<q, k>> # <<r, i>>
        BY <1>2, <2>1, <2>3 DEF PairedAt, Tried
    <2> QED BY <2>2, <2>3
<1> QED BY <1>1, <1>2, <1>3, <1>4, PairedByPartsNext

LEMMA FailKeeps == ASSUME IInv, NEW r \in Requests, NEW i \in Sinks, Fail(r, i) PROVE IInv'
<1>0. /\ "failed" \in Ends /\ job[r][i].at = "running" /\ errors' \in Nat
      /\ job' = [job EXCEPT ![r][i] = Ended(job[r][i], "failed")]
      /\ UNCHANGED <<log, stdout, dropped, received, restarts>>
    BY DEF Fail, Ends, IInv, TypeOK
<1>1. /\ TypeOK' /\ Paired' /\ job'[r][i].at = "failed"
      /\ \A q \in Requests, k \in Sinks : <<q, k>> # <<r, i>> => job'[q][k] = job[q][k]
    BY <1>0, EndKeeps
<1>2. <<r, i>> \notin Failed /\ Failed' = Failed \cup {<<r, i>>}
    BY <1>1 DEF Failed, Fail
<1>3. Cardinality(Failed') = Cardinality(Failed) + 1
    BY <1>2, FailedFinite, FS_AddElement
<1> QED BY <1>1, <1>3 DEF IInv, Fail

LEMMA SucceedKeeps == ASSUME IInv, NEW r \in Requests, NEW i \in Sinks, Succeed(r, i) PROVE IInv'
<1>1. /\ TypeOK' /\ Paired' /\ job'[r][i].at = "written" /\ job[r][i].at = "running"
      /\ \A q \in Requests, k \in Sinks : <<q, k>> # <<r, i>> => job'[q][k] = job[q][k]
    BY EndKeeps DEF Succeed, Ends, IInv, TypeOK
<1>2. Failed' = Failed
    BY <1>1, FailedSame
<1> QED BY <1>1, <1>2 DEF IInv, Succeed

LEMMA RestartKeeps == IInv /\ Restart => IInv'
<1> SUFFICES ASSUME IInv, Restart PROVE IInv'
    OBVIOUS
<1>0. UNCHANGED <<stdout, dropped, received, errors>> /\ restarts' \in Nat
    BY DEF IInv, TypeOK, Restart
<1>1. \A r \in Requests :
        /\ log'[r] \in [at : Points, i : 1..NumSinks + 1]
        /\ log'[r].at \notin {"line", "loop"} /\ (log'[r].at = "new" => log[r].at = "new")
    BY DEF IInv, TypeOK, Restart, Points
<1>2. \A r \in Requests, i \in Sinks :
        /\ job'[r][i] \in Job
        /\ job'[r][i].sink = job[r][i].sink /\ job'[r][i].stored = job[r][i].stored
        /\ job'[r][i].at = IF job[r][i].at = "running" THEN "lost" ELSE job[r][i].at
    BY DEF IInv, TypeOK, Restart, Ended, Ends, Job
<1>3. log' \in [Requests -> [at : Points, i : 1..NumSinks + 1]]
    BY <1>1 DEF Restart
<1>4. job' \in [Requests -> [Sinks -> Job]]
    BY <1>2 DEF Restart
<1>5. TypeOK'
    BY <1>0, <1>3, <1>4 DEF IInv, TypeOK
<1>6. \A r \in Requests, i \in Sinks : PairedAt(r, i)'
    <2> SUFFICES ASSUME NEW r \in Requests, NEW i \in Sinks PROVE PairedAt(r, i)'
        OBVIOUS
    <2>1. PairedAt(r, i)
        BY PairedByParts DEF IInv
    <2> QED BY <1>0, <1>1, <1>2, <2>1 DEF PairedAt, Tried
<1>7. Failed' = Failed
    BY <1>2, FailedSame
<1> QED BY <1>0, <1>5, <1>6, <1>7, PairedByPartsNext DEF IInv

-----------------------------------------------------------------------------
\* IInv holds initially and every step keeps it, for any number of concurrent calls of Log, any
\* number of sinks and restarts (logger.go:85-114).
THEOREM InvariantHolds == Spec => []IInv
<1>1. Init => IInv
    <2> SUFFICES ASSUME Init PROVE IInv
        OBVIOUS
    <2>1. TypeOK
        BY AuditAssumption DEF Init, TypeOK, Points, Job, Sinks
    <2>2. Paired
        BY DEF Init, Paired, Bit
    <2>3. Failed = {}
        BY DEF Init, Failed
    <2> QED BY <2>1, <2>2, <2>3, FS_EmptySet DEF Init, IInv
<1>2. IInv /\ [Next]_vars => IInv'
    <2> SUFFICES ASSUME IInv, [Next]_vars PROVE IInv'
        OBVIOUS
    <2>1. ASSUME NEW r \in Requests, Call(r) \/ WriteLine(r) \/ Dispatch(r) \/ Return(r)
          PROVE  IInv'
        BY <2>1, CallKeeps, WriteLineKeeps, DispatchKeeps, ReturnKeeps
    <2>2. ASSUME NEW r \in Requests, NEW i \in Sinks, Store(r, i) \/ Fail(r, i) \/ Succeed(r, i)
          PROVE  IInv'
        BY <2>2, StoreKeeps, FailKeeps, SucceedKeeps
    <2>3. CASE Restart
        BY <2>3, RestartKeeps
    <2>4. CASE UNCHANGED vars
        BY <2>4 DEF vars, IInv, TypeOK, Paired, Failed, Tried
    <2> QED BY <2>1, <2>2, <2>3, <2>4 DEF Next
<1> QED BY <1>1, <1>2, PTL DEF Spec

\* Every reachable state is well typed.
THEOREM TypeCorrect == Spec => []TypeOK
<1>1. IInv => TypeOK
    BY DEF IInv
<1> QED BY <1>1, InvariantHolds, PTL

\* A sink only has what stdout was given before, and nothing twice (logger.go:104-113).
THEOREM SinksFollow == Spec => []SinksFollowLog
<1>1. IInv => SinksFollowLog
    <2> SUFFICES ASSUME IInv, NEW s \in Sinks, NEW r \in Requests
                 PROVE  received[s][r] <= 1 /\ (received[s][r] > 0 => r \in Tried)
        BY DEF SinksFollowLog
    <2>1. PairedAt(r, s)
        BY PairedByParts DEF IInv
    <2> QED BY <2>1 DEF PairedAt, Bit
<1> QED BY <1>1, InvariantHolds, PTL

\* No more entries are missing from sinks than errors have been reported (logger.go:109-111).
THEOREM EntriesAccounted == Spec => []Accounted
<1>1. IInv => Accounted
    <2> SUFFICES ASSUME IInv PROVE Accounted
        OBVIOUS
    <2>1. ASSUME NEW r \in Requests, NEW s \in Sinks, <<r, s>> \in Missing
          PROVE  <<r, s>> \in Failed
        <3>1. PairedAt(r, s) /\ received[s][r] = 0 /\ job[r][s].at \in {"written", "failed"}
            BY <2>1, PairedByParts DEF IInv, Missing
        <3>2. ~job[r][s].stored
            BY <3>1 DEF PairedAt, Bit
        <3> QED BY <3>1, <3>2 DEF PairedAt, Failed
    <2>2. Missing \subseteq Failed
        BY <2>1 DEF Missing
    <2>3. Cardinality(Missing) <= Cardinality(Failed)
        BY <2>2, FailedFinite, FS_Subset
    <2> QED BY <2>3 DEF IInv, Accounted
<1> QED BY <1>1, InvariantHolds, PTL
-----------------------------------------------------------------------------
(***************************************************************************)
(* Nothing is forgotten, and Log is on its way out.                        *)
(***************************************************************************)
\* The line comes before the loop, and the loop passes every sink before Log returns.
Handed == \A r \in Requests :
    /\ log[r].at \in {"new", "line"} => r \notin Tried
    /\ log[r].at = "returned" => \A i \in Sinks : job[r][i].at # "none"

\* No goroutine is taken back.
LEMMA JobsStay ==
    ASSUME IInv, [Next]_vars, NEW r \in Requests, NEW i \in Sinks, job[r][i].at # "none"
    PROVE  job'[r][i].at # "none"
<1>1. ASSUME NEW q \in Requests, NEW k \in Sinks, NEW j \in Job,
             job' = [job EXCEPT ![q][k] = j], j.at # "none"
      PROVE  job'[r][i].at # "none"
    BY <1>1 DEF IInv, TypeOK
<1>2. ASSUME NEW q \in Requests, Dispatch(q) PROVE job'[r][i].at # "none"
    <2>1. log[q].i \in Sinks /\ job' = [job EXCEPT ![q][log[q].i] = Started(log[q].i)]
        BY <1>2 DEF Dispatch
    <2>2. Started(log[q].i) \in Job /\ Started(log[q].i).at # "none"
        BY <2>1 DEF Started, Job, Sinks
    <2> QED BY <1>1, <2>1, <2>2
<1>3. ASSUME NEW q \in Requests, NEW k \in Sinks, Store(q, k) \/ Fail(q, k) \/ Succeed(q, k)
      PROVE  job'[r][i].at # "none"
    <2>1. job[q][k] \in Job
        BY DEF IInv, TypeOK
    <2>2. CASE Store(q, k)
        <3> DEFINE j == [at |-> job[q][k].at, sink |-> job[q][k].sink, stored |-> TRUE]
        <3>1. j \in Job /\ j.at # "none"
            BY <2>1, <2>2 DEF Store, Job
        <3>2. job' = [job EXCEPT ![q][k] = j]
            BY <2>2 DEF Store
        <3> HIDE DEF j
        <3> QED BY <1>1, <3>1, <3>2
    <2>3. ASSUME NEW at \in Ends, job' = [job EXCEPT ![q][k] = Ended(job[q][k], at)]
          PROVE  job'[r][i].at # "none"
        <3>1. Ended(job[q][k], at) \in Job /\ Ended(job[q][k], at).at # "none"
            BY <2>1 DEF Ended, Job, Ends
        <3> QED BY <1>1, <2>3, <3>1
    <2> QED BY <1>3, <2>2, <2>3 DEF Fail, Succeed, Ends
<1>4. CASE Restart
    <2>1. job'[r][i] = IF job[r][i].at = "running" THEN Ended(job[r][i], "lost") ELSE job[r][i]
        BY <1>4 DEF Restart
    <2> QED BY <2>1 DEF Ended
<1>5. ASSUME NEW q \in Requests, Call(q) \/ WriteLine(q) \/ Return(q) PROVE job' = job
    BY <1>5 DEF Call, WriteLine, Return
<1>6. CASE UNCHANGED vars
    BY <1>6 DEF vars
<1> QED BY <1>2, <1>3, <1>4, <1>5, <1>6 DEF Next

LEMMA HandedKept == IInv /\ Handed /\ [Next]_vars => Handed'
<1> SUFFICES ASSUME IInv, Handed, [Next]_vars, NEW r \in Requests
             PROVE  /\ log'[r].at \in {"new", "line"} => r \notin Tried'
                    /\ log'[r].at = "returned" => \A i \in Sinks : job'[r][i].at # "none"
    BY DEF Handed
<1>1. /\ log \in [Requests -> [at : Points, i : 1..NumSinks + 1]]
      /\ \A i \in Sinks : job[r][i].at # "none" => job'[r][i].at # "none"
    BY JobsStay DEF IInv, TypeOK
<1>2. CASE UNCHANGED <<log, stdout, dropped>>
    BY <1>1, <1>2 DEF Handed, Tried
<1>3. ASSUME NEW q \in Requests, Call(q) \/ WriteLine(q) \/ Dispatch(q)
      PROVE  /\ log'[r].at \in {"new", "line"} => r \notin Tried'
             /\ log'[r].at = "returned" => \A i \in Sinks : job'[r][i].at # "none"
    BY <1>1, <1>3 DEF Call, WriteLine, Dispatch, Handed, Tried
<1>4. ASSUME NEW q \in Requests, Return(q)
      PROVE  /\ log'[r].at \in {"new", "line"} => r \notin Tried'
             /\ log'[r].at = "returned" => \A i \in Sinks : job'[r][i].at # "none"
    <2>1. CASE q # r
        BY <1>1, <1>4, <2>1 DEF Return, Handed, Tried
    <2>2. CASE q = r
        <3>1. log[r].at = "loop" /\ log[r].i \notin Sinks /\ log'[r].at = "returned"
            BY <1>1, <1>4, <2>2 DEF Return
        <3>2. \A i \in Sinks : ~(i >= log[r].i)
            BY <1>1, <3>1, AuditAssumption DEF Sinks
        <3>3. \A i \in Sinks : job[r][i].at # "none"
            BY <3>1, <3>2, PairedByParts DEF IInv, PairedAt
        <3> QED BY <1>1, <3>1, <3>3
    <2> QED BY <2>1, <2>2
<1>5. CASE Restart
    BY <1>1, <1>5 DEF Restart, Handed, Tried
<1>6. ASSUME NEW q \in Requests, NEW k \in Sinks, Store(q, k) \/ Fail(q, k) \/ Succeed(q, k)
      PROVE  UNCHANGED <<log, stdout, dropped>>
    BY <1>6 DEF Store, Fail, Succeed
<1>7. CASE UNCHANGED vars
    BY <1>2, <1>7 DEF vars
<1> QED BY <1>2, <1>3, <1>4, <1>5, <1>6, <1>7 DEF Next

\* A goroutine has the entry, or the loop will come to the sink.
Coming(r, s) == job[r][s].at = "running" \/ (log[r].at = "loop" /\ s >= log[r].i)

\* Whatever was given to stdout, written or not, has reached each sink, was reported or lost with the
\* process, or is still on its way: short of fairness, this is what NeverBlocked says of the sinks (logger.go:104-113).
THEOREM NothingForgotten == Spec => [](\A r \in Tried, s \in Sinks : Reached(r, s) \/ Coming(r, s))
<1>1. Init => Handed
    BY DEF Init, Handed, Tried
<1>2. IInv /\ Handed => \A r \in Tried, s \in Sinks : Reached(r, s) \/ Coming(r, s)
    <2> SUFFICES ASSUME IInv, Handed, NEW r \in Tried, NEW s \in Sinks
                 PROVE  Reached(r, s) \/ Coming(r, s)
        OBVIOUS
    <2>1. r \in Requests /\ log[r].at \in Points /\ job[r][s] \in Job
        BY DEF IInv, TypeOK, Tried
    <2>2. PairedAt(r, s)
        BY <2>1, PairedByParts DEF IInv
    <2>3. log[r].at \in {"loop", "returned", "lost"}
        BY <2>1 DEF Handed, Points
    <2>4. CASE log[r].at = "lost"
        BY <2>4 DEF Reached
    <2>5. CASE job[r][s].at = "none"
        <3>1. log[r].at # "returned"
            BY <2>1, <2>5 DEF Handed
        <3> QED BY <2>2, <2>3, <2>4, <2>5, <3>1 DEF PairedAt, Coming
    <2>6. CASE job[r][s].at = "written"
        <3>1. received[s][r] = 1
            BY <2>2, <2>6 DEF PairedAt, Bit
        <3> QED BY <3>1 DEF Reached
    <2>7. CASE job[r][s].at \in {"running", "failed", "lost"}
        BY <2>7 DEF Reached, Coming
    <2> QED BY <2>1, <2>5, <2>6, <2>7 DEF Job, Ends
<1> QED BY <1>1, <1>2, HandedKept, InvariantHolds, PTL DEF Spec

\* How many steps a call of Log has to go: the line, one for each sink, and the return.
Left(r) == CASE log[r].at = "line" -> NumSinks + 2
             [] log[r].at = "loop" -> NumSinks + 2 - log[r].i
             [] OTHER -> 0
LogAdvancing ==
    \A r \in Requests :
        log[r].at \in {"line", "loop"} =>
            /\ Left(r) \in 1..NumSinks + 2
            /\ log'[r] = log[r] \/ Left(r)' < Left(r)

LEMMA LeftCases ==
    ASSUME NEW r \in Requests
    PROVE  /\ log[r].at = "line" => Left(r) = NumSinks + 2
           /\ log[r].at = "loop" => Left(r) = NumSinks + 2 - log[r].i
           /\ log[r].at \in {"new", "returned", "lost"} => Left(r) = 0
BY DEF Left

LEMMA LeftCasesNext ==
    ASSUME NEW r \in Requests
    PROVE  /\ log'[r].at = "line" => Left(r)' = NumSinks + 2
           /\ log'[r].at = "loop" => Left(r)' = NumSinks + 2 - log'[r].i
           /\ log'[r].at \in {"new", "returned", "lost"} => Left(r)' = 0
BY DEF Left

\* A call of Log has at most NumSinks + 2 steps to go, and nothing that other calls, goroutines or
\* sinks do adds to them (logger.go:85-114).
THEOREM LogsAdvance == Spec => [][LogAdvancing]_vars
<1>1. IInv /\ [Next]_vars => [LogAdvancing]_vars
    <2> SUFFICES ASSUME IInv, Next PROVE LogAdvancing
        OBVIOUS
    <2> SUFFICES ASSUME NEW r \in Requests, log[r].at \in {"line", "loop"}
                 PROVE  Left(r) \in 1..NumSinks + 2 /\ (log'[r] = log[r] \/ Left(r)' < Left(r))
        BY DEF LogAdvancing
    <2>0. /\ log \in [Requests -> [at : Points, i : 1..NumSinks + 1]]
          /\ log[r].i \in 1..NumSinks + 1 /\ NumSinks \in Nat
        BY AuditAssumption DEF IInv, TypeOK
    <2>1. Left(r) \in 1..NumSinks + 2
        BY <2>0, LeftCases
    <2>2. ASSUME NEW q \in Requests, Call(q) \/ WriteLine(q) \/ Dispatch(q) \/ Return(q)
          PROVE  log'[r] = log[r] \/ Left(r)' < Left(r)
        <3>1. CASE q # r
            BY <2>0, <2>2, <3>1 DEF Call, WriteLine, Dispatch, Return
        <3>2. CASE q = r /\ WriteLine(q)
            <4>1. log[r].at = "line" /\ log'[r].at = "loop" /\ log'[r].i = 1
                BY <2>0, <3>2 DEF WriteLine
            <4> QED BY <2>0, <4>1, LeftCases, LeftCasesNext
        <3>3. CASE q = r /\ Dispatch(q)
            <4>1. log[r].at = "loop" /\ log'[r].at = "loop" /\ log'[r].i = log[r].i + 1
                BY <2>0, <3>3 DEF Dispatch
            <4> QED BY <2>0, <4>1, LeftCases, LeftCasesNext
        <3>4. CASE q = r /\ Return(q)
            <4>1. log'[r].at = "returned"
                BY <2>0, <3>4 DEF Return
            <4> QED BY <2>1, <4>1, LeftCasesNext
        <3>5. ~(q = r /\ Call(q))
            BY DEF Call
        <3> QED BY <2>2, <3>1, <3>2, <3>3, <3>4, <3>5
    <2>3. ASSUME Restart PROVE Left(r)' < Left(r)
        <3>1. log'[r].at = "lost"
            BY <2>3 DEF Restart
        <3> QED BY <2>1, <3>1, LeftCasesNext
    <2>4. ASSUME NEW q \in Requests, NEW k \in Sinks, Store(q, k) \/ Fail(q, k) \/ Succeed(q, k)
          PROVE  log'[r] = log[r]
        BY <2>4 DEF Store, Fail, Succeed
    <2>5. log'[r] = log[r] \/ Left(r)' < Left(r)
        BY <2>2, <2>3, <2>4 DEF Next
    <2> QED BY <2>1, <2>5
<1> QED BY <1>1, InvariantHolds, PTL DEF Spec
=============================================================================
