----------------------------- MODULE AuditLogger -----------------------------
(***************************************************************************)
(* The audit logger (internal/audit/logger.go).  Requests call Log         *)
(* concurrently, once each; Log writes a line to stdout and starts one     *)
(* goroutine for each sink, which nobody waits for.  A sink is somewhere   *)
(* else: it may answer late, never, or with an error after it has stored   *)
(* the entry.  The process may be restarted, which ends its goroutines.    *)
(***************************************************************************)
EXTENDS Naturals, FiniteSets

CONSTANTS
    Requests,     \* calls of Log; each has one entry, known by its request
    NumSinks,     \* l.sinks has the positions 1..NumSinks
    Stuck,        \* sinks that owe no answer; the others answer in the end
    MaxRestarts   \* bound: restarts of the process

ASSUME AuditAssumption ==
    /\ IsFiniteSet(Requests) /\ NumSinks \in Nat
    /\ Stuck \subseteq 1..NumSinks /\ MaxRestarts \in Nat

VARIABLES
    log,        \* log[r]: where the call of Log is, and its position in the loop over the sinks
    stdout,     \* requests whose line is written
    dropped,    \* requests whose line could not be written, which nobody is told
    job,        \* job[r][i]: the goroutine started at position i
    received,   \* received[s][r]: how often sink s has stored the entry of r
    errors,     \* "audit sink write failed" reports, which do not say whose entry it is
    restarts

vars == <<log, stdout, dropped, job, received, errors, restarts>>

Sinks  == 1..NumSinks
Points == {"new", "line", "loop", "returned", "lost"}
Ends   == {"written", "failed", "lost"}
Job    == [at : {"none", "running"} \cup Ends, sink : 0..NumSinks, stored : BOOLEAN]

TypeOK ==
    /\ log \in [Requests -> [at : Points, i : 1..NumSinks + 1]]
    /\ stdout \subseteq Requests /\ dropped \subseteq Requests
    /\ job \in [Requests -> [Sinks -> Job]]
    /\ received \in [Sinks -> [Requests -> Nat]]
    /\ errors \in Nat /\ restarts \in Nat

Init ==
    /\ log = [r \in Requests |-> [at |-> "new", i |-> 1]]
    /\ stdout = {} /\ dropped = {}
    /\ job = [r \in Requests |-> [i \in Sinks |-> [at |-> "none", sink |-> 0, stored |-> FALSE]]]
    /\ received = [s \in Sinks |-> [r \in Requests |-> 0]]
    /\ errors = 0 /\ restarts = 0

-----------------------------------------------------------------------------
(***************************************************************************)
(* Log                                                                     *)
(***************************************************************************)
Call(r) ==
    /\ log[r].at = "new"
    /\ log' = [log EXCEPT ![r] = [at |-> "line", i |-> 1]]
    /\ UNCHANGED <<stdout, dropped, job, received, errors, restarts>>

\* The handler of slog writes a line at a time.  LogAttrs drops its error, and Log goes on.
WriteLine(r) ==
    /\ log[r].at = "line"
    /\ \/ stdout' = stdout \cup {r} /\ UNCHANGED dropped
       \/ dropped' = dropped \cup {r} /\ UNCHANGED stdout
    /\ log' = [log EXCEPT ![r] = [at |-> "loop", i |-> 1]]
    /\ UNCHANGED <<job, received, errors, restarts>>

Started(sink) == [at |-> "running", sink |-> sink, stored |-> FALSE]

\* Mutant: the goroutine uses the loop variable, and sees the last sink.
DispatchLast(r) ==
    LET i == log[r].i
    IN  /\ log[r].at = "loop" /\ i \in Sinks
        /\ job' = [job EXCEPT ![r][i] = Started(NumSinks)]
        /\ log' = [log EXCEPT ![r] = [at |-> "loop", i |-> i + 1]]
        /\ UNCHANGED <<stdout, dropped, received, errors, restarts>>

\* Mutant: the sinks are written one after the other.
DispatchInTurn(r) ==
    LET i == log[r].i
    IN  /\ log[r].at = "loop" /\ i \in Sinks
        /\ \A j \in Sinks : job[r][j].at # "running"
        /\ job' = [job EXCEPT ![r][i] = Started(i)]
        /\ log' = [log EXCEPT ![r] = [at |-> "loop", i |-> i + 1]]
        /\ UNCHANGED <<stdout, dropped, received, errors, restarts>>

\* Mutant: the loop runs past the last sink.
DispatchPast(r) ==
    LET i == log[r].i
    IN  /\ log[r].at = "loop" /\ i <= NumSinks + 1
        /\ job' = [job EXCEPT ![r][i] = Started(i)]
        /\ log' = [log EXCEPT ![r] = [at |-> "loop", i |-> i + 1]]
        /\ UNCHANGED <<stdout, dropped, received, errors, restarts>>

\* go func(sink Sink) {...}(s): the goroutine has the sink and the entry as its own copies.
Dispatch(r) ==
    LET i == log[r].i
    IN  /\ log[r].at = "loop" /\ i \in Sinks
        /\ job' = [job EXCEPT ![r][i] = Started(i)]
        /\ log' = [log EXCEPT ![r] = [at |-> "loop", i |-> i + 1]]
        /\ UNCHANGED <<stdout, dropped, received, errors, restarts>>

Return(r) ==
    /\ log[r].at = "loop" /\ log[r].i \notin Sinks
    /\ log' = [log EXCEPT ![r] = [at |-> "returned", i |-> log[r].i]]
    /\ UNCHANGED <<stdout, dropped, job, received, errors, restarts>>

-----------------------------------------------------------------------------
(***************************************************************************)
(* The goroutines and the sinks                                            *)
(***************************************************************************)
\* The sink stores the entry, possibly after the goroutine has given up.
Store(r, i) ==
    LET s == job[r][i].sink
    IN  /\ job[r][i].at \in {"running", "failed", "lost"} /\ ~job[r][i].stored
        /\ job' = [job EXCEPT ![r][i] = [at |-> job[r][i].at, sink |-> s, stored |-> TRUE]]
        /\ received' = [received EXCEPT ![s] = [received[s] EXCEPT ![r] = received[s][r] + 1]]
        /\ UNCHANGED <<log, stdout, dropped, errors, restarts>>

Ended(j, at) == [at |-> at, sink |-> j.sink, stored |-> j.stored]

\* Mutant: an error is dropped.
FailSilent(r, i) ==
    /\ job[r][i].at = "running"
    /\ job' = [job EXCEPT ![r][i] = Ended(job[r][i], "failed")]
    /\ UNCHANGED <<log, stdout, dropped, received, errors, restarts>>

\* An error of the sink or on the way to it, or the end of the request's context.
Fail(r, i) ==
    /\ job[r][i].at = "running"
    /\ job' = [job EXCEPT ![r][i] = Ended(job[r][i], "failed")]
    /\ errors' = errors + 1
    /\ UNCHANGED <<log, stdout, dropped, received, restarts>>

Succeed(r, i) ==
    /\ job[r][i].at = "running" /\ job[r][i].stored
    /\ job' = [job EXCEPT ![r][i] = Ended(job[r][i], "written")]
    /\ UNCHANGED <<log, stdout, dropped, received, errors, restarts>>

\* Nothing is flushed: calls of Log and goroutines that have not ended are gone.
Restart ==
    /\ restarts < MaxRestarts /\ restarts' = restarts + 1
    /\ log' = [r \in Requests |->
                 IF log[r].at \in {"line", "loop"} THEN [at |-> "lost", i |-> log[r].i] ELSE log[r]]
    /\ job' = [r \in Requests |-> [i \in Sinks |->
                 IF job[r][i].at = "running" THEN Ended(job[r][i], "lost") ELSE job[r][i]]]
    /\ UNCHANGED <<stdout, dropped, received, errors>>

Next ==
    \/ \E r \in Requests :
        \/ Call(r) \/ WriteLine(r) \/ Dispatch(r) \/ Return(r)
        \/ \E i \in Sinks : Store(r, i) \/ Fail(r, i) \/ Succeed(r, i)
    \/ Restart

Spec == Init /\ [][Next]_vars

\* The process runs; of the sinks only those outside Stuck take their entries in the end.
FairSpec ==
    /\ Spec
    /\ \A r \in Requests : WF_vars(WriteLine(r)) /\ WF_vars(Dispatch(r)) /\ WF_vars(Return(r))
    /\ \A r \in Requests, i \in Sinks \ Stuck : WF_vars(Store(r, i))

-----------------------------------------------------------------------------
(***************************************************************************)
(* Properties                                                              *)
(***************************************************************************)
Tried == stdout \cup dropped

\* Every sink holds part of what stdout was given before, each entry once at most, although
\* goroutines, late answers and restarts overlap (logger.go:104-113).
SinksFollowLog ==
    \A s \in Sinks, r \in Requests :
        received[s][r] <= 1 /\ (received[s][r] > 0 => r \in Tried)

\* No entry is missing unaccounted for: of the calls that have returned and whose goroutines
\* have all ended, no more entries are missing from sinks than errors have been reported
\* (logger.go:109-111), unless the process was restarted.
Missing == {p \in Requests \X Sinks :
    /\ log[p[1]].at = "returned" /\ \A i \in Sinks : job[p[1]][i].at \in {"written", "failed"}
    /\ received[p[2]][p[1]] = 0}
Accounted == Cardinality(Missing) <= errors

\* A sink that never answers delays neither the caller of Log nor the other sinks, and a line
\* that could not be written does not keep its entry from them: the call returns, and what it
\* logged reaches every sink that works, is reported, or is lost with the process
\* (logger.go:105-113).
Reached(r, s) ==
    \/ received[s][r] > 0
    \/ job[r][s].at \in {"failed", "lost"} \/ log[r].at = "lost"
NeverBlocked ==
    /\ \A r \in Requests : log[r].at = "line" ~> log[r].at \in {"returned", "lost"}
    /\ \A r \in Requests, s \in Sinks \ Stuck : r \in Tried ~> Reached(r, s)

(***************************************************************************)
(* What they rest on: the loop starts one goroutine for each sink it has   *)
(* passed, and what a sink has of a request is what that goroutine brought.*)
(***************************************************************************)
Bit(b) == IF b THEN 1 ELSE 0
Paired == \A r \in Requests, i \in Sinks :
    /\ job[r][i].at # "none" => job[r][i].sink = i /\ r \in Tried
    /\ job[r][i].at = "none" => ~job[r][i].stored
    /\ job[r][i].at = "written" => job[r][i].stored
    /\ received[i][r] = Bit(job[r][i].stored)
    /\ log[r].at = "loop" => (r \in Tried /\ (job[r][i].at = "none" <=> i >= log[r].i))
    /\ log[r].at \in {"new", "line"} => job[r][i].at = "none"
Failed == {p \in Requests \X Sinks : job[p[1]][p[2]].at = "failed"}

IInv == TypeOK /\ Paired /\ Cardinality(Failed) = errors
=============================================================================
