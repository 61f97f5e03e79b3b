------------------------------ MODULE Discovery ------------------------------
(***************************************************************************)
(* The capability discovery client (internal/discovery/discovery.go).      *)
(* Several goroutines share one Client; each Discover makes three JSON-RPC *)
(* calls, one after the other, to an MCP server that may be replaced by    *)
(* another version, answer badly, or not answer.  A list of names is known *)
(* by the version of the server that gave it.                              *)
(***************************************************************************)
EXTENDS Naturals

CONSTANTS
    Callers,       \* goroutines that call Discover
    MaxCalls,      \* bound: calls of Discover
    MaxVersion     \* bound: versions of the server

ASSUME DiscoveryBoundsAssumption == MaxCalls \in Nat /\ MaxVersion \in Nat

VARIABLES
    idCounter,  \* shared by the callers
    call,       \* call[c]: where c is, in which of the three calls, with which request ID
    lists,      \* lists[c][m]: what c has got from call m
    reply,      \* reply[c]: the response to c's request
    version,    \* of the server
    began,      \* began[c]: the server's version when c called Discover
    calls

vars == <<idCounter, call, lists, reply, version, began, calls>>

\* "tools/list", "resources/list", "prompts/list", in this order.
Methods == 1..3
Steps   == {"idle", "send", "wait", "read", "done", "failed"}
Running == {"send", "wait", "read"}

\* Of a response: its status is 200; its body is a list, a null result, an error object
\* (with or without a result), has no result, or cannot be decoded: no JSON, another
\* shape, or cut off at maxResponseSize.
Bodies == {"list", "null", "error", "missing", "broken"}
Reply  == [ok : BOOLEAN, body : Bodies, version : Nat]
NoReply == [ok |-> FALSE, body |-> "missing", version |-> 0]

TypeOK ==
    /\ idCounter \in Nat
    /\ call \in [Callers -> [at : Steps, method : Methods, id : Nat]]
    /\ lists \in [Callers -> [Methods -> Nat]]
    /\ reply \in [Callers -> Reply]
    /\ version \in Nat /\ began \in [Callers -> Nat] /\ calls \in Nat

Init ==
    /\ idCounter = 0
    /\ call = [c \in Callers |-> [at |-> "idle", method |-> 1, id |-> 0]]
    /\ lists = [c \in Callers |-> [m \in Methods |-> 0]]
    /\ reply = [c \in Callers |-> NoReply]
    /\ version = 1
    /\ began = [c \in Callers |-> 0]
    /\ calls = 0

-----------------------------------------------------------------------------
(***************************************************************************)
(* Discover                                                                *)
(***************************************************************************)
Goto(c, at, method, id) == call' = [call EXCEPT ![c] = [at |-> at, method |-> method, id |-> id]]

\* An error is returned, and no lists.
Fails(c) ==
    /\ Goto(c, "failed", call[c].method, call[c].id)
    /\ lists' = [lists EXCEPT ![c] = [m \in Methods |-> 0]]

Discover(c) ==
    /\ call[c].at \notin Running
    /\ calls < MaxCalls /\ calls' = calls + 1
    /\ Goto(c, "send", 1, call[c].id)
    /\ lists' = [lists EXCEPT ![c] = [m \in Methods |-> 0]]
    /\ began' = [began EXCEPT ![c] = version]
    /\ UNCHANGED <<idCounter, reply, version>>

\* Mutant: the counter is read and the ID taken from it, but it is not stored.
SendUncounted(c) ==
    /\ call[c].at = "send"
    /\ Goto(c, "wait", call[c].method, idCounter + 1)
    /\ UNCHANGED <<idCounter, lists, reply, version, began, calls>>

\* A request with the next ID: Add(1) is atomic.
Send(c) ==
    /\ call[c].at = "send"
    /\ idCounter' = idCounter + 1
    /\ Goto(c, "wait", call[c].method, idCounter + 1)
    /\ UNCHANGED <<lists, reply, version, began, calls>>

\* A null result leaves the decoded struct empty, which is no error.
Decoded(r) == r.ok /\ r.body \in {"list", "null"}

\* Mutant: a call that fails counts as an empty list.
ReadLenient(c) ==
    LET m == call[c].method
    IN  /\ call[c].at = "read"
        /\ IF m = 3 THEN Goto(c, "done", 3, call[c].id) ELSE Goto(c, "send", m + 1, call[c].id)
        /\ lists' = [lists EXCEPT ![c][m] = IF Decoded(reply[c]) THEN reply[c].version ELSE 0]
        /\ reply' = [reply EXCEPT ![c] = NoReply]
        /\ UNCHANGED <<idCounter, version, began, calls>>

\* Mutant: one call too many.
ReadOn(c) ==
    /\ call[c].at = "read"
    /\ Decoded(reply[c])
    /\ Goto(c, "send", call[c].method + 1, call[c].id)
    /\ lists' = [lists EXCEPT ![c][call[c].method] = reply[c].version]
    /\ reply' = [reply EXCEPT ![c] = NoReply]
    /\ UNCHANGED <<idCounter, version, began, calls>>

\* The response is read and decoded; its ID is not compared.  The first error ends Discover,
\* and what was listed before is dropped.
Read(c) ==
    LET m == call[c].method
    IN  /\ call[c].at = "read"
        /\ IF Decoded(reply[c])
           THEN /\ IF m = 3 THEN Goto(c, "done", 3, call[c].id) ELSE Goto(c, "send", m + 1, call[c].id)
                /\ lists' = [lists EXCEPT ![c][m] = reply[c].version]
           ELSE Fails(c)
        /\ reply' = [reply EXCEPT ![c] = NoReply]
        /\ UNCHANGED <<idCounter, version, began, calls>>

\* Mutant: the time limit is only looked at when there is a response.
ExpireAnswered(c) ==
    /\ call[c].at = "read"
    /\ Fails(c)
    /\ reply' = [reply EXCEPT ![c] = NoReply]
    /\ UNCHANGED <<idCounter, version, began, calls>>

\* The time limit of the http.Client, which includes reading the body, the end of the
\* context, or a connection that breaks.  A response that comes later has no reader.
Expire(c) ==
    /\ call[c].at \in {"wait", "read"}
    /\ Fails(c)
    /\ reply' = [reply EXCEPT ![c] = NoReply]
    /\ UNCHANGED <<idCounter, version, began, calls>>

Caller(c) == Discover(c) \/ Send(c) \/ Read(c) \/ Expire(c)

-----------------------------------------------------------------------------
(***************************************************************************)
(* The MCP server                                                          *)
(***************************************************************************)
Answer(c) ==
    /\ call[c].at = "wait"
    /\ \E ok \in BOOLEAN, body \in Bodies :
        reply' = [reply EXCEPT ![c] = [ok |-> ok, body |-> body, version |-> version]]
    /\ Goto(c, "read", call[c].method, call[c].id)
    /\ UNCHANGED <<idCounter, lists, version, began, calls>>

Upgrade ==
    /\ version < MaxVersion /\ version' = version + 1
    /\ UNCHANGED <<idCounter, call, lists, reply, began, calls>>

Next ==
    \/ \E c \in Callers : Caller(c) \/ Answer(c)
    \/ Upgrade

Spec == Init /\ [][Next]_vars

\* Goroutines run and the http.Client has a time limit; the server owes nothing.
FairSpec == Spec /\ \A c \in Callers : WF_vars(Send(c)) /\ WF_vars(Read(c)) /\ WF_vars(Expire(c))

-----------------------------------------------------------------------------
(***************************************************************************)
(* Properties                                                              *)
(***************************************************************************)
\* Two requests under way never have the same ID, whichever goroutines sent them
\* (discovery.go:211-215: one counter for all callers).
IdsUnique ==
    \A b, c \in Callers :
        b # c /\ call[b].at \in {"wait", "read"} /\ call[c].at \in {"wait", "read"}
            => call[b].id # call[c].id

\* The capabilities that Discover returns are three lists that the server gave during this
\* very call, in the order of the calls: no list is left over from an earlier discovery,
\* belongs to another caller, stands for a call that failed, or is older than the one before it
\* (discovery.go:126-149, 235-253).
ListsInOrder(c) == lists[c][1] <= lists[c][2] /\ lists[c][2] <= lists[c][3]
Genuine ==
    \A c \in Callers : call[c].at = "done" =>
        began[c] <= lists[c][1] /\ ListsInOrder(c) /\ lists[c][3] <= version

\* Every Discover returns, whatever the server does (discovery.go:116-120, 229-239).
Returns == \A c \in Callers : call[c].at \in Running ~> call[c].at \in {"done", "failed"}

(***************************************************************************)
(* What IdsUnique and Genuine rest on: IDs are below the counter, and what *)
(* a Discover has got so far is in order and from its own time.            *)
(***************************************************************************)
IdsCounted == \A c \in Callers : call[c].id <= idCounter
Taken(c) == IF call[c].at = "done" THEN 3 ELSE call[c].method - 1
Progress == \A c \in Callers : call[c].at \in Running \cup {"done"} =>
    /\ began[c] <= version
    /\ \A m \in Methods : m <= Taken(c) => began[c] <= lists[c][m] /\ lists[c][m] <= version
    /\ \A m, n \in Methods : m <= n /\ n <= Taken(c) => lists[c][m] <= lists[c][n]
Answered == \A c \in Callers : call[c].at = "read" =>
    /\ began[c] <= reply[c].version /\ reply[c].version <= version
    /\ \A m \in Methods : m <= Taken(c) => lists[c][m] <= reply[c].version

IInv == TypeOK /\ IdsUnique /\ IdsCounted /\ Progress /\ Answered
=============================================================================
