------------------------------ MODULE ApiServer ------------------------------
(***************************************************************************)
(* The REST API server (cmd/apiserver/main.go): handlers that run          *)
(* concurrently, each a few calls of the Kubernetes API and an answer, and *)
(* the process around them, which stops on a signal.  The Kubernetes       *)
(* client has no cache: every call reads or changes the stored resources.  *)
(***************************************************************************)
EXTENDS Naturals

CONSTANTS
    Clients,       \* HTTP clients, each with one request at a time
    Collections,   \* "servers", "agents", "policies", "marketplace"
    Namespaces,
    Names,
    None,          \* no resource; no namespace in a query or a body
    MaxUid,        \* bound: resources created
    MaxFaults      \* bound: Kubernetes API calls that fail, answers that are not delivered

ASSUME ApiAssumption ==
    /\ "servers" \in Collections /\ Names # {}
    /\ Collections \subseteq {"servers", "agents", "policies", "marketplace"}
    /\ "default" \in Namespaces /\ None \notin Namespaces
    /\ None \notin [uid : Nat, deleting : BOOLEAN]
    /\ MaxUid \in Nat /\ MaxFaults \in Nat

VARIABLES
    process,    \* where main is
    objects,    \* objects[k]: the resource of that key, or None
    uids,       \* UIDs given out
    req,        \* req[r]: client r's request: where its handler is, what was asked, the answer
    faults

vars == <<process, objects, uids, req, faults>>

Keys       == Collections \X Namespaces \X Names
KeyColl    == [k \in Keys |-> k[1]]
Resource   == [uid : Nat, deleting : BOOLEAN]
Reading    == {"list", "get"}
Ops        == Reading \cup {"create", "delete", "health", "options"}

\* The patterns of the mux: agents, policies and marketplace entries are only read.
Routed(op, coll) ==
    \/ op \in {"list", "health", "options"}
    \/ op = "get" /\ coll \in {"servers", "agents"}
    \/ op \in {"create", "delete"} /\ coll = "servers"

\* What is asked: a collection, a namespace or none, a name; a list is of all namespaces.
Queries   == Collections \X (Namespaces \cup {None}) \X Names
KeyOf(q)  == <<q[1], IF q[2] = None THEN "default" ELSE q[2], q[3]>>

\* A client without a request may send one ("new"), was left without its answer ("lost"), or
\* without a server: its connection was closed, or its request cut off.
Points    == {"new", "decode", "call", "delete", "answer", "lost", "closed", "cut"}
InHandler == {"decode", "call", "delete", "answer"}
Statuses  == {0, 200, 201, 204, 400, 404, 500}
Request   == [at : Points, op : Ops, query : Queries, status : Statuses, uids : SUBSET Nat]

Processes == {"starting", "serving", "draining", "stopped", "killed"}

TypeOK ==
    /\ process \in Processes
    /\ objects \in [Keys -> Resource \cup {None}]
    /\ uids \in Nat /\ faults \in Nat
    /\ req \in [Clients -> Request]

Nothing == [at |-> "new", op |-> "health", query |-> CHOOSE q \in Queries : TRUE,
            status |-> 0, uids |-> {}]

\* The resources there are to begin with are made by Foreign.
Init ==
    /\ process = "starting"
    /\ objects = [k \in Keys |-> None]
    /\ uids = 0 /\ faults = 0
    /\ req = [r \in Clients |-> Nothing]

-----------------------------------------------------------------------------
(***************************************************************************)
(* The handlers                                                            *)
(***************************************************************************)
Goto(r, at) == req' = [req EXCEPT ![r] =
    [at |-> at, op |-> req[r].op, query |-> req[r].query, status |-> req[r].status, uids |-> req[r].uids]]

\* writeJSON and writeError: the status and, of the body, which resources it holds.
Answer(r, status, answer) == req' = [req EXCEPT ![r] =
    [at |-> "answer", op |-> Nothing.op, query |-> Nothing.query, status |-> status, uids |-> answer]]

Key(r)    == KeyOf(req[r].query)
Object(r) == objects[Key(r)]

\* While the process drains, a connection that was accepted may still bring a request.
Arrive(r) ==
    /\ \/ process = "serving" /\ req[r].at \in {"new", "lost"}
       \/ process = "draining" /\ req[r].at = "new"
    /\ \E op \in Ops, q \in Queries :
        /\ Routed(op, q[1]) /\ (op = "list" => q[2] = None)
        /\ op \in {"health", "options"} => q = Nothing.query
        /\ req' = [req EXCEPT ![r] = [at |-> IF op = "create" THEN "decode" ELSE "call",
                                      op |-> op, query |-> q, status |-> 0, uids |-> {}]]
    /\ UNCHANGED <<process, objects, uids, faults>>

\* Mutant: after OPTIONS the middleware goes on to the mux, which has no such method.
AnswerOptionsTwice(r) ==
    /\ req[r].at = "call"
    /\ \/ req[r].op = "health" /\ Answer(r, 200, {})
       \/ req[r].op = "options" /\ Answer(r, 405, {})
    /\ UNCHANGED <<process, objects, uids, faults>>

\* The middleware answers OPTIONS, handleHealthz without a call.
AnswerDirectly(r) ==
    /\ req[r].at = "call"
    /\ \/ req[r].op = "health" /\ Answer(r, 200, {})
       \/ req[r].op = "options" /\ Answer(r, 204, {})
    /\ UNCHANGED <<process, objects, uids, faults>>

List(r) ==
    /\ req[r].at = "call" /\ req[r].op = "list"
    /\ Answer(r, 200, {objects[k].uid : k \in {k \in Keys :
                          KeyColl[k] = req[r].query[1] /\ objects[k] # None}})
    /\ UNCHANGED <<process, objects, uids, faults>>

Get(r) ==
    /\ req[r].at = "call" /\ req[r].op = "get"
    /\ IF Object(r) = None THEN Answer(r, 404, {}) ELSE Answer(r, 200, {Object(r).uid})
    /\ UNCHANGED <<process, objects, uids, faults>>

Decode(r) ==
    /\ req[r].at = "decode"
    /\ Goto(r, "call") \/ Answer(r, 400, {})
    /\ UNCHANGED <<process, objects, uids, faults>>

\* Kubernetes creates the object; a name in use or an object that is not valid is an error.
Store(k) ==
    /\ objects[k] = None /\ uids < MaxUid
    /\ uids' = uids + 1
    /\ objects' = [objects EXCEPT ![k] = [uid |-> uids + 1, deleting |-> FALSE]]

Create(r) ==
    /\ req[r].at = "call" /\ req[r].op = "create"
    /\ \/ Store(Key(r)) /\ Answer(r, 201, {uids + 1})
       \/ Answer(r, 500, {}) /\ UNCHANGED <<objects, uids>>
    /\ UNCHANGED <<process, faults>>

DeleteGet(r) ==
    /\ req[r].at = "call" /\ req[r].op = "delete"
    /\ IF Object(r) = None THEN Answer(r, 404, {}) ELSE Goto(r, "delete")
    /\ UNCHANGED <<process, objects, uids, faults>>

\* Kubernetes deletes an object by its name: it is gone, or marked if it has a finalizer.
Remove(k) ==
    /\ objects[k] # None
    /\ \E left \in {None, [uid |-> objects[k].uid, deleting |-> TRUE]} :
        objects' = [objects EXCEPT ![k] = left]

\* Mutant: an object that is gone by now counts as deleted.
DeleteLenient(r) ==
    /\ req[r].at = "delete"
    /\ Answer(r, 200, {})
    /\ Remove(Key(r)) \/ (Object(r) = None /\ UNCHANGED objects)
    /\ UNCHANGED <<process, uids, faults>>

\* By name: not necessarily the object that DeleteGet has seen.
Delete(r) ==
    /\ req[r].at = "delete"
    /\ IF Object(r) = None
       THEN Answer(r, 500, {}) /\ UNCHANGED objects
       ELSE Answer(r, 200, {}) /\ Remove(Key(r))
    /\ UNCHANGED <<process, uids, faults>>

\* A call fails, or its answer is lost, or the client is gone, which ends the request's context.
\* Every error of a Get is answered as "not found".
FailCall(r) ==
    /\ faults < MaxFaults /\ faults' = faults + 1
    /\ \/ /\ req[r].at = "call"
          /\ \/ req[r].op = "list" /\ Answer(r, 500, {})
             \/ req[r].op \in {"get", "delete"} /\ Answer(r, 404, {})
          /\ UNCHANGED <<objects, uids>>
       \/ /\ req[r].at = "call" /\ req[r].op = "create" /\ Answer(r, 500, {})
          /\ Store(Key(r)) \/ UNCHANGED <<objects, uids>>
       \/ /\ req[r].at = "delete" /\ Answer(r, 500, {})
          /\ Remove(Key(r)) \/ UNCHANGED objects
          /\ UNCHANGED uids
    /\ UNCHANGED process

Closed == [Nothing EXCEPT !.at = "closed"]
Lost   == [Nothing EXCEPT !.at = "lost"]

\* The handler returns, and with it the answer is sent; Shutdown then closes the connection.
Finish(r) ==
    /\ req[r].at = "answer"
    /\ req' = [req EXCEPT ![r] = IF process = "serving" THEN Nothing ELSE Closed]
    /\ UNCHANGED <<process, objects, uids, faults>>

\* The answer cannot be encoded or written, or comes later than the WriteTimeout: logged or
\* ignored, what the request has done stays.
DropAnswer(r) ==
    /\ req[r].at = "answer" /\ req' = [req EXCEPT ![r] = Lost]
    /\ faults < MaxFaults /\ faults' = faults + 1
    /\ UNCHANGED <<process, objects, uids>>

-----------------------------------------------------------------------------
(***************************************************************************)
(* The process                                                             *)
(***************************************************************************)
CutOff == [Nothing EXCEPT !.at = "cut"]
Cut == req' = [r \in Clients |-> IF req[r].at \in InHandler THEN CutOff ELSE req[r]]

Listen ==
    /\ process = "starting" /\ process' = "serving"
    /\ UNCHANGED <<objects, uids, req, faults>>

\* The port is in use, or the listener breaks later: log.Fatalf, with handlers at any point.
ListenFails ==
    /\ process \in {"starting", "serving"} /\ process' = "killed" /\ Cut
    /\ UNCHANGED <<objects, uids, faults>>

\* The first signal has arrived and main calls Shutdown, which closes the listener; until
\* then requests are taken as before.  Later signals stay in the channel.
Shutdown ==
    /\ process \in {"starting", "serving"} /\ process' = "draining"
    /\ UNCHANGED <<objects, uids, req, faults>>

\* Shutdown has waited for the handlers.
Stop ==
    /\ process = "draining" /\ \A r \in Clients : req[r].at \notin InHandler
    /\ process' = "stopped"
    /\ UNCHANGED <<objects, uids, req, faults>>

\* Mutant: Shutdown has no time limit.
GiveUpIdle ==
    /\ process = "draining" /\ \A r \in Clients : req[r].at \notin InHandler
    /\ process' = "killed" /\ Cut
    /\ UNCHANGED <<objects, uids, faults>>

\* Fifteen seconds were not enough: log.Fatalf, with handlers at any point.
GiveUp ==
    /\ process = "draining" /\ \E r \in Clients : req[r].at \in InHandler
    /\ process' = "killed" /\ Cut
    /\ UNCHANGED <<objects, uids, faults>>

\* kubectl and the controllers.
Foreign(k) ==
    /\ Store(k) \/ (Remove(k) /\ UNCHANGED uids)
    /\ UNCHANGED <<process, req, faults>>

Handler(r) ==
    \/ AnswerDirectly(r) \/ List(r) \/ Get(r) \/ Decode(r) \/ Create(r)
    \/ DeleteGet(r) \/ Delete(r) \/ Finish(r)

Next ==
    \/ \E r \in Clients : Arrive(r) \/ Handler(r) \/ FailCall(r) \/ DropAnswer(r)
    \/ Listen \/ ListenFails \/ Shutdown \/ Stop \/ GiveUp
    \/ \E k \in Keys : Foreign(k)

Spec == Init /\ [][Next]_vars

\* The process runs and its timer fires.  A call of Kubernetes may take for ever: the client
\* sets no time limit, and a request's context ends only with its client or its answer.
FairSpec ==
    /\ Spec
    /\ WF_vars(Listen) /\ WF_vars(Stop) /\ WF_vars(GiveUp)
    /\ \A r \in Clients : WF_vars(Finish(r))

-----------------------------------------------------------------------------
(***************************************************************************)
(* Properties                                                              *)
(***************************************************************************)
\* Once Shutdown is called the process ends, although a handler hangs in a call and connections
\* that were accepted still bring requests; and a handler that has its answer does not keep it:
\* it is sent, or given up, or cut off when the time is over (main.go:93, 108-117, 157-171).
Ends ==
    /\ process = "draining" ~> process \in {"stopped", "killed"}
    /\ \A r \in Clients : req[r].at = "answer" ~> req[r].at \in {"new", "closed", "lost", "cut"}

\* A request takes effect at one moment between its arrival and its answer, or fails and says
\* so: a read shows what was there at one moment, 201 means that this request created the
\* resource, 200 for a deletion that there was one, 404 that there was none or a call failed;
\* that a deletion is two calls cannot be seen.  An answer that is lost changes nothing of what
\* the request has done (main.go:157-310).
Abstract(q) ==
    IF q.at \in {"decode", "call", "delete"} THEN [at |-> "open", op |-> q.op, key |-> KeyOf(q.query)]
    ELSE IF q.at = "answer" THEN [at |-> "decided", status |-> q.status, uids |-> q.uids]
    ELSE [at |-> IF q.at = "closed" THEN "new" ELSE q.at]
Calls == [r \in Clients |-> Abstract(req[r])]
Registry == INSTANCE ResourceRegistry WITH Collection <- KeyColl, calls <- Calls
ImplementsRegistry == Registry!Spec
=============================================================================
