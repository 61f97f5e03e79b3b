-------------------------- MODULE ApiServer_proofs --------------------------
(***************************************************************************)
(* Theorems about ApiServer, for any clients, collections, namespaces and  *)
(* names: in particular that it implements ResourceRegistry.               *)
(***************************************************************************)
EXTENDS ApiServer, TLAPS

LEMMA NothingTyped == Nothing \in Request /\ Nothing.query \in Queries /\ Nothing.at = "new"
<1>0. PICK n \in Names : TRUE
    BY ApiAssumption
<1>4. <<"servers", None, n>> \in Queries
    BY ApiAssumption DEF Queries
<1>1. Queries # {}
    BY <1>4
<1>2. (CHOOSE q \in Queries : TRUE) \in Queries
    BY <1>1
<1>3. Nothing.query = CHOOSE q \in Queries : TRUE
    BY DEF Nothing
<1> QED BY <1>2, <1>3 DEF Nothing, Request, Points, Ops, Statuses

LEMMA RequestTyped ==
    ASSUME TypeOK, NEW r \in Clients
    PROVE  /\ req[r].at \in Points /\ req[r].op \in Ops /\ req[r].query \in Queries
           /\ req[r].status \in Statuses /\ req[r].uids \in SUBSET Nat
BY DEF TypeOK, Request

LEMMA KeyTyped == ASSUME TypeOK, NEW r \in Clients PROVE Key(r) \in Keys
BY RequestTyped, ApiAssumption DEF Key, KeyOf, Keys, Queries

LEMMA ReqTyped ==
    ASSUME TypeOK, NEW r \in Clients, NEW q \in Request, req' = [req EXCEPT ![r] = q]
    PROVE  req' \in [Clients -> Request] /\ req'[r] = q
           /\ \A c \in Clients : c # r => req'[c] = req[c]
BY DEF TypeOK

LEMMA GotoTyped ==
    ASSUME TypeOK, NEW r \in Clients, NEW at \in Points, Goto(r, at)
    PROVE  /\ req' \in [Clients -> Request] /\ req'[r].at = at /\ req'[r].op = req[r].op
           /\ \A c \in Clients : c # r => req'[c] = req[c]
<1> DEFINE q == [at |-> at, op |-> req[r].op, query |-> req[r].query, status |-> req[r].status,
                 uids |-> req[r].uids]
<1>1. q \in Request /\ q.at = at /\ q.op = req[r].op
    BY RequestTyped DEF Request
<1>2. req' = [req EXCEPT ![r] = q]
    BY DEF Goto
<1> HIDE DEF q
<1> QED BY <1>1, <1>2, ReqTyped

LEMMA AnswerTyped ==
    ASSUME TypeOK, NEW r \in Clients, NEW status \in Statuses, NEW answer \in SUBSET Nat,
           Answer(r, status, answer)
    PROVE  /\ req' \in [Clients -> Request] /\ req'[r].at = "answer"
           /\ \A c \in Clients : c # r => req'[c] = req[c]
<1> DEFINE q == [at |-> "answer", op |-> Nothing.op, query |-> Nothing.query, status |-> status,
                 uids |-> answer]
<1>1. q \in Request /\ q.at = "answer"
    BY NothingTyped DEF Request, Points
<1>2. req' = [req EXCEPT ![r] = q]
    BY DEF Answer
<1> HIDE DEF q
<1> QED BY <1>1, <1>2, ReqTyped

\* How a request ends: answered, or with its answer lost.
LEMMA EndTyped ==
    ASSUME TypeOK, NEW r \in Clients, Finish(r) \/ DropAnswer(r)
    PROVE  /\ req' \in [Clients -> Request] /\ req[r].at = "answer"
           /\ req'[r].at \in IF process = "serving" THEN {"new", "lost"} ELSE {"closed", "lost"}
           /\ \A c \in Clients : c # r => req'[c] = req[c]
<1>1. /\ Closed \in Request /\ Closed.at = "closed"
      /\ Lost \in Request /\ Lost.at = "lost"
    BY NothingTyped DEF Closed, Lost, Request, Points
<1>2. PICK q \in {Nothing, Closed, Lost} :
        /\ req' = [req EXCEPT ![r] = q]
        /\ \/ q = Nothing /\ process = "serving"
           \/ q = Closed /\ process # "serving"
           \/ q = Lost
    <2>1. CASE Finish(r) /\ process = "serving"
        BY <2>1 DEF Finish
    <2>2. CASE Finish(r) /\ process # "serving"
        BY <2>2 DEF Finish
    <2>3. CASE DropAnswer(r)
        BY <2>3 DEF DropAnswer
    <2> QED BY <2>1, <2>2, <2>3
<1>3. req[r].at = "answer" /\ q \in Request
    BY <1>1, NothingTyped DEF Finish, DropAnswer
<1>4. req' \in [Clients -> Request] /\ req'[r] = q /\ \A c \in Clients : c # r => req'[c] = req[c]
    BY <1>2, <1>3, ReqTyped
<1> QED BY <1>1, <1>2, <1>3, <1>4, NothingTyped

-----------------------------------------------------------------------------
(***************************************************************************)
(* Types                                                                   *)
(***************************************************************************)
LEMMA StoreTyped ==
    ASSUME TypeOK, NEW k \in Keys, Store(k)
    PROVE  objects' \in [Keys -> Resource \cup {None}] /\ uids' \in Nat
<1>1. [uid |-> uids + 1, deleting |-> FALSE] \in Resource
    BY DEF TypeOK, Resource
<1> QED BY <1>1 DEF TypeOK, Store

LEMMA RemoveTyped ==
    ASSUME TypeOK, NEW k \in Keys, Remove(k)
    PROVE  objects' \in [Keys -> Resource \cup {None}]
<1>1. objects[k] \in Resource
    BY DEF TypeOK, Remove
<1>2. [uid |-> objects[k].uid, deleting |-> TRUE] \in Resource
    BY <1>1 DEF Resource
<1> QED BY <1>2 DEF TypeOK, Remove

\* The statuses of the handlers' answers.
LEMMA StatusValues == {200, 201, 204, 400, 404, 500} \subseteq Statuses
BY DEF Statuses

LEMMA UidTyped == ASSUME TypeOK, NEW k \in Keys, objects[k] # None PROVE objects[k].uid \in Nat
BY DEF TypeOK, Resource

\* A handler that answers, and what it has done to the resources.
LEMMA AnswerKeepsTypes ==
    ASSUME TypeOK, NEW r \in Clients, NEW status \in Statuses, NEW answer \in SUBSET Nat,
           Answer(r, status, answer), process' \in Processes, faults' \in Nat,
           objects' \in [Keys -> Resource \cup {None}], uids' \in Nat
    PROVE  TypeOK'
BY AnswerTyped DEF TypeOK

LEMMA HandlerKeepsTypes == ASSUME TypeOK, NEW r \in Clients, Handler(r) PROVE TypeOK'
<1>0. /\ process \in Processes /\ objects \in [Keys -> Resource \cup {None}]
      /\ uids \in Nat /\ faults \in Nat /\ Key(r) \in Keys
    BY KeyTyped DEF TypeOK
<1> USE StatusValues
<1>1. CASE AnswerDirectly(r)
    BY <1>0, <1>1, AnswerKeepsTypes DEF AnswerDirectly
<1>2. CASE List(r)
    <2> DEFINE answer == {objects[k].uid : k \in {k \in Keys :
                            KeyColl[k] = req[r].query[1] /\ objects[k] # None}}
    <2>1. answer \in SUBSET Nat
        BY UidTyped
    <2>2. Answer(r, 200, answer) /\ UNCHANGED <<process, objects, uids, faults>>
        BY <1>2 DEF List
    <2> HIDE DEF answer
    <2> QED BY <1>0, <2>1, <2>2, AnswerKeepsTypes
<1>3. CASE Get(r)
    <2>1. Object(r) # None => {Object(r).uid} \in SUBSET Nat
        BY <1>0, UidTyped DEF Object
    <2> QED BY <1>0, <1>3, <2>1, AnswerKeepsTypes DEF Get
<1>4. CASE Decode(r)
    <2>1. CASE Goto(r, "call")
        BY <1>0, <1>4, <2>1, GotoTyped DEF Decode, TypeOK, Points
    <2>2. CASE Answer(r, 400, {})
        BY <1>0, <1>4, <2>2, AnswerKeepsTypes DEF Decode
    <2> QED BY <1>4, <2>1, <2>2 DEF Decode
<1>5. CASE Create(r)
    <2>1. CASE Store(Key(r)) /\ Answer(r, 201, {uids + 1})
        <3>1. objects' \in [Keys -> Resource \cup {None}] /\ uids' \in Nat
            BY <1>0, <2>1, StoreTyped
        <3>2. {uids + 1} \in SUBSET Nat
            BY <1>0
        <3> QED BY <1>0, <1>5, <2>1, <3>1, <3>2, AnswerKeepsTypes DEF Create
    <2>2. CASE Answer(r, 500, {}) /\ UNCHANGED <<objects, uids>>
        BY <1>0, <1>5, <2>2, AnswerKeepsTypes DEF Create
    <2> QED BY <1>5, <2>1, <2>2 DEF Create
<1>6. CASE DeleteGet(r)
    <2>1. CASE Object(r) = None
        BY <1>0, <1>6, <2>1, AnswerKeepsTypes DEF DeleteGet
    <2>2. CASE Object(r) # None
        BY <1>0, <1>6, <2>2, GotoTyped DEF DeleteGet, TypeOK, Points
    <2> QED BY <2>1, <2>2
<1>7. CASE Delete(r)
    <2>1. CASE Object(r) = None
        BY <1>0, <1>7, <2>1, AnswerKeepsTypes DEF Delete
    <2>2. CASE Object(r) # None
        <3>1. objects' \in [Keys -> Resource \cup {None}]
            BY <1>0, <1>7, <2>2, RemoveTyped DEF Delete
        <3> QED BY <1>0, <1>7, <2>2, <3>1, AnswerKeepsTypes DEF Delete
    <2> QED BY <2>1, <2>2
<1>8. CASE Finish(r)
    BY <1>0, <1>8, EndTyped DEF Finish, TypeOK
<1> QED BY <1>1, <1>2, <1>3, <1>4, <1>5, <1>6, <1>7, <1>8 DEF Handler

LEMMA DropAnswerKeepsTypes == ASSUME TypeOK, NEW r \in Clients, DropAnswer(r) PROVE TypeOK'
<1>1. req' \in [Clients -> Request]
    BY EndTyped
<1>2. faults' \in Nat /\ UNCHANGED <<process, objects, uids>>
    BY DEF DropAnswer, TypeOK
<1> QED BY <1>1, <1>2 DEF TypeOK

LEMMA FailCallKeepsTypes == ASSUME TypeOK, NEW r \in Clients, FailCall(r) PROVE TypeOK'
<1>0. /\ process' \in Processes /\ faults' \in Nat /\ Key(r) \in Keys
    BY KeyTyped DEF TypeOK, FailCall
<1>1. objects' \in [Keys -> Resource \cup {None}] /\ uids' \in Nat
    BY <1>0, StoreTyped, RemoveTyped DEF FailCall, TypeOK
<1>2. Answer(r, 404, {}) \/ Answer(r, 500, {})
    BY DEF FailCall
<1> QED BY <1>0, <1>1, <1>2, StatusValues, AnswerKeepsTypes

LEMMA ArriveKeepsTypes == ASSUME TypeOK, NEW r \in Clients, Arrive(r) PROVE TypeOK'
<1>1. PICK op \in Ops, q \in Queries :
        req' = [req EXCEPT ![r] = [at |-> IF op = "create" THEN "decode" ELSE "call",
                                   op |-> op, query |-> q, status |-> 0, uids |-> {}]]
    BY DEF Arrive
<1> DEFINE new == [at |-> IF op = "create" THEN "decode" ELSE "call",
                   op |-> op, query |-> q, status |-> 0, uids |-> {}]
<1>2. new \in Request
    BY DEF Request, Points, Statuses
<1>3. req' = [req EXCEPT ![r] = new]
    BY <1>1
<1> HIDE DEF new
<1>4. req' \in [Clients -> Request]
    BY <1>2, <1>3, ReqTyped
<1> QED BY <1>4 DEF Arrive, TypeOK

LEMMA CutTyped ==
    ASSUME TypeOK, Cut
    PROVE  /\ req' \in [Clients -> Request]
           /\ \A r \in Clients : req'[r] = IF req[r].at \in InHandler THEN CutOff ELSE req[r]
           /\ CutOff.at = "cut"
<1>1. CutOff \in Request /\ CutOff.at = "cut"
    BY NothingTyped DEF CutOff, Request, Points
<1> QED BY <1>1 DEF Cut, TypeOK

LEMMA TypesKept == TypeOK /\ [Next]_vars => TypeOK'
<1> SUFFICES ASSUME TypeOK, [Next]_vars PROVE TypeOK'
    OBVIOUS
<1>1. ASSUME NEW r \in Clients, Arrive(r) \/ Handler(r) \/ FailCall(r) \/ DropAnswer(r) PROVE TypeOK'
    BY <1>1, ArriveKeepsTypes, HandlerKeepsTypes, FailCallKeepsTypes, DropAnswerKeepsTypes
<1>2. CASE Listen \/ Shutdown \/ Stop
    BY <1>2 DEF Listen, Shutdown, Stop, TypeOK, Processes
<1>3. CASE ListenFails \/ GiveUp
    BY <1>3, CutTyped DEF ListenFails, GiveUp, TypeOK, Processes
<1>4. ASSUME NEW k \in Keys, Foreign(k) PROVE TypeOK'
    BY <1>4, StoreTyped, RemoveTyped DEF Foreign, TypeOK
<1>5. CASE UNCHANGED vars
    BY <1>5 DEF vars, TypeOK
<1> QED BY <1>1, <1>2, <1>3, <1>4, <1>5 DEF Next

\* Every reachable state is well typed.
THEOREM TypeCorrect == Spec => []TypeOK
<1>1. Init => TypeOK
    BY NothingTyped DEF Init, TypeOK, Processes
<1> QED BY <1>1, TypesKept, PTL DEF Spec

-----------------------------------------------------------------------------
(***************************************************************************)
(* What a handler is in the middle of                                      *)
(***************************************************************************)
\* Only handleCreateServer decodes a body, and only handleDeleteServer makes a second call.
OpsFit == \A r \in Clients :
    /\ req[r].at = "decode" => req[r].op = "create"
    /\ req[r].at = "delete" => req[r].op = "delete"
IInv == TypeOK /\ OpsFit

\* A handler's own request stays where a handler of its operation can be.
LEMMA HandlerMoves ==
    ASSUME IInv, NEW r \in Clients, Handler(r) \/ FailCall(r) \/ DropAnswer(r)
    PROVE  OpsFit'
<1>1. TypeOK
    BY DEF IInv
<1>2. /\ req'[r].at # "decode" /\ (req'[r].at = "delete" => req'[r].op = "delete")
      /\ \A c \in Clients : c # r => req'[c] = req[c]
    <2>1. CASE \E status \in Statuses : \E answer : Answer(r, status, answer)
        BY <1>1, <2>1 DEF Answer, TypeOK
    <2>2. CASE Goto(r, "call") \/ (Goto(r, "delete") /\ req[r].op = "delete")
        BY <1>1, <2>2, GotoTyped DEF Points
    <2>3. CASE Finish(r) \/ DropAnswer(r)
        BY <1>1, <2>3, EndTyped
    <2> QED BY <2>1, <2>2, <2>3, StatusValues
            DEF Handler, AnswerDirectly, List, Get, Decode, Create, DeleteGet, Delete, FailCall
<1> QED BY <1>1, <1>2 DEF IInv, OpsFit

LEMMA Invariance == Spec => []IInv
<1>1. Init => IInv
    <2> SUFFICES ASSUME Init PROVE IInv
        OBVIOUS
    <2>1. TypeOK
        BY NothingTyped DEF Init, TypeOK, Processes
    <2>2. \A r \in Clients : req[r].at = "new"
        BY NothingTyped DEF Init
    <2> QED BY <2>1, <2>2 DEF IInv, OpsFit
<1>2. IInv /\ [Next]_vars => IInv'
    <2> SUFFICES ASSUME IInv, [Next]_vars PROVE OpsFit'
        BY TypesKept DEF IInv
    <2>1. ASSUME NEW r \in Clients, Arrive(r) PROVE OpsFit'
        <3>1. \A c \in Clients :
                \/ req'[c].at = "call" \/ (req'[c].at = "decode" /\ req'[c].op = "create")
                \/ req'[c] = req[c]
            BY <2>1 DEF Arrive, IInv, TypeOK
        <3> QED BY <3>1 DEF IInv, OpsFit
    <2>2. ASSUME NEW r \in Clients, Handler(r) \/ FailCall(r) \/ DropAnswer(r) PROVE OpsFit'
        BY <2>2, HandlerMoves
    <2>3. CASE UNCHANGED req
        BY <2>3 DEF IInv, OpsFit
    <2>4. CASE Cut
        <3>1. \A r \in Clients : req'[r].at = "cut" \/ req'[r] = req[r]
            BY <2>4, CutTyped DEF IInv
        <3> QED BY <3>1 DEF IInv, OpsFit
    <2> QED BY <2>1, <2>2, <2>3, <2>4
            DEF Next, vars, Listen, ListenFails, Shutdown, Stop, GiveUp, Foreign
<1> QED BY <1>1, <1>2, PTL DEF Spec

-----------------------------------------------------------------------------
(***************************************************************************)
(* The end comes nearer.                                                   *)
(***************************************************************************)
\* How many steps a client has to go at most if no request of its is taken twice, and how many
\* the process until it has ended.
Left(q) == CASE q.at = "new"    -> 5
             [] q.at = "decode" -> 4
             [] q.at = "call"   -> 3
             [] q.at = "delete" -> 2
             [] q.at = "answer" -> 1
             [] OTHER           -> 0
Rest(p) == CASE p = "starting" -> 3
             [] p = "serving"  -> 2
             [] p = "draining" -> 1
             [] OTHER          -> 0

\* A handler without an answer only moves forward, and from Shutdown on every client does.
Advancing ==
    /\ process' = process \/ Rest(process') < Rest(process)
    /\ \A r \in Clients : req[r].at \in {"decode", "call", "delete"} \/ process # "serving" =>
        req'[r] = req[r] \/ Left(req'[r]) < Left(req[r])

LEMMA HandlerAdvances ==
    ASSUME TypeOK, NEW r \in Clients, Handler(r) \/ FailCall(r) \/ DropAnswer(r)
    PROVE  /\ req[r].at # "answer" \/ process # "serving" => Left(req'[r]) < Left(req[r])
           /\ \A c \in Clients : c # r => req'[c] = req[c]
<1>1. CASE /\ req[r].at \in {"decode", "call", "delete"}
           /\ \E status \in Statuses : \E answer : Answer(r, status, answer)
    <2>1. req'[r].at = "answer" /\ \A c \in Clients : c # r => req'[c] = req[c]
        BY <1>1 DEF Answer, TypeOK
    <2>2. Left(req'[r]) = 1 /\ Left(req[r]) \in {2, 3, 4}
        BY <1>1, <2>1 DEF Left
    <2> QED BY <2>1, <2>2
<1>2. CASE Decode(r) /\ Goto(r, "call")
    <2>1. req[r].at = "decode" /\ req'[r].at = "call" /\ \A c \in Clients : c # r => req'[c] = req[c]
        BY <1>2, GotoTyped DEF Decode, Points
    <2>2. Left(req[r]) = 4 /\ Left(req'[r]) = 3
        BY <2>1 DEF Left
    <2> QED BY <2>1, <2>2
<1>3. CASE DeleteGet(r) /\ Goto(r, "delete")
    <2>1. req[r].at = "call" /\ req'[r].at = "delete" /\ \A c \in Clients : c # r => req'[c] = req[c]
        BY <1>3, GotoTyped DEF DeleteGet, Points
    <2>2. Left(req[r]) = 3 /\ Left(req'[r]) = 2
        BY <2>1 DEF Left
    <2> QED BY <2>1, <2>2
<1>4. CASE Finish(r) \/ DropAnswer(r)
    <2>1. /\ req[r].at = "answer" /\ \A c \in Clients : c # r => req'[c] = req[c]
          /\ process # "serving" => req'[r].at \in {"closed", "lost"}
        BY <1>4, EndTyped
    <2>2. Left(req[r]) = 1 /\ (process # "serving" => Left(req'[r]) = 0)
        BY <2>1 DEF Left
    <2> QED BY <2>1, <2>2
<1> QED BY <1>1, <1>2, <1>3, <1>4, StatusValues
        DEF Handler, AnswerDirectly, List, Get, Decode, Create, DeleteGet, Delete, FailCall

LEMMA CutAdvances ==
    ASSUME TypeOK, NEW r \in Clients, Cut
    PROVE  req'[r] = req[r] \/ Left(req'[r]) < Left(req[r])
<1>1. CASE req[r].at \in InHandler
    <2>1. Left(req'[r]) = 0
        BY <1>1, CutTyped DEF Left
    <2>2. Left(req[r]) \in 1..4
        BY <1>1 DEF Left, InHandler
    <2> QED BY <2>1, <2>2
<1>2. CASE req[r].at \notin InHandler
    BY <1>2, CutTyped
<1> QED BY <1>1, <1>2

\* No step of other requests, of other users of Kubernetes or of the process takes a handler that
\* has no answer yet, or the process, back.  Once Shutdown is called this holds of every client:
\* each has at most the five steps of one more request, on a connection that was accepted before.
\* With a process that runs and a timer that fires, it ends (main.go:97-117).
THEOREM EndComesNearer == Spec => [][Advancing]_vars
<1>1. TypeOK /\ [Next]_vars => [Advancing]_vars
    <2> SUFFICES ASSUME TypeOK, Next PROVE Advancing
        OBVIOUS
    <2>1. ASSUME NEW r \in Clients, Handler(r) \/ FailCall(r) \/ DropAnswer(r) PROVE Advancing
        <3>1. process' = process
            BY <2>1 DEF Handler, AnswerDirectly, List, Get, Decode, Create, DeleteGet, Delete, Finish,
                        FailCall, DropAnswer
        <3> QED BY <2>1, <3>1, HandlerAdvances DEF Advancing
    <2>2. ASSUME NEW r \in Clients, Arrive(r) PROVE Advancing
        <3>1. /\ process' = process /\ \A c \in Clients : c # r => req'[c] = req[c]
              /\ req[r].at \notin {"decode", "call", "delete"}
              /\ process # "serving" => req[r].at = "new"
              /\ req'[r].at \in {"decode", "call"}
            BY <2>2 DEF Arrive, TypeOK
        <3>2. process # "serving" => Left(req[r]) = 5
            BY <3>1 DEF Left
        <3>3. Left(req'[r]) \in {3, 4}
            BY <3>1 DEF Left
        <3> QED BY <3>1, <3>2, <3>3 DEF Advancing
    <2>3. CASE Listen \/ Shutdown \/ Stop
        <3>1. Rest(process') < Rest(process) /\ req' = req
            BY <2>3 DEF Listen, Shutdown, Stop, Rest
        <3> QED BY <3>1 DEF Advancing
    <2>4. CASE ListenFails \/ GiveUp
        <3>1. Rest(process') < Rest(process) /\ Cut
            BY <2>4 DEF ListenFails, GiveUp, Rest
        <3> QED BY <3>1, CutAdvances DEF Advancing
    <2>5. ASSUME NEW k \in Keys, Foreign(k) PROVE Advancing
        BY <2>5 DEF Foreign, Advancing
    <2> QED BY <2>1, <2>2, <2>3, <2>4, <2>5 DEF Next
<1> QED BY <1>1, TypeCorrect, PTL DEF Spec

-----------------------------------------------------------------------------
(***************************************************************************)
(* The handlers implement the registry                                     *)
(***************************************************************************)
LEMMA CallsStep ==
    ASSUME TypeOK, NEW r \in Clients, NEW q, req' = [req EXCEPT ![r] = q]
    PROVE  Calls' = [Calls EXCEPT ![r] = Abstract(q)]
BY DEF TypeOK, Calls, Abstract

LEMMA AnswerDecides ==
    ASSUME TypeOK, NEW r \in Clients, NEW status, NEW answer, Answer(r, status, answer)
    PROVE  Registry!Decide(r, status, answer)
<1> DEFINE q == [at |-> "answer", op |-> Nothing.op, query |-> Nothing.query, status |-> status,
                 uids |-> answer]
<1>1. Abstract(q) = [at |-> "decided", status |-> status, uids |-> answer]
    BY DEF Abstract
<1>2. req' = [req EXCEPT ![r] = q]
    BY DEF Answer
<1> HIDE DEF q
<1>3. Calls' = [Calls EXCEPT ![r] = [at |-> "decided", status |-> status, uids |-> answer]]
    BY <1>1, <1>2, CallsStep
<1> QED BY <1>3 DEF Registry!Decide, Registry!Becomes

\* What a handler that has not answered shows of its request.
LEMMA OpenCall ==
    ASSUME TypeOK, NEW r \in Clients, req[r].at \in {"decode", "call", "delete"}
    PROVE  /\ Calls[r] = [at |-> "open", op |-> req[r].op, key |-> Key(r)]
           /\ Calls[r].key = Key(r) /\ Calls[r].op = req[r].op /\ Calls[r].at = "open"
           /\ Registry!Asks(r, req[r].op)
<1>1. Calls[r] = [at |-> "open", op |-> req[r].op, key |-> Key(r)]
    BY DEF Calls, Abstract, Key
<1> QED BY <1>1 DEF Registry!Asks

\* Going on within the handler is not seen.
LEMMA GotoUnseen ==
    ASSUME TypeOK, NEW r \in Clients, NEW at \in {"call", "delete"}, Goto(r, at),
           req[r].at \in {"decode", "call", "delete"}
    PROVE  Calls' = Calls
<1> DEFINE q == [at |-> at, op |-> req[r].op, query |-> req[r].query, status |-> req[r].status,
                 uids |-> req[r].uids]
<1>1. Abstract(q) = [at |-> "open", op |-> req[r].op, key |-> Key(r)]
    BY DEF Abstract, Key
<1>2. req' = [req EXCEPT ![r] = q]
    BY DEF Goto
<1> HIDE DEF q
<1>3. Calls' = [Calls EXCEPT ![r] = Abstract(q)]
    BY <1>2, CallsStep
<1>4. Calls[r] = Abstract(q)
    BY <1>1, OpenCall
<1> QED BY <1>3, <1>4 DEF Calls

LEMMA StoreIsFresh ==
    ASSUME NEW k \in Keys, Store(k)
    PROVE  /\ objects[k] = None /\ uids' = uids + 1
           /\ objects' = [objects EXCEPT ![k] = Registry!Fresh]
BY DEF Store, Registry!Fresh

LEMMA RemoveIsRemoved ==
    ASSUME NEW k \in Keys, Remove(k)
    PROVE  /\ objects[k] # None
           /\ \E left \in Registry!Removed(objects[k]) : objects' = [objects EXCEPT ![k] = left]
BY DEF Remove, Registry!Removed

LEMMA HandlerImplements ==
    ASSUME TypeOK, OpsFit, NEW r \in Clients, Handler(r)
    PROVE  [Registry!Next]_(Registry!vars)
<1>0. Key(r) \in Keys
    BY KeyTyped
<1>1. CASE AnswerDirectly(r)
    <2>1. /\ req[r].op \in {"health", "options"}
          /\ \E status \in {200, 204} : Registry!Decide(r, status, {})
          /\ Calls[r].at = "open" /\ Calls[r].op = req[r].op
        <3>1. PICK status \in {200, 204} : Answer(r, status, {})
            BY <1>1 DEF AnswerDirectly
        <3>2. req[r].at = "call" /\ req[r].op \in {"health", "options"}
            BY <1>1 DEF AnswerDirectly
        <3>3. Registry!Decide(r, status, {})
            BY <3>1, <3>2, AnswerDecides
        <3>4. Calls[r].at = "open" /\ Calls[r].op = req[r].op
            BY <3>2, OpenCall
        <3> QED BY <3>2, <3>3, <3>4
    <2>2. Registry!Other(r)
        BY <1>1, <2>1 DEF AnswerDirectly, Registry!Other
    <2> QED BY <2>2 DEF Registry!Next
<1>2. CASE List(r)
    <2> DEFINE answer == {objects[k].uid : k \in {k \in Keys :
                            KeyColl[k] = req[r].query[1] /\ objects[k] # None}}
    <2>1. /\ Registry!Asks(r, "list") /\ Calls[r].key = Key(r)
          /\ Registry!Decide(r, 200, answer)
        BY <1>2, OpenCall, AnswerDecides DEF List
    <2>2. KeyColl[Key(r)] = req[r].query[1]
        BY <1>0 DEF KeyColl, Key, KeyOf
    <2>3. answer = {objects[k].uid : k \in Registry!Existing(KeyColl[Calls[r].key])}
        BY <2>1, <2>2 DEF Registry!Existing
    <2> HIDE DEF answer
    <2>4. Registry!List(r)
        BY <1>2, <2>1, <2>3 DEF List, Registry!List
    <2> QED BY <2>4 DEF Registry!Next
<1>3. CASE Get(r)
    <2>1. /\ Registry!Asks(r, "get") /\ objects[Calls[r].key] = Object(r)
          /\ IF Object(r) = None THEN Registry!Decide(r, 404, {})
                                 ELSE Registry!Decide(r, 200, {Object(r).uid})
        BY <1>3, OpenCall, AnswerDecides DEF Get, Object
    <2>2. Registry!Get(r)
        BY <1>3, <2>1 DEF Get, Registry!Get
    <2> QED BY <2>2 DEF Registry!Next
<1>4. CASE Decode(r)
    <2>1. CASE Goto(r, "call")
        <3>1. Calls' = Calls
            BY <1>4, <2>1, GotoUnseen DEF Decode
        <3> QED BY <1>4, <3>1 DEF Decode, Registry!vars
    <2>2. CASE Answer(r, 400, {})
        <3>1. req[r].op = "create"
            BY <1>4 DEF Decode, OpsFit
        <3>2. Registry!Asks(r, "create") /\ Registry!Decide(r, 400, {})
            BY <1>4, <2>2, <3>1, OpenCall, AnswerDecides DEF Decode
        <3>3. Registry!Refuse(r)
            BY <1>4, <3>2 DEF Decode, Registry!Refuse
        <3> QED BY <3>3 DEF Registry!Next
    <2> QED BY <1>4, <2>1, <2>2 DEF Decode
<1>5. CASE Create(r)
    <2>0. Registry!Asks(r, "create") /\ Calls[r].key = Key(r)
        BY <1>5, OpenCall DEF Create
    <2>1. CASE Store(Key(r)) /\ Answer(r, 201, {uids + 1})
        <3>1. Registry!Decide(r, 201, {uids + 1})
            BY <2>1, AnswerDecides
        <3>2. Registry!Create(r)
            BY <1>0, <1>5, <2>0, <2>1, <3>1, StoreIsFresh DEF Create, Registry!Create
        <3> QED BY <3>2 DEF Registry!Next
    <2>2. CASE Answer(r, 500, {}) /\ UNCHANGED <<objects, uids>>
        <3>1. Registry!Decide(r, 500, {})
            BY <2>2, AnswerDecides
        <3>2. Registry!Refuse(r)
            BY <1>5, <2>0, <2>2, <3>1 DEF Create, Registry!Refuse
        <3> QED BY <3>2 DEF Registry!Next
    <2> QED BY <1>5, <2>1, <2>2 DEF Create
<1>6. CASE DeleteGet(r)
    <2>1. CASE Object(r) = None
        <3>1. /\ Registry!Asks(r, "delete") /\ Registry!Decide(r, 404, {})
              /\ objects[Calls[r].key] = None
            BY <1>6, <2>1, OpenCall, AnswerDecides DEF DeleteGet, Object
        <3>2. Registry!Delete(r)
            BY <1>6, <3>1 DEF DeleteGet, Registry!Delete
        <3> QED BY <3>2 DEF Registry!Next
    <2>2. CASE Object(r) # None
        <3>1. Calls' = Calls
            BY <1>6, <2>2, GotoUnseen DEF DeleteGet
        <3> QED BY <1>6, <3>1 DEF DeleteGet, Registry!vars
    <2> QED BY <2>1, <2>2
<1>7. CASE Delete(r)
    <2>0. Registry!Asks(r, "delete") /\ Calls[r].key = Key(r)
        BY <1>7, OpenCall DEF Delete, OpsFit
    <2>1. CASE Object(r) = None
        <3>1. Registry!Decide(r, 500, {})
            BY <1>7, <2>1, AnswerDecides DEF Delete
        <3>2. Registry!Delete(r)
            BY <1>7, <2>0, <2>1, <3>1 DEF Delete, Object, Registry!Delete
        <3> QED BY <3>2 DEF Registry!Next
    <2>2. CASE Object(r) # None
        <3>1. Registry!Decide(r, 200, {}) /\ Remove(Key(r))
            BY <1>7, <2>2, AnswerDecides DEF Delete
        <3>2. Registry!Delete(r)
            BY <1>0, <1>7, <2>0, <3>1, RemoveIsRemoved DEF Delete, Registry!Delete
        <3> QED BY <3>2 DEF Registry!Next
    <2> QED BY <2>1, <2>2
<1>8. CASE Finish(r)
    <2>1. /\ Calls[r].at = "decided" /\ Abstract(Nothing) = [at |-> "new"]
          /\ Abstract(Closed) = [at |-> "new"]
        BY <1>8, NothingTyped DEF Finish, Closed, Calls, Abstract
    <2>2. Calls' = [Calls EXCEPT ![r] = [at |-> "new"]]
        BY <1>8, <2>1, CallsStep DEF Finish
    <2>3. Registry!Close(r)
        BY <1>8, <2>1, <2>2 DEF Finish, Registry!Close, Registry!Becomes
    <2> QED BY <2>3 DEF Registry!Next
<1> QED BY <1>1, <1>2, <1>3, <1>4, <1>5, <1>6, <1>7, <1>8 DEF Handler

LEMMA FailCallImplements ==
    ASSUME TypeOK, OpsFit, NEW r \in Clients, FailCall(r)
    PROVE  Registry!Next
<1>0. /\ Key(r) \in Keys /\ req[r].at \in {"call", "delete"} /\ req[r].op \in Ops
      /\ faults' = faults + 1
    BY KeyTyped, RequestTyped DEF FailCall
<1>1. /\ Calls[r].at = "open" /\ Calls[r].op = req[r].op /\ Calls[r].key = Key(r)
      /\ Registry!Asks(r, req[r].op)
    BY <1>0, OpenCall
<1>2. \E status \in {404, 500} : Registry!Decide(r, status, {})
    BY AnswerDecides DEF FailCall
<1>3. Registry!Effect(r) /\ req[r].op \in {"list", "get", "create", "delete"}
    <2>1. CASE UNCHANGED <<objects, uids>> /\ req[r].op \in {"list", "get", "create", "delete"}
        BY <2>1 DEF Registry!Effect
    <2>2. CASE req[r].op = "create" /\ Store(Key(r))
        BY <1>0, <1>1, <2>2, StoreIsFresh DEF Registry!Effect
    <2>3. CASE req[r].at = "delete" /\ req[r].op = "delete" /\ Remove(Key(r)) /\ UNCHANGED uids
        BY <1>0, <1>1, <2>3, RemoveIsRemoved DEF Registry!Effect
    <2> QED BY <2>1, <2>2, <2>3 DEF FailCall, OpsFit
<1>4. Registry!Fail(r)
    BY <1>0, <1>1, <1>2, <1>3 DEF Registry!Fail
<1> QED BY <1>4 DEF Registry!Next

LEMMA DropAnswerImplements ==
    ASSUME TypeOK, NEW r \in Clients, DropAnswer(r)
    PROVE  Registry!Next
<1>1. Calls[r].at = "decided" /\ Abstract(Lost) = [at |-> "lost"]
    BY NothingTyped DEF DropAnswer, Lost, Calls, Abstract
<1>2. Calls' = [Calls EXCEPT ![r] = [at |-> "lost"]]
    BY <1>1, CallsStep DEF DropAnswer
<1>3. Registry!Lose(r)
    BY <1>1, <1>2 DEF DropAnswer, Registry!Lose, Registry!Becomes
<1> QED BY <1>3 DEF Registry!Next

LEMMA StepImplements == IInv /\ [Next]_vars => [Registry!Next]_(Registry!vars)
<1> SUFFICES ASSUME IInv, [Next]_vars PROVE [Registry!Next]_(Registry!vars)
    OBVIOUS
<1>0. TypeOK /\ OpsFit
    BY DEF IInv
<1>1. ASSUME NEW r \in Clients, Arrive(r) PROVE Registry!Next
    <2>1. PICK op \in Ops, q \in Queries :
            req' = [req EXCEPT ![r] = [at |-> IF op = "create" THEN "decode" ELSE "call",
                                       op |-> op, query |-> q, status |-> 0, uids |-> {}]]
        BY <1>1 DEF Arrive
    <2> DEFINE new == [at |-> IF op = "create" THEN "decode" ELSE "call",
                       op |-> op, query |-> q, status |-> 0, uids |-> {}]
    <2>2. Abstract(new) = [at |-> "open", op |-> op, key |-> KeyOf(q)]
        BY DEF Abstract
    <2>3. req' = [req EXCEPT ![r] = new]
        BY <2>1
    <2> HIDE DEF new
    <2>4. Calls' = [Calls EXCEPT ![r] = [at |-> "open", op |-> op, key |-> KeyOf(q)]]
        BY <1>0, <2>2, <2>3, CallsStep
    <2>5. Calls[r].at \in {"new", "lost"}
        BY <1>1 DEF Arrive, Calls, Abstract
    <2>6. KeyOf(q) \in Keys
        BY ApiAssumption DEF KeyOf, Keys, Queries
    <2>7. Registry!Open(r, op, KeyOf(q))
        BY <1>1, <2>4, <2>5 DEF Arrive, Registry!Open, Registry!Becomes
    <2> QED BY <2>6, <2>7 DEF Registry!Next, Ops, Reading
<1>2. ASSUME NEW r \in Clients, Handler(r) PROVE [Registry!Next]_(Registry!vars)
    BY <1>0, <1>2, HandlerImplements
<1>3. ASSUME NEW r \in Clients, FailCall(r) PROVE Registry!Next
    BY <1>0, <1>3, FailCallImplements
<1>7. ASSUME NEW r \in Clients, DropAnswer(r) PROVE Registry!Next
    BY <1>0, <1>7, DropAnswerImplements
<1>4. CASE UNCHANGED <<objects, uids, req, faults>>
    BY <1>4 DEF Registry!vars, Calls
<1>5. CASE ListenFails \/ GiveUp
    <2>0. Cut /\ UNCHANGED <<objects, uids, faults>>
        BY <1>5 DEF ListenFails, GiveUp
    <2>1. \A r \in Clients : req'[r] = IF req[r].at \in InHandler THEN CutOff ELSE req[r]
        BY <1>0, <2>0, CutTyped
    <2>2. Abstract(CutOff) = [at |-> "cut"]
        BY <1>0, <2>0, CutTyped DEF Abstract
    <2>3. \A r \in Clients : req[r].at \in InHandler <=> Calls[r].at \in {"open", "decided"}
        BY <1>0, RequestTyped DEF Calls, Abstract, InHandler, Points
    <2>4. Calls' = [r \in Clients |-> Abstract(req'[r])]
        BY DEF Calls, Abstract
    <2>5. Calls' = [r \in Clients |->
            IF Calls[r].at \in {"open", "decided"} THEN [at |-> "cut"] ELSE Calls[r]]
        <3>1. \A r \in Clients : Abstract(req'[r]) =
                IF Calls[r].at \in {"open", "decided"} THEN [at |-> "cut"] ELSE Calls[r]
            <4> SUFFICES ASSUME NEW r \in Clients
                         PROVE  Abstract(req'[r]) =
                             IF Calls[r].at \in {"open", "decided"} THEN [at |-> "cut"] ELSE Calls[r]
                OBVIOUS
            <4>1. CASE req[r].at \in InHandler
                BY <2>1, <2>2, <2>3, <4>1
            <4>2. CASE req[r].at \notin InHandler
                <5>1. req'[r] = req[r] /\ Calls[r] = Abstract(req[r])
                    BY <2>1, <4>2 DEF Calls
                <5> QED BY <2>3, <4>2, <5>1
            <4> QED BY <4>1, <4>2
        <3> QED BY <2>4, <3>1
    <2>6. Registry!Cut
        BY <2>0, <2>5 DEF Registry!Cut
    <2> QED BY <2>6 DEF Registry!Next
<1>6. ASSUME NEW k \in Keys, Foreign(k) PROVE Registry!Next
    <2>1. Calls' = Calls
        BY <1>6 DEF Foreign, Calls
    <2>2. Registry!Foreign(k)
        BY <1>6, <2>1, StoreIsFresh, RemoveIsRemoved DEF Foreign, Registry!Foreign
    <2> QED BY <2>2 DEF Registry!Next
<1> QED BY <1>1, <1>2, <1>3, <1>4, <1>5, <1>6, <1>7
        DEF Next, vars, Listen, Shutdown, Stop

\* Handlers that are several calls each, interleaved as they like with each other, other clients
\* of Kubernetes, failures and the end of the process, look to their clients as if each request
\* took effect at one moment (main.go:183-310).
THEOREM HandlersImplementRegistry == Spec => ImplementsRegistry
<1>1. Init => Registry!Init
    <2> SUFFICES ASSUME Init PROVE Registry!Init
        OBVIOUS
    <2>1. Abstract(Nothing) = [at |-> "new"]
        BY NothingTyped DEF Abstract
    <2>2. \A r \in Clients : req[r] = Nothing
        BY DEF Init
    <2>3. Calls = [r \in Clients |-> [at |-> "new"]]
        BY <2>1, <2>2 DEF Calls
    <2> QED BY <2>3 DEF Init, Registry!Init
<1> QED BY <1>1, StepImplements, Invariance, PTL DEF Spec, ImplementsRegistry, Registry!Spec
=============================================================================
