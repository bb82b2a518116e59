-------------------------- MODULE IdempotencyProofs --------------------------
(***************************************************************************)
(* Theorems about Idempotency, for every set of keys, payloads and         *)
(* goroutines: an answer is the result of its own call, and a key runs     *)
(* twice only for one of the reasons the model names.                      *)
(***************************************************************************)
EXTENDS Idempotency, FiniteSetTheorems, TLAPS

Single(S) == \A x, y \in S : x = y

\* The call with this key and payload was executed, with this result.
Done(k, p, resp) == resp \in DOMAIN effects /\ effects[resp] = [key |-> k, payload |-> p]

\* Rows and goroutines past their handler hold results of their own call.
ResultsGenuine ==
    /\ \A k \in Keys : \A row \in table[k] : Done(k, row.payload, row.resp)
    /\ \A r \in Requests :
          req[r].pc \in {"put", "stored"} => Done(req[r].key, req[r].payload, req[r].resp)
    /\ \A a \in answers : Done(a.key, a.payload, a.resp)

Ran(k) == \E i \in DOMAIN effects : effects[i].key = k

\* A key without an excuse is worked on by one goroutine at a time, which
\* executes it only when it has not run; and once it has run, a live row says
\* so or its goroutine is about to insert that row.
GuardedKey(k) ==
    /\ \A r, t \in Requests : Running(r) /\ Running(t) /\ req[r].key = k /\ req[t].key = k => r = t
    /\ \A r \in Requests : req[r].pc = "handler" /\ req[r].key = k => ~Ran(k)
    /\ Ran(k) => \/ \E row \in table[k] : row.live
                 \/ \E r \in Requests : req[r].pc = "put" /\ req[r].key = k
    /\ Single(Executions(k))

IInv ==
    /\ TypeOK
    /\ \A k \in Keys : Single(table[k])
    /\ ResultsGenuine
    /\ \A k \in Keys \ excused : GuardedKey(k)

-----------------------------------------------------------------------------
(* Steps.                                                                  *)

LEMMA SingleCardinality ==
    ASSUME NEW S, Single(S)
    PROVE  Cardinality(S) <= 1
<1>1. CASE S = {}
  BY <1>1, FS_EmptySet
<1>2. CASE S # {}
  <2>1. PICK x \in S : S = {x}
    BY <1>2 DEF Single
  <2>2. QED
    BY <2>1, FS_Singleton
<1>3. QED
  BY <1>1, <1>2

LEMMA AnyCallType == AnyCall \in Local /\ AnyCall.pc = "idle"
  BY BoundAssumption DEF AnyCall, Local

\* An execution adds one entry at the end.
LEMMA Appended ==
    ASSUME TypeOK, NEW r \in Requests,
           effects' = Append(effects, [key |-> req[r].key, payload |-> req[r].payload])
    PROVE  /\ effects' \in Seq([key : Keys, payload : Payloads])
           /\ \A i \in DOMAIN effects : i \in DOMAIN effects' /\ effects'[i] = effects[i]
           /\ Len(effects) + 1 \in DOMAIN effects' /\ Len(effects) + 1 \in Nat
           /\ Len(effects) + 1 \notin DOMAIN effects
           /\ effects'[Len(effects) + 1] = [key |-> req[r].key, payload |-> req[r].payload]
           /\ \A i \in DOMAIN effects' : i \in DOMAIN effects \/ i = Len(effects) + 1
<1>1. effects \in Seq([key : Keys, payload : Payloads]) /\ req[r] \in Local
  BY DEF TypeOK
<1>2. [key |-> req[r].key, payload |-> req[r].payload] \in [key : Keys, payload : Payloads]
  BY <1>1 DEF Local
<1>3. QED
  BY <1>1, <1>2

\* What a step leaves in the variables of its goroutine.
After(r) ==
    LET q == req'[r] IN
    \/ q = AnyCall
    \/ /\ Receive(r) /\ q.pc = "lookup" /\ q.key \in Keys
       /\ excused' = excused \cup ({q.key} \cap {req[t].key : t \in {u \in Requests : Running(u)}})
    \/ /\ q.key = req[r].key /\ q.payload = req[r].payload
       /\ \/ LookupFresh(r) /\ q.pc = "handler"
          \/ Execute(r) /\ q.pc = "put" /\ q.resp = Len(effects) + 1
          \/ SendAnswer(r) /\ req[r].pc = "put" /\ q.pc = "put" /\ q.resp = req[r].resp
          \/ PutIdempotency(r) /\ q.pc = "stored" /\ q.resp = req[r].resp
          \/ PutFails(r) /\ q.pc = "stored" /\ q.resp = req[r].resp

\* A step sets its goroutine's variables, and no other's.
Sets(r) == req' = [req EXCEPT ![r] = req'[r]] /\ req'[r] \in Local

LEMMA SetLocal ==
    ASSUME TypeOK, NEW r \in Requests, NEW q \in Local, req' = [req EXCEPT ![r] = q]
    PROVE  Sets(r) /\ req'[r] = q
  BY DEF TypeOK, Sets

LEMMA AfterPutLocal ==
    ASSUME TypeOK, NEW r \in Requests, AfterPut(r)
    PROVE  /\ Sets(r)
           /\ \/ req'[r] = AnyCall
              \/ /\ req'[r].pc = "stored" /\ req'[r].key = req[r].key
                 /\ req'[r].payload = req[r].payload /\ req'[r].resp = req[r].resp
<1>1. [req[r] EXCEPT !.pc = "stored"] \in Local /\ req[r] \in Local
  BY DEF TypeOK, Local
<1>2. CASE req[r].answered
  <2>1. req' = [req EXCEPT ![r] = AnyCall]
    BY <1>2 DEF AfterPut
  <2>2. QED
    BY <2>1, SetLocal, AnyCallType
<1>3. CASE ~req[r].answered
  <2>1. req' = [req EXCEPT ![r] = [req[r] EXCEPT !.pc = "stored"]]
    BY <1>3 DEF AfterPut
  <2>2. Sets(r) /\ req'[r] = [req[r] EXCEPT !.pc = "stored"]
    BY <1>1, <2>1, SetLocal
  <2>3. QED
    BY <1>1, <2>2 DEF Local
<1>4. QED
  BY <1>2, <1>3

LEMMA LocalAfter ==
    ASSUME TypeOK, NEW r \in Requests, Middleware(r)
    PROVE  Sets(r) /\ After(r)
<1>0. req[r] \in Local
  BY DEF TypeOK
<1>1. CASE Receive(r)
  <2>1. PICK k \in Keys, p \in Payloads :
           /\ req' = [req EXCEPT ![r] = [AnyCall EXCEPT !.pc = "lookup", !.key = k, !.payload = p]]
           /\ excused' = excused \cup ({k} \cap {req[t].key : t \in {u \in Requests : Running(u)}})
    BY <1>1 DEF Receive, Excuse
  <2> DEFINE q == [AnyCall EXCEPT !.pc = "lookup", !.key = k, !.payload = p]
  <2>2. q \in Local /\ q.pc = "lookup" /\ q.key = k
    BY AnyCallType DEF Local
  <2>3. Sets(r) /\ req'[r] = q
    BY <2>1, <2>2, SetLocal
  <2>4. QED
    BY <1>1, <2>1, <2>2, <2>3 DEF After
<1>2. CASE LookupReplay(r) \/ LookupConflict(r) \/ LookupFails(r) \/ HandlerError(r)
  <2>1. req' = [req EXCEPT ![r] = AnyCall]
    BY <1>2 DEF LookupReplay, LookupConflict, LookupFails, HandlerError
  <2>2. QED
    BY <2>1, SetLocal, AnyCallType DEF After
<1>3. CASE LookupFresh(r)
  <2>1. [req[r] EXCEPT !.pc = "handler"] \in Local
    BY <1>0 DEF Local
  <2>2. req' = [req EXCEPT ![r] = [req[r] EXCEPT !.pc = "handler"]]
    BY <1>3 DEF LookupFresh
  <2>3. Sets(r) /\ req'[r] = [req[r] EXCEPT !.pc = "handler"]
    BY <2>1, <2>2, SetLocal
  <2>4. QED
    BY <1>0, <1>3, <2>3 DEF After, Local
<1>4. CASE Execute(r)
  <2> DEFINE q == [req[r] EXCEPT !.pc = "put", !.resp = Len(effects) + 1]
  <2>1. Len(effects) + 1 \in Nat
    BY DEF TypeOK
  <2>2. /\ q \in Local /\ q.pc = "put" /\ q.resp = Len(effects) + 1
        /\ q.key = req[r].key /\ q.payload = req[r].payload
    BY <1>0, <2>1 DEF Local
  <2>3. req' = [req EXCEPT ![r] = q]
    BY <1>4 DEF Execute
  <2>4. Sets(r) /\ req'[r] = q
    BY <2>2, <2>3, SetLocal
  <2>5. QED
    BY <1>4, <2>2, <2>4 DEF After
<1>5. CASE SendAnswer(r)
  <2>1. CASE req[r].pc = "stored"
    <3>1. req' = [req EXCEPT ![r] = AnyCall]
      BY <1>5, <2>1 DEF SendAnswer
    <3>2. QED
      BY <3>1, SetLocal, AnyCallType DEF After
  <2>2. CASE req[r].pc = "put"
    <3> DEFINE q == [req[r] EXCEPT !.answered = TRUE]
    <3>1. req' = [req EXCEPT ![r] = q]
      BY <1>5, <2>2 DEF SendAnswer
    <3>2. TRUE \in BOOLEAN
      OBVIOUS
    <3>3. /\ q \in Local /\ q.pc = "put" /\ q.resp = req[r].resp
          /\ q.key = req[r].key /\ q.payload = req[r].payload
      BY <1>0, <2>2, <3>2 DEF Local
    <3>4. Sets(r) /\ req'[r] = q
      BY <3>1, <3>3, SetLocal
    <3>5. QED
      BY <1>5, <2>2, <3>3, <3>4 DEF After
  <2>3. QED
    BY <1>5, <2>1, <2>2 DEF SendAnswer
<1>6. CASE PutIdempotency(r) \/ PutFails(r)
  BY <1>6, AfterPutLocal DEF PutIdempotency, PutFails, After
<1>7. QED
  BY <1>1, <1>2, <1>3, <1>4, <1>5, <1>6 DEF Middleware

-----------------------------------------------------------------------------
(* What steps do to the table and to the executions.                       *)

\* What was executed stays executed, and only a handler's own step adds to it.
LEMMA EffectsStep ==
    ASSUME IInv, [Next]_vars
    PROVE  /\ effects' \in Seq([key : Keys, payload : Payloads])
           /\ \A i \in DOMAIN effects : i \in DOMAIN effects' /\ effects'[i] = effects[i]
           /\ \/ effects' = effects
              \/ \E r \in Requests :
                    /\ req[r].pc = "handler"
                    /\ Execute(r) \/ (HandlerError(r) /\ excused' = excused \cup {req[r].key})
                    /\ effects' = Append(effects, [key |-> req[r].key, payload |-> req[r].payload])
<1>1. \/ effects' = effects
      \/ \E r \in Requests :
            /\ req[r].pc = "handler"
            /\ Execute(r) \/ (HandlerError(r) /\ excused' = excused \cup {req[r].key})
            /\ effects' = Append(effects, [key |-> req[r].key, payload |-> req[r].payload])
  BY DEF Next, Middleware, vars, Receive, LookupFresh, LookupReplay, LookupConflict, LookupFails,
     Execute, HandlerError, SendAnswer, PutIdempotency, PutFails, Expire,
     DeleteExpiredIdempotency, Crash, Excuse
<1>2. TypeOK /\ effects \in Seq([key : Keys, payload : Payloads])
  BY DEF IInv, TypeOK
<1>3. QED
  BY <1>1, <1>2, Appended

\* So results stay results.
LEMMA DoneStays ==
    ASSUME IInv, [Next]_vars, NEW k, NEW p, NEW resp, Done(k, p, resp)
    PROVE  resp \in DOMAIN effects' /\ effects'[resp] = [key |-> k, payload |-> p]
  BY EffectsStep DEF Done

\* The row a goroutine inserts carries its own result, and it goes on.
LEMMA TableStep ==
    ASSUME IInv, [Next]_vars, NEW k \in Keys
    PROVE  /\ table'[k] \subseteq Row /\ Single(table'[k])
           /\ \A row \in table'[k] :
                 \/ \E old \in table[k] : old.payload = row.payload /\ old.resp = row.resp
                 \/ \E r \in Requests : PutIdempotency(r) /\ k = req[r].key /\ row = NewRow(r)
           /\ k \notin excused' /\ (\E row \in table[k] : row.live) => \E row \in table'[k] : row.live
<1>0. table \in [Keys -> SUBSET Row] /\ table[k] \subseteq Row /\ Single(table[k])
  BY DEF IInv, TypeOK
<1>1. CASE table'[k] = table[k]
  BY <1>0, <1>1
<1>2. ASSUME NEW r \in Requests, PutIdempotency(r), table'[k] # table[k]
      PROVE  k = req[r].key /\ table'[k] = {NewRow(r)} /\ NewRow(r) \in Row /\ NewRow(r).live
  <2>1. TRUE \in BOOLEAN
    OBVIOUS
  <2>2. req[r] \in Local
    BY DEF IInv, TypeOK
  <2>3. NewRow(r) \in Row /\ NewRow(r).live
    BY <2>1, <2>2 DEF NewRow, Row, Local
  <2>4. table' = [table EXCEPT ![req[r].key] = {NewRow(r)}]
    BY <1>2 DEF PutIdempotency
  <2>5. QED
    BY <1>0, <1>2, <2>3, <2>4
<1>3. CASE \E r \in Requests : PutIdempotency(r) /\ table'[k] # table[k]
  <2>1. PICK r \in Requests : PutIdempotency(r) /\ table'[k] # table[k]
    BY <1>3
  <2>2. k = req[r].key /\ table'[k] = {NewRow(r)} /\ NewRow(r) \in Row /\ NewRow(r).live
    BY <1>2, <2>1
  <2>3. QED
    BY <2>1, <2>2 DEF Single
<1>4. CASE Expire(k)
  <2>1. table' = [table EXCEPT ![k] = {[row EXCEPT !.live = FALSE] : row \in table[k]}]
        /\ k \in excused'
    BY <1>4 DEF Expire, Excuse
  <2>2. table'[k] = {[row EXCEPT !.live = FALSE] : row \in table[k]}
    BY <1>0, <2>1
  <2>3. FALSE \in BOOLEAN
    OBVIOUS
  <2>4. \A row \in Row : /\ [row EXCEPT !.live = FALSE] \in Row
                         /\ [row EXCEPT !.live = FALSE].payload = row.payload
                         /\ [row EXCEPT !.live = FALSE].resp = row.resp
    BY <2>3 DEF Row
  <2>5. Single(table'[k])
    BY <1>0, <2>2 DEF Single
  <2>6. table'[k] \subseteq Row
    BY <1>0, <2>2, <2>4
  <2>7. \A row \in table'[k] :
           \E old \in table[k] : old.payload = row.payload /\ old.resp = row.resp
    BY <1>0, <2>2, <2>4
  <2>8. QED
    BY <2>1, <2>5, <2>6, <2>7
<1>5. CASE DeleteExpiredIdempotency
  <2>1. table'[k] = {row \in table[k] : row.live}
    BY <1>5 DEF DeleteExpiredIdempotency
  <2>2. QED
    BY <1>0, <2>1 DEF Single
<1>6. ASSUME NEW j \in Keys, Expire(j), j # k
      PROVE  table'[k] = table[k]
  BY <1>0, <1>6 DEF Expire
<1>7. \/ table' = table
      \/ \E r \in Requests : PutIdempotency(r)
      \/ \E j \in Keys : Expire(j)
      \/ DeleteExpiredIdempotency
  BY DEF Next, Middleware, vars, Receive, LookupFresh, LookupReplay, LookupConflict, LookupFails,
     Execute, HandlerError, SendAnswer, PutFails, Crash
<1>8. QED
  BY <1>1, <1>3, <1>4, <1>5, <1>6, <1>7

LEMMA OneMoves ==
    ASSUME IInv, [Next]_vars
    PROVE  \/ req' = req
           \/ Crash /\ \A r \in Requests : req'[r] = AnyCall
           \/ \E r \in Requests : Middleware(r) /\ Sets(r) /\ After(r)
<1>1. ASSUME NEW r \in Requests, Middleware(r)
      PROVE  Sets(r) /\ After(r)
  BY <1>1, LocalAfter DEF IInv
<1>2. QED
  BY <1>1 DEF Next, vars, Expire, DeleteExpiredIdempotency, Crash

-----------------------------------------------------------------------------
(* The conjuncts of the invariant.                                         *)

LEMMA TypeStep ==
    ASSUME IInv, [Next]_vars
    PROVE  TypeOK'
<1>0. TypeOK
  BY DEF IInv
<1>1. table' \in [Keys -> SUBSET Row]
  <2>1. \A k \in Keys : table'[k] \subseteq Row
    BY TableStep
  <2>2. DOMAIN table' = Keys /\ table' = [k \in Keys |-> table'[k]]
    BY <1>0 DEF TypeOK, Next, Middleware, vars, Receive, LookupFresh, LookupReplay, LookupConflict,
       LookupFails, Execute, HandlerError, SendAnswer, PutIdempotency, PutFails, Expire,
       DeleteExpiredIdempotency, Crash
  <2>3. QED
    BY <2>1, <2>2
<1>2. \A k \in Keys : Cardinality(table'[k]) <= 1
  BY TableStep, SingleCardinality
<1>3. req' \in [Requests -> Local]
  <2>1. req \in [Requests -> Local]
    BY <1>0 DEF TypeOK
  <2>2. CASE Crash
    BY <2>2, AnyCallType DEF Crash
  <2>3. QED
    BY <2>1, <2>2, OneMoves DEF Sets
<1>4. answers' \subseteq Answer
  <2>1. ASSUME NEW r \in Requests, LookupReplay(r)
        PROVE  answers' \subseteq Answer
    <3>1. PICK row \in table[req[r].key] :
             answers' = answers \cup {[key |-> req[r].key, payload |-> req[r].payload,
                                       resp |-> row.resp]}
      BY <2>1 DEF LookupReplay, LiveRows
    <3>2. req[r] \in Local /\ row \in Row /\ answers \subseteq Answer
      BY <1>0, <3>1 DEF TypeOK, Local
    <3>3. [key |-> req[r].key, payload |-> req[r].payload, resp |-> row.resp] \in Answer
      BY <3>2 DEF Local, Row, Answer
    <3>4. QED
      BY <3>1, <3>2, <3>3
  <2>2. ASSUME NEW r \in Requests, SendAnswer(r)
        PROVE  answers' \subseteq Answer
    <3>1. Result(r) \in Answer
      BY <1>0 DEF TypeOK, Local, Answer, Result
    <3>2. QED
      BY <1>0, <2>2, <3>1 DEF SendAnswer, TypeOK
  <2>3. answers' = answers \/ \E r \in Requests : LookupReplay(r) \/ SendAnswer(r)
    BY DEF Next, Middleware, vars, Receive, LookupFresh, LookupConflict, LookupFails, Execute,
       HandlerError, PutIdempotency, PutFails, Expire, DeleteExpiredIdempotency, Crash
  <2>4. QED
    BY <1>0, <2>1, <2>2, <2>3 DEF TypeOK
<1>5. crashes' \in Nat
  <2>1. crashes' = crashes \/ crashes' = crashes + 1
    BY DEF Next, Middleware, vars, Receive, LookupFresh, LookupReplay, LookupConflict, LookupFails,
       Execute, HandlerError, SendAnswer, PutIdempotency, PutFails, Expire,
       DeleteExpiredIdempotency, Crash
  <2>2. crashes \in Nat
    BY <1>0 DEF TypeOK
  <2>3. QED
    BY <2>1, <2>2
<1>6. excused' \subseteq Keys
  <2>1. \A r \in Requests : req[r].key \in Keys
    BY <1>0 DEF TypeOK, Local
  <2>2. ASSUME NEW r \in Requests, Receive(r)
        PROVE  excused' \subseteq Keys
    BY <1>0, <2>2 DEF TypeOK, Receive, Excuse
  <2>3. CASE Crash
    BY <1>0, <2>1, <2>3 DEF TypeOK, Crash, Excuse
  <2>4. ASSUME NEW r \in Requests, HandlerError(r) \/ PutFails(r)
        PROVE  excused' \subseteq Keys
    BY <1>0, <2>1, <2>4 DEF TypeOK, HandlerError, PutFails, Excuse
  <2>5. ASSUME NEW k \in Keys, Expire(k)
        PROVE  excused' \subseteq Keys
    BY <1>0, <2>5 DEF TypeOK, Expire, Excuse
  <2>6. \/ excused' = excused \/ Crash
        \/ \E r \in Requests : Receive(r) \/ HandlerError(r) \/ PutFails(r)
        \/ \E k \in Keys : Expire(k)
    BY DEF Next, Middleware, vars, LookupFresh, LookupReplay, LookupConflict, LookupFails, Execute,
       SendAnswer, PutIdempotency, DeleteExpiredIdempotency
  <2>7. QED
    BY <1>0, <2>2, <2>3, <2>4, <2>5, <2>6 DEF TypeOK
<1>7. effects' \in Seq([key : Keys, payload : Payloads])
  BY EffectsStep
<1>8. QED
  BY <1>1, <1>2, <1>3, <1>4, <1>5, <1>6, <1>7 DEF TypeOK

\* Rows, goroutines and answers go on naming results of their own call.
LEMMA GenuineStep ==
    ASSUME IInv, [Next]_vars
    PROVE  ResultsGenuine'
<1>0. TypeOK /\ ResultsGenuine
  BY DEF IInv
<1>1. ASSUME NEW k \in Keys, NEW row \in table'[k]
      PROVE  Done(k, row.payload, row.resp)
  <2>1. CASE \E old \in table[k] : old.payload = row.payload /\ old.resp = row.resp
    BY <1>0, <2>1 DEF ResultsGenuine
  <2>2. CASE \E r \in Requests : PutIdempotency(r) /\ k = req[r].key /\ row = NewRow(r)
    BY <1>0, <2>2 DEF ResultsGenuine, PutIdempotency, NewRow
  <2>3. QED
    BY <1>1, <2>1, <2>2, TableStep
<1>2. ASSUME NEW a \in answers'
      PROVE  Done(a.key, a.payload, a.resp)
  <2>1. CASE a \in answers
    BY <1>0, <2>1 DEF ResultsGenuine
  <2>2. ASSUME NEW r \in Requests, NEW row \in LiveRows(req[r].key, req[r].payload),
               a = [key |-> req[r].key, payload |-> req[r].payload, resp |-> row.resp]
        PROVE  Done(a.key, a.payload, a.resp)
    BY <1>0, <2>2 DEF ResultsGenuine, LiveRows, TypeOK, Local
  <2>3. ASSUME NEW r \in Requests, SendAnswer(r), a = Result(r)
        PROVE  Done(a.key, a.payload, a.resp)
    BY <1>0, <2>3 DEF ResultsGenuine, SendAnswer, Result
  <2>4. \/ a \in answers
        \/ \E r \in Requests : SendAnswer(r) /\ a = Result(r)
        \/ \E r \in Requests : \E row \in LiveRows(req[r].key, req[r].payload) :
              a = [key |-> req[r].key, payload |-> req[r].payload, resp |-> row.resp]
    BY DEF Next, Middleware, vars, Receive, LookupFresh, LookupReplay, LookupConflict, LookupFails,
       Execute, HandlerError, SendAnswer, PutIdempotency, PutFails, Expire,
       DeleteExpiredIdempotency, Crash
  <2>5. QED
    BY <2>1, <2>2, <2>3, <2>4
<1>3. ASSUME NEW r \in Requests, req'[r].pc \in {"put", "stored"}
      PROVE  /\ req'[r].resp \in DOMAIN effects'
             /\ effects'[req'[r].resp] = [key |-> req'[r].key, payload |-> req'[r].payload]
  <2>1. CASE req'[r] = req[r]
    BY <1>0, <1>3, <2>1, DoneStays DEF ResultsGenuine
  <2>2. CASE Middleware(r) /\ After(r)
    <3>1. CASE Execute(r) /\ req'[r].resp = Len(effects) + 1
               /\ req'[r].key = req[r].key /\ req'[r].payload = req[r].payload
      BY <1>0, <3>1, Appended DEF Execute
    <3>2. CASE /\ req[r].pc = "put" /\ req'[r].resp = req[r].resp
               /\ req'[r].key = req[r].key /\ req'[r].payload = req[r].payload
      BY <1>0, <3>2, DoneStays DEF ResultsGenuine
    <3>3. QED
      BY <1>3, <2>2, <3>1, <3>2, AnyCallType DEF After, PutIdempotency, PutFails
  <2>3. CASE \E t \in Requests : Sets(t) /\ t # r
    BY <1>0, <2>1, <2>3 DEF Sets, TypeOK
  <2>4. QED
    BY <1>3, <2>1, <2>2, <2>3, OneMoves, AnyCallType
<1>4. \A k \in Keys : \A row \in table'[k] : Done(k, row.payload, row.resp)'
  BY <1>1, DoneStays DEF Done
<1>5. \A a \in answers' : Done(a.key, a.payload, a.resp)'
  BY <1>2, DoneStays DEF Done
<1>6. QED
  BY <1>3, <1>4, <1>5 DEF ResultsGenuine, Done

\* Excuses are kept.
LEMMA ExcusesStay ==
    ASSUME IInv, [Next]_vars
    PROVE  excused \subseteq excused'
  BY DEF Next, Middleware, vars, Receive, LookupFresh, LookupReplay, LookupConflict, LookupFails,
     Execute, HandlerError, SendAnswer, PutIdempotency, PutFails, Expire,
     DeleteExpiredIdempotency, Crash, Excuse

\* A key without an excuse gets a new execution from the only goroutine that
\* works on it, and only when it has none.
LEMMA RunStep ==
    ASSUME IInv, [Next]_vars, NEW k \in Keys \ excused'
    PROVE  \/ \A i \in DOMAIN effects' :
                 effects'[i].key = k => i \in DOMAIN effects /\ effects[i].key = k
           \/ \E r \in Requests :
                 /\ Execute(r) /\ req[r].pc = "handler" /\ req[r].key = k
                 /\ ~Ran(k)
                 /\ \A i \in DOMAIN effects' : effects'[i].key = k => i = Len(effects) + 1
<1>0. TypeOK /\ GuardedKey(k)
  BY ExcusesStay DEF IInv
<1>1. CASE effects' = effects
  BY <1>1
<1>2. CASE \E r \in Requests :
              /\ req[r].pc = "handler"
              /\ Execute(r) \/ (HandlerError(r) /\ excused' = excused \cup {req[r].key})
              /\ effects' = Append(effects, [key |-> req[r].key, payload |-> req[r].payload])
  <2>1. PICK r \in Requests :
              /\ req[r].pc = "handler"
              /\ Execute(r) \/ (HandlerError(r) /\ excused' = excused \cup {req[r].key})
              /\ effects' = Append(effects, [key |-> req[r].key, payload |-> req[r].payload])
    BY <1>2
  <2>2. /\ \A i \in DOMAIN effects : effects'[i] = effects[i]
        /\ effects'[Len(effects) + 1].key = req[r].key
        /\ \A i \in DOMAIN effects' : i \in DOMAIN effects \/ i = Len(effects) + 1
    BY <1>0, <2>1, Appended
  <2>3. CASE req[r].key = k
    <3>1. Execute(r) /\ ~Ran(k)
      BY <1>0, <2>1, <2>3 DEF GuardedKey
    <3>2. QED
      BY <2>1, <2>2, <2>3, <3>1 DEF Ran
  <2>4. CASE req[r].key # k
    BY <2>2, <2>4
  <2>5. QED
    BY <2>3, <2>4
<1>3. QED
  BY <1>1, <1>2, EffectsStep

\* Whoever comes to work on a key without an excuse finds nobody at it.
LEMMA AloneStep ==
    ASSUME IInv, [Next]_vars, NEW k \in Keys \ excused',
           NEW r \in Requests, Running(r)', req'[r].key = k
    PROVE  \/ Running(r) /\ req[r].key = k
           \/ \A t \in Requests : Running(t)' /\ req'[t].key = k => t = r
<1>1. CASE req'[r] = req[r]
  BY <1>1 DEF Running
<1>2. CASE Sets(r) /\ After(r)
  <2>1. CASE Receive(r) /\ excused' = excused \cup
                 ({req'[r].key} \cap {req[t].key : t \in {u \in Requests : Running(u)}})
    <3>1. \A t \in Requests : Running(t) => req[t].key # k
      BY <2>1
    <3>2. \A t \in Requests \ {r} : req'[t] = req[t]
      BY <1>2 DEF Sets, IInv, TypeOK
    <3>3. QED
      BY <3>1, <3>2 DEF Running
  <2>2. CASE req'[r].key = req[r].key /\ Running(r)
    BY <2>2
  <2>3. QED
    BY <1>2, <2>1, <2>2, AnyCallType DEF After, Running, LookupFresh, Execute, SendAnswer,
       PutIdempotency, PutFails
<1>3. CASE \E t \in Requests : Sets(t) /\ t # r
  BY <1>1, <1>3 DEF Sets, IInv, TypeOK
<1>4. QED
  BY <1>1, <1>2, <1>3, OneMoves, AnyCallType DEF Running

LEMMA GuardStep ==
    ASSUME IInv, [Next]_vars, NEW k \in Keys \ excused'
    PROVE  GuardedKey(k)'
<1>0. TypeOK /\ GuardedKey(k) /\ k \in Keys \ excused
  BY ExcusesStay DEF IInv
<1>1. \A r, t \in Requests :
         Running(r)' /\ Running(t)' /\ req'[r].key = k /\ req'[t].key = k => r = t
  BY <1>0, AloneStep DEF GuardedKey
<1>2. ASSUME NEW r \in Requests, req'[r].pc = "handler", req'[r].key = k
      PROVE  ~Ran(k)'
  <2>1. CASE req'[r] = req[r]
    <3>1. ~Ran(k) /\ \A t \in Requests : req[t].pc = "handler" /\ req[t].key = k => t = r
      BY <1>0, <1>2, <2>1 DEF GuardedKey, Running
    <3>2. ~Execute(r)
      BY <1>2, <2>1 DEF Execute, IInv, TypeOK, Local
    <3>3. QED
      BY <3>1, <3>2, RunStep DEF Ran
  <2>2. CASE LookupFresh(r) /\ req'[r].key = req[r].key /\ req'[r].payload = req[r].payload
    <3>1. \A row \in table[k] : ~row.live
      BY <1>2, <2>2 DEF LookupFresh, LiveRows, Conflicts
    <3>2. \A t \in Requests : req[t].pc = "put" => req[t].key # k
      BY <1>0, <1>2, <2>2 DEF LookupFresh, GuardedKey, Running
    <3>3. ~Ran(k)
      BY <1>0, <3>1, <3>2 DEF GuardedKey
    <3>4. effects' = effects
      BY <2>2 DEF LookupFresh
    <3>5. QED
      BY <3>3, <3>4 DEF Ran
  <2>3. CASE \E t \in Requests : Sets(t) /\ t # r
    BY <1>0, <2>1, <2>3 DEF Sets, TypeOK
  <2>4. CASE After(r) /\ ~LookupFresh(r)
    BY <1>2, <2>4, AnyCallType DEF After
  <2>5. QED
    BY <1>2, <2>1, <2>2, <2>3, <2>4, OneMoves, AnyCallType DEF After, LookupFresh, Receive,
       Execute, SendAnswer, PutIdempotency, PutFails
<1> DEFINE Marked == \/ \E row \in table'[k] : row.live
                     \/ \E t \in Requests : req'[t].pc = "put" /\ req'[t].key = k
<1>3. ASSUME Ran(k)
      PROVE  Marked
  <2>1. CASE \E row \in table[k] : row.live
    BY <2>1, TableStep
  <2>2. CASE \E r \in Requests : req[r].pc = "put" /\ req[r].key = k
    <3>1. PICK r \in Requests : req[r].pc = "put" /\ req[r].key = k
      BY <2>2
    <3>2. CASE PutIdempotency(r)
      <4>1. table'[k] = {NewRow(r)}
        BY <1>0, <3>1, <3>2 DEF PutIdempotency, TypeOK
      <4>2. NewRow(r).live
        BY DEF NewRow
      <4>3. QED
        BY <4>1, <4>2
    <3>3. CASE req'[r].pc = "put" /\ req'[r].key = k
      BY <3>3
    <3>4. CASE ~PutIdempotency(r) /\ ~(req'[r].pc = "put" /\ req'[r].key = k)
      <4>1. k \in excused'
        <5>1. CASE Crash
          BY <3>1, <5>1 DEF Crash, Excuse
        <5>2. CASE PutFails(r)
          BY <3>1, <5>2 DEF PutFails, Excuse
        <5>3. ASSUME NEW t \in Requests, Middleware(t), Sets(t), After(t)
              PROVE  t = r
          BY <1>0, <3>1, <3>4, <5>3 DEF Sets, TypeOK
        <5>4. CASE Middleware(r) /\ After(r)
          <6>1. SendAnswer(r) \/ PutFails(r)
            BY <3>1, <3>4, <5>4 DEF Middleware, Receive, Running, LookupFresh, LookupReplay,
               LookupConflict, LookupFails, Execute, HandlerError
          <6>2. CASE SendAnswer(r)
            BY <1>0, <3>1, <3>4, <6>2 DEF SendAnswer, TypeOK, Local
          <6>3. QED
            BY <5>2, <6>1, <6>2
        <5>5. QED
          BY <3>1, <3>4, <5>1, <5>3, <5>4, OneMoves
      <4>2. QED
        BY <4>1
    <3>5. QED
      BY <3>2, <3>3, <3>4
  <2>3. (\E row \in table[k] : row.live) \/ \E r \in Requests : req[r].pc = "put" /\ req[r].key = k
    BY <1>0, <1>3 DEF GuardedKey
  <2>4. QED
    BY <2>1, <2>2, <2>3
<1>4. ASSUME Ran(k)', ~Ran(k)
      PROVE  Marked
  <2>1. PICK r \in Requests : Execute(r) /\ req[r].key = k
    BY <1>4, RunStep DEF Ran
  <2>2. req' = [req EXCEPT ![r] = [req[r] EXCEPT !.pc = "put", !.resp = Len(effects) + 1]]
    BY <2>1 DEF Execute
  <2>3. req'[r].pc = "put" /\ req'[r].key = k
    BY <1>0, <2>1, <2>2 DEF TypeOK, Local
  <2>4. QED
    BY <2>3
<1>5. Single(Executions(k))'
  <2>1. CASE \A i \in DOMAIN effects' :
               effects'[i].key = k => i \in DOMAIN effects /\ effects[i].key = k
    BY <1>0, <2>1 DEF GuardedKey, Single, Executions
  <2>2. CASE \A i \in DOMAIN effects' : effects'[i].key = k => i = Len(effects) + 1
    BY <2>2 DEF Single, Executions
  <2>3. QED
    BY <2>1, <2>2, RunStep
<1>6. QED
  BY <1>1, <1>2, <1>3, <1>4, <1>5 DEF GuardedKey, Running

-----------------------------------------------------------------------------
(* Theorems.                                                               *)

LEMMA Initially == Init => IInv
<1> SUFFICES ASSUME Init PROVE IInv
  OBVIOUS
<1>1. \A r \in Requests : req[r].pc = "idle" /\ req[r] \in Local
  BY AnyCallType DEF Init
<1>2. \A k \in Keys : Single(table[k]) /\ Cardinality(table[k]) <= 1
  BY SingleCardinality DEF Init, Single
<1>3. TypeOK
  <2>1. table \in [Keys -> SUBSET Row] /\ req \in [Requests -> Local]
    BY AnyCallType DEF Init
  <2>2. effects \in Seq([key : Keys, payload : Payloads])
    BY DEF Init
  <2>3. QED
    BY <1>2, <2>1, <2>2 DEF Init, TypeOK
<1>4. \A k \in Keys : ~Ran(k) /\ Single(Executions(k))
  BY DEF Init, Ran, Executions, Single
<1>5. ResultsGenuine
  BY <1>1 DEF Init, ResultsGenuine
<1>6. QED
  BY <1>1, <1>2, <1>3, <1>4, <1>5 DEF IInv, GuardedKey, Running

LEMMA Inductive == IInv /\ [Next]_vars => IInv'
<1> SUFFICES ASSUME IInv, [Next]_vars PROVE IInv'
  OBVIOUS
<1>1. \A k \in Keys : Single(table'[k])
  BY TableStep
<1>2. \A k \in Keys \ excused' : GuardedKey(k)'
  BY GuardStep
<1>3. QED
  BY <1>1, <1>2, TypeStep, GenuineStep DEF IInv, Single

\* The inductive invariant of the middleware and its table.
THEOREM Invariance == Spec => []IInv
  BY Initially, Inductive, PTL DEF Spec

\* Type correctness; the table holds at most one row of a key.
THEOREM TypeCorrect == Spec => []TypeOK
<1>1. IInv => TypeOK
  BY DEF IInv
<1>2. QED
  BY <1>1, Invariance, PTL

\* A success answer is the result of an execution of the same key and payload.
THEOREM Faithful == Spec => []AnswersFaithful
<1>1. IInv => AnswersFaithful
  BY DEF IInv, ResultsGenuine, Done, AnswersFaithful
<1>2. QED
  BY <1>1, Invariance, PTL

\* A key runs twice only for a reason in `excused`.
THEOREM AtMostOnce == Spec => []AtMostOnceUnlessExcused
<1>1. IInv => AtMostOnceUnlessExcused
  BY SingleCardinality DEF IInv, GuardedKey, AtMostOnceUnlessExcused
<1>2. QED
  BY <1>1, Invariance, PTL

=============================================================================
