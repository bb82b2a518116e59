----------------------------- MODULE Idempotency -----------------------------
(***************************************************************************)
(* idempotencyMiddleware around the state-changing handlers of a nakli-hub *)
(* (vault/append, history/append, grant/mint, grant/revoke, llm/complete,  *)
(* bridge/call) and the `idempotency` table.  The lookup, the handler, the *)
(* answer and the insertion of the result are separate steps of one        *)
(* goroutine; nothing spans them.                                          *)
(*                                                                         *)
(* A key stands for one (key, grant_id) pair, a payload for one SHA-256 of *)
(* a body.  The clock is left out: a row is live until it Expires.         *)
(***************************************************************************)
EXTENDS Naturals, Sequences, FiniteSets

CONSTANTS
    Keys,         \* (idempotency key, grant) pairs
    Payloads,     \* request bodies
    Requests,     \* handler goroutines
    MaxEffects,   \* bound on executions
    MaxCrashes,   \* bound on crashes
    MayFail       \* TRUE: statements fail and time passes

ASSUME BoundAssumption ==
    /\ MaxEffects \in Nat
    /\ MaxCrashes \in Nat
    /\ MayFail \in BOOLEAN
    /\ Keys # {} /\ Payloads # {}

VARIABLES
    table,     \* [Keys -> set of at most one row]: table idempotency
    effects,   \* what handlers did, in order; an answer names its index
    req,       \* [Requests -> local state]
    answers,   \* success answers that reached a client
    crashes,
    excused    \* history: keys with a reason to run twice (see Excuse)

vars == <<table, effects, req, answers, crashes, excused>>

Row    == [payload : Payloads, resp : Nat, live : BOOLEAN]
Answer == [key : Keys, payload : Payloads, resp : Nat]

\* What a goroutine keeps in its variables.
Local == [pc : {"idle", "lookup", "handler", "put", "stored"}, key : Keys, payload : Payloads,
          resp : Nat, answered : BOOLEAN]

TypeOK ==
    /\ table \in [Keys -> SUBSET Row] /\ \A k \in Keys : Cardinality(table[k]) <= 1
    /\ effects \in Seq([key : Keys, payload : Payloads])
    /\ req \in [Requests -> Local]
    /\ answers \subseteq Answer
    /\ crashes \in Nat
    /\ excused \subseteq Keys

AnyCall == [pc |-> "idle", key |-> CHOOSE k \in Keys : TRUE,
            payload |-> CHOOSE p \in Payloads : TRUE, resp |-> 0, answered |-> FALSE]

Init ==
    /\ table = [k \in Keys |-> {}]
    /\ effects = <<>>
    /\ req = [r \in Requests |-> AnyCall]
    /\ answers = {}
    /\ crashes = 0
    /\ excused = {}

Running(r) == req[r].pc # "idle"
Excuse(ks) == excused' = excused \cup ks

-----------------------------------------------------------------------------

\* A request is authenticated and its body read.  A client retries with the
\* same key whenever it likes, also while an earlier attempt still runs.
Receive(r) ==
    /\ ~Running(r)
    /\ \E k \in Keys, p \in Payloads :
          /\ req' = [req EXCEPT ![r] = [AnyCall EXCEPT !.pc = "lookup", !.key = k, !.payload = p]]
          /\ Excuse({k} \cap {req[t].key : t \in {u \in Requests : Running(u)}})
    /\ UNCHANGED <<table, effects, answers, crashes>>

\* Mutant: the payload hash is not compared.
LiveRowsOfKey(k, p) == {row \in table[k] : row.live}

\* The rows the SELECT of LookupIdempotency finds, with this payload.
LiveRows(k, p) == {row \in table[k] : row.live /\ row.payload = p}

\* Mutant: the payload hash is part of the WHERE clause.
NoConflicts(k, p) == {}

Conflicts(k, p) == {row \in table[k] : row.live /\ row.payload # p}

LookupFresh(r) ==
    /\ req[r].pc = "lookup"
    /\ LiveRows(req[r].key, req[r].payload) = {}
    /\ Conflicts(req[r].key, req[r].payload) = {}
    /\ req' = [req EXCEPT ![r].pc = "handler"]
    /\ UNCHANGED <<table, effects, answers, crashes, excused>>

LookupReplay(r) ==
    /\ req[r].pc = "lookup"
    /\ \E row \in LiveRows(req[r].key, req[r].payload) :
          answers' = answers \cup {[key |-> req[r].key, payload |-> req[r].payload,
                                    resp |-> row.resp]}
    /\ req' = [req EXCEPT ![r] = AnyCall]
    /\ UNCHANGED <<table, effects, crashes, excused>>

\* 409 idempotency_conflict.
LookupConflict(r) ==
    /\ req[r].pc = "lookup"
    /\ Conflicts(req[r].key, req[r].payload) # {}
    /\ req' = [req EXCEPT ![r] = AnyCall]
    /\ UNCHANGED <<table, effects, answers, crashes, excused>>

\* The handler does its work and prepares a 2xx answer.
Execute(r) ==
    /\ req[r].pc = "handler"
    /\ Len(effects) < MaxEffects
    /\ effects' = Append(effects, [key |-> req[r].key, payload |-> req[r].payload])
    /\ req' = [req EXCEPT ![r].pc = "put", ![r].resp = Len(effects) + 1]
    /\ UNCHANGED <<table, answers, crashes, excused>>

\* The handler answers with an error: it did nothing, or (a bridge adapter
\* that acted before its connection failed) it did.  No row is stored.
HandlerError(r) ==
    /\ MayFail
    /\ req[r].pc = "handler"
    /\ \/ UNCHANGED <<effects, excused>>
       \/ /\ Len(effects) < MaxEffects
          /\ effects' = Append(effects, [key |-> req[r].key, payload |-> req[r].payload])
          /\ Excuse({req[r].key})
    /\ req' = [req EXCEPT ![r] = AnyCall]
    /\ UNCHANGED <<table, answers, crashes>>

Result(r) == [key |-> req[r].key, payload |-> req[r].payload, resp |-> req[r].resp]

\* The answer leaves while the handler writes it or, when it fits net/http's
\* buffer, after the row is stored.  It may be lost on the way.
SendAnswer(r) ==
    /\ req[r].pc \in {"put", "stored"}
    /\ ~req[r].answered
    /\ answers' \in {answers, answers \cup {Result(r)}}
    /\ req' = [req EXCEPT ![r] = IF @.pc = "stored" THEN AnyCall ELSE [@ EXCEPT !.answered = TRUE]]
    /\ UNCHANGED <<table, effects, crashes, excused>>

\* After the insertion, or its failure, the goroutine has only to answer.
AfterPut(r) == req' = [req EXCEPT ![r] = IF @.answered THEN AnyCall ELSE [@ EXCEPT !.pc = "stored"]]

NewRow(r) == [payload |-> req[r].payload, resp |-> req[r].resp, live |-> TRUE]

\* Mutant: the table has no primary key.
PutBeside(r) ==
    /\ req[r].pc = "put"
    /\ table' = [table EXCEPT ![req[r].key] = @ \cup {NewRow(r)}]
    /\ AfterPut(r)
    /\ UNCHANGED <<effects, answers, crashes, excused>>

\* PutIdempotency: INSERT OR REPLACE, on any live or expired row.
PutIdempotency(r) ==
    /\ req[r].pc = "put"
    /\ table' = [table EXCEPT ![req[r].key] = {NewRow(r)}]
    /\ AfterPut(r)
    /\ UNCHANGED <<effects, answers, crashes, excused>>

\* A failed insertion is logged and otherwise ignored.
PutFails(r) ==
    /\ MayFail
    /\ req[r].pc = "put"
    /\ Excuse({req[r].key})
    /\ AfterPut(r)
    /\ UNCHANGED <<table, effects, answers, crashes>>

\* The lookup fails: 500, nothing done.
LookupFails(r) ==
    /\ MayFail
    /\ req[r].pc = "lookup"
    /\ req' = [req EXCEPT ![r] = AnyCall]
    /\ UNCHANGED <<table, effects, answers, crashes, excused>>

\* The retention of a row ends.
Expire(k) ==
    /\ MayFail
    /\ \E row \in table[k] : row.live
    /\ table' = [table EXCEPT ![k] = {[row EXCEPT !.live = FALSE] : row \in table[k]}]
    /\ Excuse({k})
    /\ UNCHANGED <<effects, req, answers, crashes>>

\* The hourly DeleteExpiredIdempotency.
DeleteExpiredIdempotency ==
    /\ \E k \in Keys : \E row \in table[k] : ~row.live
    /\ table' = [k \in Keys |-> {row \in table[k] : row.live}]
    /\ UNCHANGED <<effects, req, answers, crashes, excused>>

\* The process dies: what a handler did stays, the answer and the row may not.
Crash ==
    /\ crashes < MaxCrashes
    /\ \E r \in Requests : Running(r)
    /\ Excuse({req[r].key : r \in {t \in Requests : req[t].pc = "put"}})
    /\ req' = [r \in Requests |-> AnyCall]
    /\ crashes' = crashes + 1
    /\ UNCHANGED <<table, effects, answers>>

Middleware(r) ==
    \/ Receive(r)
    \/ LookupFresh(r)
    \/ LookupReplay(r)
    \/ LookupConflict(r)
    \/ LookupFails(r)
    \/ Execute(r)
    \/ HandlerError(r)
    \/ SendAnswer(r)
    \/ PutIdempotency(r)
    \/ PutFails(r)

Next ==
    \/ \E r \in Requests : Middleware(r)
    \/ \E k \in Keys : Expire(k)
    \/ DeleteExpiredIdempotency
    \/ Crash

Spec == Init /\ [][Next]_vars

-----------------------------------------------------------------------------
(* What the middleware keeps.                                              *)

\* A success answer, first or replayed, is the result of an execution of the
\* same key with the same payload: never of another client's body.
AnswersFaithful ==
    \A a \in answers :
        /\ a.resp \in DOMAIN effects
        /\ effects[a.resp] = [key |-> a.key, payload |-> a.payload]

Executions(k) == {i \in DOMAIN effects : effects[i].key = k}

\* A key runs more than once only for one of the reasons in `excused`: two
\* attempts overlapped, the process died between execution and insertion, the
\* insertion failed, the handler acted and reported an error, or the row
\* expired.  A lost answer, a retry, a 409 or the hourly clean-up is no reason.
AtMostOnceUnlessExcused ==
    \A k \in Keys \ excused : Cardinality(Executions(k)) <= 1

=============================================================================
