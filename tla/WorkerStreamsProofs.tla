-------------------------- MODULE WorkerStreamsProofs --------------------------
(***************************************************************************)
(* Theorems about WorkerStreams, for every set of streams, grants, edges   *)
(* and handlers, and any bounds.                                           *)
(***************************************************************************)
EXTENDS WorkerStreams, FiniteSetTheorems, TLAPS

-----------------------------------------------------------------------------
(* The inductive invariant.                                                *)

\* A record counts events whose ids have been handed out, also an old record
\* in a cache or in the hands of a handler: the next number is a number.
CountsIds ==
    /\ nextId \in 1..MaxAppends + 1
    /\ \A s \in Streams : stream[s].count < nextId
    /\ \A e \in Edges, s \in Streams : view[e].stream[s].count < nextId
    /\ \A r \in Requests : ~At(r, "idle") =>
          /\ req[r].rec.count < nextId
          /\ ~At(r, "head") /\ ~At(r, "stream") =>
                req[r].id \in EventIds /\ req[r].rec.count < req[r].id /\ req[r].id < nextId

\* The payload of an event is stored before its entry.
PayloadFirst ==
    \A r \in Requests : req[r].pc \in {"entry", "record"} => req[r].id \in blobs

\* Two handlers append to one stream, or one with an old record, only after the
\* stream is counted as raced.
OneAppends ==
    \A r \in Requests : r \in Appending(req[r].stream) /\ req[r].stream \notin raced =>
        /\ Appending(req[r].stream) = {r}
        /\ req[r].rec = stream[req[r].stream]

\* The entry a handler has written is the next one.
EntryWritten ==
    \A r \in Requests : At(r, "record") /\ req[r].stream \notin raced =>
        entry[req[r].stream][NextSeq(r)] = {NewEntry(r)}

\* What an append has stored when its record is written.
StoredAt(s, n, id) == n <= stream[s].count /\ \E x \in entry[s][n] : x.id = id

Recorded ==
    /\ \A r \in Requests : req[r].pc \in {"mark", "answer"} /\ req[r].stream \notin raced =>
          StoredAt(req[r].stream, NextSeq(r), req[r].id)
    /\ \A a \in acked : a.stream \notin raced => StoredAt(a.stream, a.seq, a.id)

\* An entry is put on the hash of the one before it, which a vault event does
\* not have.
Link(x, n, before) ==
    /\ x.id \in blobs
    /\ x.hash \in {0, x.id}
    /\ IF n = 1 THEN x.base = 0 ELSE x.base \in {y.hash : y \in before}

\* A stream of one writer at a time is a chain, and its record describes the
\* end of it.
Chained ==
    \A s \in Streams \ raced :
        /\ \A n \in 1..stream[s].count :
              \E x \in entry[s][n] :
                  /\ entry[s][n] = {x}
                  /\ Link(x, n, entry[s][n - 1])
                  /\ n = stream[s].count => x.hash = stream[s].head
        /\ stream[s].count = 0 => stream[s].head = 0

IInv ==
    /\ TypeOK
    /\ CountsIds
    /\ PayloadFirst
    /\ OneAppends
    /\ EntryWritten
    /\ Recorded
    /\ Chained

-----------------------------------------------------------------------------
(* Local states and records.                                               *)

LEMMA StreamKinds ==
    Revocations \in Streams /\ HistoryStreams \subseteq Streams
BY WorkerAssumption DEF Streams

LEMMA LocalFacts ==
    ASSUME TypeOK, NEW r \in Requests
    PROVE  /\ req[r] \in Local
           /\ req[r].stream \in Streams /\ req[r].target \subseteq Grants /\ req[r].prev \in Hashes
           /\ req[r].rec \in Record /\ req[r].id \in Hashes /\ req[r].type \in {"vault", "history"}
BY DEF TypeOK, Local

LEMMA RecordFacts ==
    ASSUME NEW rec \in Record
    PROVE  rec.count \in 0..MaxAppends /\ rec.head \in Hashes /\ rec.count \in Nat
BY WorkerAssumption DEF Record

LEMMA IdleFacts ==
    /\ Idle \in Local /\ Idle.pc = "idle" /\ Idle.type = "history" /\ Idle.stream = Revocations /\ Idle.target = {} /\ Idle.prev = 0
    /\ Idle.rec = [count |-> 0, head |-> 0] /\ Idle.rec.count = 0 /\ Idle.rec \in Record /\ Idle.id = 0
<1>1. 0 \in 0..MaxAppends
  BY WorkerAssumption
<1>2. QED
  BY <1>1, StreamKinds DEF Idle, Local, Record, Hashes

LEMMA CacheFacts ==
    ASSUME TypeOK, NEW e \in Edges
    PROVE  /\ view[e] \in Cache
           /\ view[e].stream \in [Streams -> Record] /\ view[e].revoked \subseteq Grants
BY DEF TypeOK, Cache

\* A handler goes on with nothing changed but where it is.
LEMMA Moves ==
    ASSUME TypeOK, NEW r \in Requests, NEW pc,
           pc \in {"idle", "head", "stream", "blob", "entry", "record", "mark", "answer"},
           Goto(r, pc)
    PROVE  /\ req' \in [Requests -> Local]
           /\ req'[r].pc = pc /\ req'[r].stream = req[r].stream /\ req'[r].target = req[r].target
           /\ req'[r].rec = req[r].rec /\ req'[r].id = req[r].id /\ req'[r].type = req[r].type
           /\ \A t \in Requests \ {r} : req'[t] = req[t]
<1> DEFINE q == [req[r] EXCEPT !.pc = pc]
<1>1. req \in [Requests -> Local] /\ req[r] \in Local
  BY DEF TypeOK
<1>2. req' = [req EXCEPT ![r] = q]
  BY <1>1 DEF Goto
<1>3. /\ q \in Local /\ q.pc = pc /\ q.stream = req[r].stream /\ q.target = req[r].target
      /\ q.rec = req[r].rec /\ q.id = req[r].id /\ q.type = req[r].type
  BY <1>1 DEF Local
<1> HIDE DEF q
<1>4. QED
  BY <1>1, <1>2, <1>3

-----------------------------------------------------------------------------
(* Steps that write neither a stream record nor an entry.                  *)

\* What a handler may do in such a step.
Calm(t) ==
    \/ req'[t] = req[t]
    \/ req'[t].pc \in {"idle", "head", "stream"} /\ req'[t].rec.count < nextId
    \/ /\ req'[t].stream = req[t].stream /\ req'[t].rec = req[t].rec /\ req'[t].id = req[t].id
       /\ \/ req[t].pc = "mark" /\ req'[t].pc = "answer"
          \/ req[t].pc = "blob" /\ req'[t].pc = "entry" /\ req'[t].id \in blobs'

LEMMA CalmStep ==
    ASSUME IInv, TypeOK', UNCHANGED <<stream, entry, raced, nextId>>, blobs \subseteq blobs',
           \A e \in Edges, s \in Streams : view'[e].stream[s].count < nextId,
           \A t \in Requests : Calm(t),
           \A a \in acked' : a \in acked \/ (a.stream \notin raced => StoredAt(a.stream, a.seq, a.id))
    PROVE  IInv'
<1>1. CountsIds'
  <2>1. ASSUME NEW t \in Requests, req'[t].pc # "idle"
        PROVE  /\ req'[t].rec.count < nextId
               /\ req'[t].pc # "head" /\ req'[t].pc # "stream" =>
                     req'[t].id \in EventIds /\ req'[t].rec.count < req'[t].id /\ req'[t].id < nextId
    BY <2>1 DEF IInv, CountsIds, Calm, At
  <2>2. QED
    BY <2>1 DEF IInv, CountsIds, At
<1>2. PayloadFirst'
  BY DEF IInv, PayloadFirst, Calm
<1>3. \A s \in Streams : Appending(s)' \subseteq Appending(s)
  BY DEF Appending, Calm
<1>4. ASSUME NEW t \in Requests, t \in Appending(req[t].stream)'
      PROVE  t \in Appending(req[t].stream) /\ req'[t].stream = req[t].stream /\ req'[t].rec = req[t].rec
  BY <1>4 DEF Appending, Calm
<1>5. OneAppends'
  <2>1. SUFFICES ASSUME NEW t \in Requests, req'[t].pc \in {"blob", "entry", "record"}, req'[t].stream \notin raced
                 PROVE  /\ Appending(req[t].stream)' = {t}
                        /\ req'[t].rec = stream[req'[t].stream]
    BY DEF OneAppends, Appending
  <2>2. /\ req[t].pc \in {"blob", "entry", "record"} /\ req'[t].stream = req[t].stream /\ req'[t].rec = req[t].rec
    BY <2>1 DEF Calm
  <2>3. Appending(req[t].stream) = {t} /\ req[t].rec = stream[req[t].stream]
    BY <2>1, <2>2 DEF IInv, OneAppends, Appending
  <2>4. \A u \in Requests : u \in Appending(req[t].stream)' => u = t
    <3>1. req[t].stream \in Streams /\ req'[t].stream = req[t].stream
      BY <2>2, LocalFacts DEF IInv
    <3>2. QED
      BY <1>3, <2>3, <3>1 DEF Appending
  <2>5. QED
    BY <2>1, <2>2, <2>3, <2>4 DEF Appending
<1>6. EntryWritten'
  BY DEF IInv, EntryWritten, NextSeq, NewEntry, EventHash, At, Calm
<1>7. Recorded'
  <2>1. \A s, n, id : StoredAt(s, n, id)' <=> StoredAt(s, n, id)
    BY DEF StoredAt
  <2>2. QED
    BY <2>1 DEF IInv, Recorded, NextSeq, Calm
<1>8. Chained'
  BY DEF IInv, Chained, Link
<1>9. QED
  BY <1>1, <1>2, <1>5, <1>6, <1>7, <1>8 DEF IInv

\* A handler is somewhere before an append, and nothing else happened.
LEMMA BeforeAppend ==
    ASSUME IInv, NEW r \in Requests, NEW q \in Local, req' = [req EXCEPT ![r] = q],
           q.pc \in {"idle", "head", "stream"}, q.rec.count < nextId,
           UNCHANGED <<kvVars, view, logVars>>
    PROVE  IInv'
<1>1. /\ UNCHANGED <<stream, entry, raced, nextId, blobs, revoked, view, acked, told>>
      /\ req \in [Requests -> Local]
  BY DEF kvVars, logVars, IInv, TypeOK
<1>2. req' \in [Requests -> Local] /\ req'[r] = q /\ \A t \in Requests \ {r} : req'[t] = req[t]
  BY <1>1
<1>3. TypeOK'
  BY <1>1, <1>2 DEF IInv, TypeOK
<1>4. \A t \in Requests : Calm(t)
  BY <1>2 DEF Calm
<1>5. \A e \in Edges, s \in Streams : view'[e].stream[s].count < nextId
  BY <1>1 DEF IInv, CountsIds
<1>6. QED
  BY <1>1, <1>3, <1>4, <1>5, CalmStep

LEMMA ArrivalStep ==
    ASSUME IInv, NEW r \in Requests, NEW g \in Grants,
           handleVaultAppend(r, g) \/ handleHistoryAppend(r, g) \/ handleGrantRevoke(r, g)
    PROVE  IInv'
<1>1. 0 < nextId
  BY DEF IInv, CountsIds
<1>2. CASE handleVaultAppend(r, g)
  <2>1. PICK s \in Streams :
           req' = [req EXCEPT ![r] = [Idle EXCEPT !.pc = "stream", !.type = "vault", !.stream = s]]
    BY <1>2 DEF handleVaultAppend
  <2> DEFINE q == [Idle EXCEPT !.pc = "stream", !.type = "vault", !.stream = s]
  <2>2. q \in Local /\ q.pc = "stream" /\ q.rec.count = 0
    BY IdleFacts, StreamKinds DEF Local
  <2> HIDE DEF q
  <2>3. QED
    BY <1>1, <1>2, <2>1, <2>2, BeforeAppend DEF handleVaultAppend, q
<1>3. CASE handleHistoryAppend(r, g)
  <2>1. PICK s \in HistoryStreams : \E prev \in {0} \cup {a.id : a \in {b \in acked : b.stream = s}} :
           req' = [req EXCEPT ![r] = [Idle EXCEPT !.pc = "stream", !.stream = s, !.prev = prev]]
    BY <1>3 DEF handleHistoryAppend
  <2>2. PICK prev \in {0} \cup {a.id : a \in {b \in acked : b.stream = s}} :
           req' = [req EXCEPT ![r] = [Idle EXCEPT !.pc = "stream", !.stream = s, !.prev = prev]]
    BY <2>1
  <2>3. prev \in Hashes
    <3>1. 0 \in Hashes /\ EventIds \subseteq Hashes
      BY WorkerAssumption DEF Hashes, EventIds
    <3>2. \A a \in acked : a.id \in EventIds
      BY DEF IInv, TypeOK
    <3>3. QED
      BY <3>1, <3>2
  <2> DEFINE q == [Idle EXCEPT !.pc = "stream", !.stream = s, !.prev = prev]
  <2>4. q \in Local /\ q.pc = "stream" /\ q.rec.count = 0
    BY <2>3, IdleFacts, StreamKinds DEF Local
  <2> HIDE DEF q
  <2>5. QED
    BY <1>1, <1>3, <2>2, <2>4, BeforeAppend DEF handleHistoryAppend, q
<1>4. CASE handleGrantRevoke(r, g)
  <2>1. PICK t \in Grants : req' = [req EXCEPT ![r] = [Idle EXCEPT !.pc = "head", !.target = {t}]]
    BY <1>4 DEF handleGrantRevoke
  <2> DEFINE q == [Idle EXCEPT !.pc = "head", !.target = {t}]
  <2>2. q \in Local /\ q.pc = "head" /\ q.rec.count = 0
    BY IdleFacts DEF Local
  <2> HIDE DEF q
  <2>3. QED
    BY <1>1, <1>4, <2>1, <2>2, BeforeAppend DEF handleGrantRevoke, q
<1>5. QED
  BY <1>2, <1>3, <1>4

LEMMA HeadStep ==
    ASSUME IInv, NEW r \in Requests, ReadRevocationHead(r)
    PROVE  IInv'
<1> DEFINE head == View(r).stream[Revocations].head
<1> DEFINE q == [req[r] EXCEPT !.pc = "stream", !.prev = head]
<1>1. head \in Hashes
  <2>1. View(r).stream[Revocations] \in Record
    <3>1. EdgeOf[r] \in Edges
      BY WorkerAssumption
    <3>2. QED
      BY <3>1, CacheFacts, StreamKinds DEF IInv, View
  <2>2. QED
    BY <2>1, RecordFacts
<1>2. req[r] \in Local /\ req \in [Requests -> Local] /\ req[r].rec.count < nextId
  BY LocalFacts DEF IInv, TypeOK, CountsIds, ReadRevocationHead, At
<1>3. req' = [req EXCEPT ![r] = q]
  BY <1>2 DEF ReadRevocationHead
<1> HIDE DEF head
<1>4. q \in Local /\ q.pc = "stream" /\ q.rec = req[r].rec
  BY <1>1, <1>2 DEF Local
<1> HIDE DEF q
<1>5. QED
  BY <1>2, <1>3, <1>4, BeforeAppend DEF ReadRevocationHead

LEMMA CrashStep ==
    ASSUME IInv, NEW r \in Requests, Crash(r)
    PROVE  IInv'
<1>1. /\ UNCHANGED <<stream, entry, raced, nextId, blobs, revoked, view, acked, told>>
      /\ req \in [Requests -> Local] /\ req' = [req EXCEPT ![r] = Idle] /\ 0 < nextId
  BY DEF Crash, kvVars, IInv, TypeOK, CountsIds
<1>2. req' \in [Requests -> Local] /\ req'[r] = Idle /\ \A t \in Requests \ {r} : req'[t] = req[t]
  BY <1>1, IdleFacts
<1>3. TypeOK'
  BY <1>1, <1>2 DEF IInv, TypeOK
<1>4. \A t \in Requests : Calm(t)
  BY <1>1, <1>2, IdleFacts DEF Calm
<1>5. \A e \in Edges, s \in Streams : view'[e].stream[s].count < nextId
  BY <1>1 DEF IInv, CountsIds
<1>6. QED
  BY <1>1, <1>3, <1>4, <1>5, CalmStep

LEMMA BlobStep ==
    ASSUME IInv, NEW r \in Requests, putBlob(r)
    PROVE  IInv'
<1>1. /\ UNCHANGED <<stream, entry, raced, nextId, revoked, view, acked, told>>
      /\ blobs' = blobs \cup {req[r].id} /\ req[r].pc = "blob"
      /\ Goto(r, "entry")
  BY DEF putBlob, logVars, At
<1>2. /\ req' \in [Requests -> Local]
      /\ req'[r].pc = "entry" /\ req'[r].stream = req[r].stream
      /\ req'[r].rec = req[r].rec /\ req'[r].id = req[r].id /\ req'[r].type = req[r].type
      /\ \A t \in Requests \ {r} : req'[t] = req[t]
  BY <1>1, Moves DEF IInv
<1>3. req[r].id \in EventIds
  BY <1>1 DEF IInv, CountsIds, At
<1>4. TypeOK'
  BY <1>1, <1>2, <1>3 DEF IInv, TypeOK
<1>5. \A t \in Requests : Calm(t)
  BY <1>1, <1>2 DEF Calm
<1>6. \A e \in Edges, s \in Streams : view'[e].stream[s].count < nextId
  BY <1>1 DEF IInv, CountsIds
<1>7. blobs \subseteq blobs'
  BY <1>1
<1>8. QED
  BY <1>1, <1>4, <1>5, <1>6, <1>7, CalmStep

\* A cache that takes another set of revoked grants is a cache with the same
\* stream records.
LEMMA Revoking ==
    ASSUME IInv, NEW e \in Edges, NEW gs \in SUBSET Grants, view' = [view EXCEPT ![e].revoked = gs]
    PROVE  /\ view' \in [Edges -> Cache]
           /\ \A d \in Edges : view'[d].stream = view[d].stream
           /\ \A d \in Edges, s \in Streams : view'[d].stream[s].count < nextId
<1>1. view \in [Edges -> Cache] /\ view[e] \in Cache
  BY DEF IInv, TypeOK
<1> DEFINE c == [view[e] EXCEPT !.revoked = gs]
<1>2. c \in Cache /\ c.stream = view[e].stream
  BY <1>1 DEF Cache
<1>3. view' = [view EXCEPT ![e] = c]
  BY <1>1
<1> HIDE DEF c
<1>4. view' \in [Edges -> Cache] /\ \A d \in Edges : view'[d].stream = view[d].stream
  BY <1>1, <1>2, <1>3
<1>5. QED
  BY <1>4 DEF IInv, CountsIds

LEMMA MarkStep ==
    ASSUME IInv, NEW r \in Requests, markGrantRevoked(r)
    PROVE  IInv'
<1>1. /\ UNCHANGED <<stream, entry, raced, nextId, blobs, acked, told>>
      /\ revoked' = revoked \cup req[r].target /\ req[r].pc = "mark"
      /\ Goto(r, "answer")
  BY DEF markGrantRevoked, logVars, At
<1>2. /\ req' \in [Requests -> Local]
      /\ req'[r].pc = "answer" /\ req'[r].stream = req[r].stream
      /\ req'[r].rec = req[r].rec /\ req'[r].id = req[r].id /\ req'[r].type = req[r].type
      /\ \A t \in Requests \ {r} : req'[t] = req[t]
  BY <1>1, Moves DEF IInv
<1>3. EdgeOf[r] \in Edges /\ req[r].target \subseteq Grants
  BY WorkerAssumption, LocalFacts DEF IInv
<1> DEFINE gs == view[EdgeOf[r]].revoked \cup req[r].target
<1>4. gs \in SUBSET Grants
  BY <1>3, CacheFacts DEF IInv
<1>5. view' = [view EXCEPT ![EdgeOf[r]].revoked = gs]
  BY DEF markGrantRevoked
<1> HIDE DEF gs
<1>6. /\ view' \in [Edges -> Cache]
      /\ \A d \in Edges, s \in Streams : view'[d].stream[s].count < nextId
  BY <1>3, <1>4, <1>5, Revoking
<1>7. TypeOK'
  BY <1>1, <1>2, <1>3, <1>6 DEF IInv, TypeOK
<1>8. \A t \in Requests : Calm(t)
  BY <1>1, <1>2 DEF Calm
<1>9. QED
  BY <1>1, <1>6, <1>7, <1>8, CalmStep

LEMMA AnswerStep ==
    ASSUME IInv, NEW r \in Requests, answer(r)
    PROVE  IInv'
<1> DEFINE a == [stream |-> req[r].stream, seq |-> NextSeq(r), id |-> req[r].id]
<1>1. /\ UNCHANGED <<stream, entry, raced, nextId, blobs, revoked, view>>
      /\ acked' = acked \cup {a} /\ told' = told \cup req[r].target
      /\ req' = [req EXCEPT ![r] = Idle] /\ req[r].pc = "answer"
  BY DEF answer, kvVars, At
<1>2. /\ req' \in [Requests -> Local] /\ req'[r] = Idle /\ \A t \in Requests \ {r} : req'[t] = req[t]
      /\ 0 < nextId
  BY <1>1, IdleFacts DEF IInv, TypeOK, CountsIds
<1>3. req[r].id \in EventIds /\ NextSeq(r) \in EventIds
  <2>1. req[r].id \in EventIds /\ req[r].rec.count < req[r].id
    BY <1>1 DEF IInv, CountsIds, At
  <2>2. req[r].rec.count \in Nat
    BY LocalFacts, RecordFacts DEF IInv
  <2>3. QED
    BY <2>1, <2>2, WorkerAssumption DEF EventIds, NextSeq
<1>4. a \in [stream : Streams, seq : EventIds, id : EventIds]
  BY <1>3, LocalFacts DEF IInv
<1>5. a.stream \notin raced => StoredAt(a.stream, a.seq, a.id)
  BY <1>1 DEF IInv, Recorded
<1> HIDE DEF a
<1>6. TypeOK'
  BY <1>1, <1>2, <1>4, LocalFacts DEF IInv, TypeOK
<1>7. \A t \in Requests : Calm(t)
  BY <1>2, IdleFacts DEF Calm
<1>8. \A e \in Edges, s \in Streams : view'[e].stream[s].count < nextId
  BY <1>1 DEF IInv, CountsIds
<1>9. QED
  BY <1>1, <1>5, <1>6, <1>7, <1>8, CalmStep

LEMMA PropagateStep ==
    ASSUME IInv, NEW e \in Edges, Propagate(e)
    PROVE  IInv'
<1>1. UNCHANGED <<stream, entry, raced, nextId, blobs, revoked, req, acked, told>>
  BY DEF Propagate, kvVars, logVars
<1>2. /\ view' \in [Edges -> Cache]
      /\ \A d \in Edges, s \in Streams : view'[d].stream[s].count < nextId
  <2>1. CASE view' = [view EXCEPT ![e].revoked = revoked]
    BY <2>1, Revoking DEF IInv, TypeOK
  <2>2. ASSUME NEW s \in Streams, view' = [view EXCEPT ![e].stream[s] = stream[s]]
        PROVE  /\ view' \in [Edges -> Cache]
               /\ \A d \in Edges, u \in Streams : view'[d].stream[u].count < nextId
    <3>1. view \in [Edges -> Cache] /\ view[e] \in Cache /\ stream[s] \in Record
      BY DEF IInv, TypeOK
    <3> DEFINE f == [view[e].stream EXCEPT ![s] = stream[s]]
    <3> DEFINE c == [view[e] EXCEPT !.stream = f]
    <3>2. f \in [Streams -> Record] /\ \A u \in Streams : f[u] = IF u = s THEN stream[s] ELSE view[e].stream[u]
      BY <3>1, CacheFacts DEF IInv
    <3>3. view' = [view EXCEPT ![e] = c]
      BY <2>2, <3>1
    <3> HIDE DEF f
    <3>4. c \in Cache /\ c.stream = f
      BY <3>1, <3>2 DEF Cache
    <3> HIDE DEF c
    <3>5. QED
      BY <3>1, <3>2, <3>3, <3>4 DEF IInv, CountsIds
  <2>3. QED
    BY <2>1, <2>2 DEF Propagate
<1>3. TypeOK'
  BY <1>1, <1>2 DEF IInv, TypeOK
<1>4. \A t \in Requests : Calm(t)
  BY <1>1 DEF Calm
<1>5. QED
  BY <1>1, <1>2, <1>3, <1>4, CalmStep

-----------------------------------------------------------------------------
(* The append.                                                             *)

LEMMA GetStreamStep ==
    ASSUME IInv, NEW r \in Requests, getStream(r)
    PROVE  IInv'
<1> DEFINE s == req[r].stream
<1> DEFINE rec == View(r).stream[s]
<1> DEFINE q == [req[r] EXCEPT !.pc = "blob", !.rec = rec, !.id = nextId]
<1>1. /\ UNCHANGED <<stream, entry, blobs, revoked, view, acked, told, crashes>>
      /\ req[r].pc = "stream" /\ nextId <= MaxAppends /\ nextId \in 1..MaxAppends + 1
      /\ req \in [Requests -> Local]
  BY DEF getStream, kvVars, At, IInv, TypeOK, CountsIds
<1>2. CASE req' = [req EXCEPT ![r] = Idle] /\ UNCHANGED <<raced, nextId>>
  <2>1. 0 < nextId
    BY <1>1
  <2>2. QED
    BY <1>1, <1>2, <2>1, IdleFacts, BeforeAppend DEF kvVars, logVars
<1>3. CASE /\ req' = [req EXCEPT ![r].pc = "blob", ![r].rec = rec, ![r].id = nextId]
           /\ nextId' = nextId + 1
           /\ raced' = IF Appending(s) # {} \/ rec # stream[s] THEN raced \cup {s} ELSE raced
  <2>1. nextId \in EventIds /\ nextId \in Hashes /\ nextId \in Nat /\ nextId' \in 1..MaxAppends + 1
    BY <1>1, <1>3, WorkerAssumption DEF EventIds, Hashes
  <2>2. EdgeOf[r] \in Edges /\ s \in Streams
    BY WorkerAssumption, LocalFacts DEF IInv
  <2>3. rec \in Record /\ rec.count < nextId /\ rec.count \in Nat
    <3>1. rec \in Record
      BY <2>2, CacheFacts DEF IInv, View
    <3>2. rec.count < nextId
      BY <2>2 DEF IInv, CountsIds, View
    <3>3. QED
      BY <3>1, <3>2, RecordFacts
  <2> HIDE DEF rec
  <2>4. q \in Local /\ q.pc = "blob" /\ q.rec = rec /\ q.id = nextId /\ q.stream = s
    BY <1>1, <2>1, <2>3 DEF Local
  <2>5. req' = [req EXCEPT ![r] = q]
    BY <1>1, <1>3
  <2> HIDE DEF q
  <2>6. req' \in [Requests -> Local] /\ req'[r] = q /\ \A t \in Requests \ {r} : req'[t] = req[t]
    BY <1>1, <2>4, <2>5
  <2>7. raced \subseteq raced' /\ raced' \subseteq Streams
    BY <1>3, <2>2 DEF IInv, TypeOK
  <2>8. TypeOK'
    BY <1>1, <2>6, <2>7 DEF IInv, TypeOK
  <2>9. CountsIds'
    <3>1. \A u \in Streams : stream[u].count \in Nat /\ stream[u].count < nextId
      <4>1. \A u \in Streams : stream[u] \in Record
        BY DEF IInv, TypeOK
      <4>2. QED
        BY <4>1, RecordFacts DEF IInv, CountsIds
    <3>2. \A e \in Edges, u \in Streams : view[e].stream[u].count \in Nat /\ view[e].stream[u].count < nextId
      <4>1. \A e \in Edges, u \in Streams : view[e].stream[u] \in Record
        BY CacheFacts DEF IInv
      <4>2. QED
        BY <4>1, RecordFacts DEF IInv, CountsIds
    <3>3. \A t \in Requests : req[t].rec.count \in Nat /\ (req[t].id \in EventIds => req[t].id \in Nat)
      BY LocalFacts, RecordFacts, WorkerAssumption DEF IInv, EventIds
    <3>4. ASSUME NEW t \in Requests, req'[t].pc # "idle"
          PROVE  /\ req'[t].rec.count < nextId'
                 /\ req'[t].pc # "head" /\ req'[t].pc # "stream" =>
                       req'[t].id \in EventIds /\ req'[t].rec.count < req'[t].id /\ req'[t].id < nextId'
      <4>1. CASE t = r
        BY <1>3, <2>1, <2>3, <2>4, <2>6, <4>1
      <4>2. CASE t # r
        <5>1. /\ req[t].rec.count < nextId
              /\ req[t].pc # "head" /\ req[t].pc # "stream" =>
                    req[t].id \in EventIds /\ req[t].rec.count < req[t].id /\ req[t].id < nextId
          BY <2>6, <3>4, <4>2 DEF IInv, CountsIds, At
        <5>2. QED
          BY <1>3, <2>1, <2>6, <3>3, <4>2, <5>1
      <4>3. QED
        BY <4>1, <4>2
    <3>5. QED
      BY <1>1, <1>3, <2>1, <3>1, <3>2, <3>4 DEF CountsIds, At
  <2>10. PayloadFirst'
    BY <1>1, <2>4, <2>6 DEF IInv, PayloadFirst
  <2>11. OneAppends'
    <3>1. SUFFICES ASSUME NEW t \in Requests, req'[t].pc \in {"blob", "entry", "record"}, req'[t].stream \notin raced'
                   PROVE  /\ \A u \in Requests :
                                req'[u].stream = req'[t].stream /\ req'[u].pc \in {"blob", "entry", "record"} => u = t
                          /\ req'[t].rec = stream[req'[t].stream]
      BY <1>1 DEF OneAppends, Appending
    <3>2. CASE req'[t].stream = s
      <4>1. Appending(s) = {} /\ rec = stream[s]
        BY <1>3, <3>1, <3>2
      <4>2. \A u \in Requests \ {r} : ~(req[u].stream = s /\ req[u].pc \in {"blob", "entry", "record"})
        BY <4>1 DEF Appending
      <4>3. t = r
        BY <2>6, <3>1, <3>2, <4>2
      <4>4. QED
        BY <2>4, <2>6, <3>2, <4>1, <4>2, <4>3
    <3>3. CASE req'[t].stream # s
      <4>1. t # r /\ req'[t] = req[t]
        BY <2>4, <2>6, <3>3
      <4>2. Appending(req[t].stream) = {t} /\ req[t].rec = stream[req[t].stream]
        BY <2>7, <3>1, <4>1 DEF IInv, OneAppends, Appending
      <4>3. ASSUME NEW u \in Requests, req'[u].stream = req[t].stream, req'[u].pc \in {"blob", "entry", "record"}
            PROVE  u = t
        <5>1. u # r
          BY <2>4, <2>6, <3>3, <4>1, <4>3
        <5>2. u \in Appending(req[t].stream)
          BY <2>6, <4>3, <5>1 DEF Appending
        <5>3. QED
          BY <4>2, <5>2
      <4>4. QED
        BY <4>1, <4>2, <4>3
    <3>4. QED
      BY <3>2, <3>3
  <2>12. EntryWritten'
    BY <1>1, <2>4, <2>6, <2>7 DEF IInv, EntryWritten, NextSeq, NewEntry, EventHash, At
  <2>13. Recorded'
    <3>1. \A u, n, id : StoredAt(u, n, id)' <=> StoredAt(u, n, id)
      BY <1>1 DEF StoredAt
    <3>2. QED
      BY <1>1, <2>4, <2>6, <2>7, <3>1 DEF IInv, Recorded, NextSeq
  <2>14. Chained'
    BY <1>1, <2>7 DEF IInv, Chained, Link
  <2>15. QED
    BY <2>8, <2>9, <2>10, <2>11, <2>12, <2>13, <2>14 DEF IInv
<1>4. QED
  BY <1>2, <1>3 DEF getStream

\* The number, the id and the record of a handler that has read the stream.
LEMMA Numbered ==
    ASSUME IInv, NEW r \in Requests, req[r].pc \in {"entry", "record"}
    PROVE  /\ req[r].stream \in Streams /\ req[r].id \in EventIds
           /\ NextSeq(r) \in EventIds /\ NextSeq(r) = req[r].rec.count + 1
           /\ NextSeq(r) < nextId /\ nextId \in Nat
           /\ req[r].rec \in Record /\ req[r].rec.count \in Nat /\ req[r].rec.head \in Hashes
           /\ req[r].stream \notin raced =>
                 /\ Appending(req[r].stream) = {r}
                 /\ req[r].rec = stream[req[r].stream]
<1>1. req[r].stream \in Streams /\ req[r].rec \in Record
  BY LocalFacts DEF IInv
<1>2. req[r].rec.count \in Nat /\ req[r].rec.head \in Hashes
  BY <1>1, RecordFacts
<1>3. req[r].id \in EventIds /\ req[r].rec.count < req[r].id /\ req[r].id < nextId /\ nextId \in Nat
  BY WorkerAssumption DEF IInv, CountsIds, At
<1>4. NextSeq(r) = req[r].rec.count + 1
  BY DEF NextSeq
<1>5. NextSeq(r) \in EventIds /\ NextSeq(r) < nextId
  <2>1. req[r].id \in 1..MaxAppends /\ MaxAppends \in Nat
    BY <1>3, WorkerAssumption DEF EventIds
  <2>2. QED
    BY <1>2, <1>3, <1>4, <2>1 DEF EventIds
<1>6. req[r].stream \notin raced =>
         /\ Appending(req[r].stream) = {r}
         /\ req[r].rec = stream[req[r].stream]
  BY DEF IInv, OneAppends, Appending
<1>7. QED
  BY <1>1, <1>2, <1>3, <1>4, <1>5, <1>6

LEMMA EntryStep ==
    ASSUME IInv, NEW r \in Requests, putEntry(r)
    PROVE  IInv'
<1> DEFINE s == req[r].stream
<1> DEFINE n == NextSeq(r)
<1> DEFINE x == NewEntry(r)
<1>1. /\ UNCHANGED <<stream, blobs, revoked, view, acked, told, raced, nextId>>
      /\ req[r].pc = "entry" /\ Goto(r, "record")
      /\ entry' = [entry EXCEPT ![s][n] = {x}]
      /\ entry \in [Streams -> [1..MaxAppends -> SUBSET Entry]]
  BY DEF putEntry, logVars, At, IInv, TypeOK
<1>2. /\ req' \in [Requests -> Local]
      /\ req'[r].pc = "record" /\ req'[r].stream = req[r].stream
      /\ req'[r].rec = req[r].rec /\ req'[r].id = req[r].id /\ req'[r].type = req[r].type
      /\ \A t \in Requests \ {r} : req'[t] = req[t]
  BY <1>1, Moves DEF IInv
<1>3. /\ s \in Streams /\ req[r].id \in EventIds /\ n \in EventIds /\ n = req[r].rec.count + 1
      /\ req[r].rec.count \in Nat /\ req[r].rec.head \in Hashes
      /\ s \notin raced => Appending(s) = {r} /\ req[r].rec = stream[s]
  BY <1>1, Numbered
<1>4. x \in Entry
  <2>1. req[r].id \in Hashes /\ 0 \in Hashes
    BY <1>3, WorkerAssumption DEF EventIds, Hashes
  <2>2. EventHash(r) \in Hashes
    BY <2>1 DEF EventHash
  <2>3. QED
    BY <1>3, <2>2 DEF NewEntry, Entry
<1>5. \A t \in Requests : NextSeq(t)' = NextSeq(t) /\ NewEntry(t)' = NewEntry(t)
  BY <1>2 DEF NextSeq, NewEntry, EventHash
<1> HIDE DEF x, n
<1>6. /\ entry' \in [Streams -> [1..MaxAppends -> SUBSET Entry]]
      /\ entry'[s][n] = {x}
      /\ \A u \in Streams, k \in EventIds : ~(u = s /\ k = n) => entry'[u][k] = entry[u][k]
      /\ \A u \in Streams : u # s => entry'[u] = entry[u]
      /\ \A k \in Nat : k # n => entry'[s][k] = entry[s][k]
  <2> DEFINE f == [entry[s] EXCEPT ![n] = {x}]
  <2>1. f \in [1..MaxAppends -> SUBSET Entry] /\ f[n] = {x} /\ \A k : k # n => f[k] = entry[s][k]
    <3>1. entry[s] \in [1..MaxAppends -> SUBSET Entry] /\ n \in 1..MaxAppends
      BY <1>1, <1>3 DEF EventIds
    <3>2. {x} \in SUBSET Entry
      BY <1>4
    <3>3. f \in [1..MaxAppends -> SUBSET Entry] /\ f[n] = {x}
      BY <3>1, <3>2
    <3>4. \A k : k \in 1..MaxAppends /\ k # n => f[k] = entry[s][k]
      BY <3>1
    <3>5. QED
      BY <3>1, <3>3, <3>4
  <2>2. entry' = [entry EXCEPT ![s] = f]
    BY <1>1
  <2> HIDE DEF f
  <2>3. QED
    BY <1>1, <1>3, <2>1, <2>2 DEF EventIds
<1>7. TypeOK'
  <2>1. ASSUME NEW u \in Streams, NEW k \in EventIds
        PROVE  Cardinality(entry'[u][k]) <= 1
    <3>1. CASE u = s /\ k = n
      <4>1. Cardinality({x}) = 1
        BY FS_Singleton
      <4>2. entry'[u][k] = {x}
        BY <1>6, <3>1
      <4>3. QED
        BY <4>1, <4>2
    <3>2. CASE ~(u = s /\ k = n)
      BY <1>6, <3>2 DEF IInv, TypeOK
    <3>3. QED
      BY <3>1, <3>2
  <2>2. QED
    BY <1>1, <1>2, <1>6, <2>1 DEF IInv, TypeOK
<1>8. CountsIds'
  BY <1>1, <1>2 DEF IInv, CountsIds, At
<1>9. PayloadFirst'
  BY <1>1, <1>2 DEF IInv, PayloadFirst
<1>10. \A u \in Streams : Appending(u)' = Appending(u)
  BY <1>1, <1>2 DEF Appending
<1>11. OneAppends'
  <2>1. \A t \in Requests : req'[t].stream = req[t].stream /\ req'[t].rec = req[t].rec /\ req[t].stream \in Streams
    BY <1>2, LocalFacts DEF IInv
  <2>2. SUFFICES ASSUME NEW t \in Requests, t \in Appending(req[t].stream)', req[t].stream \notin raced
                 PROVE  Appending(req[t].stream)' = {t} /\ req[t].rec = stream[req[t].stream]
    BY <1>1, <2>1 DEF OneAppends
  <2>3. Appending(req[t].stream)' = Appending(req[t].stream)
    BY <1>1, <1>2, <2>1 DEF Appending
  <2>4. QED
    BY <2>2, <2>3 DEF IInv, OneAppends
<1>12. EntryWritten'
  <2>1. SUFFICES ASSUME NEW t \in Requests, req'[t].pc = "record", req'[t].stream \notin raced
                 PROVE  entry'[req'[t].stream][NextSeq(t)] = {NewEntry(t)}
    BY <1>1, <1>5 DEF EntryWritten, At
  <2>2. CASE t = r
    BY <1>2, <1>6, <2>2 DEF x, n
  <2>3. CASE t # r
    <3>1. req'[t] = req[t] /\ req[t].stream \in Streams
      BY <1>2, <2>3, LocalFacts DEF IInv
    <3>2. req[t].stream # s
      BY <1>3, <2>1, <2>3, <3>1 DEF Appending
    <3>3. QED
      BY <1>6, <2>1, <3>1, <3>2 DEF IInv, EntryWritten, At
  <2>4. QED
    BY <2>2, <2>3
<1>13. ASSUME NEW u \in Streams, u \notin raced, NEW k \in Nat, k <= stream[u].count
       PROVE  entry'[u][k] = entry[u][k]
  <2>1. CASE u # s
    BY <1>6, <2>1
  <2>2. CASE u = s
    <3>1. n = stream[s].count + 1 /\ stream[s].count \in Nat
      BY <1>3, <1>13, <2>2 DEF n
    <3>2. k # n
      BY <1>13, <2>2, <3>1
    <3>3. QED
      BY <1>6, <2>2, <3>2
  <2>3. QED
    BY <2>1, <2>2
<1>14. \A u \in Streams, k \in Nat, id \in EventIds : u \notin raced /\ StoredAt(u, k, id) => StoredAt(u, k, id)'
  BY <1>1, <1>13 DEF StoredAt
<1>15. Recorded'
  <2>1. ASSUME NEW t \in Requests, req'[t].pc \in {"mark", "answer"}, req'[t].stream \notin raced
        PROVE  StoredAt(req[t].stream, NextSeq(t), req[t].id)' /\ req'[t] = req[t]
    <3>1. req'[t] = req[t]
      BY <1>2, <2>1
    <3>2. req[t].stream \in Streams /\ NextSeq(t) \in Nat
      <4>1. req[t].rec.count \in Nat
        BY LocalFacts, RecordFacts DEF IInv
      <4>2. QED
        BY <4>1, LocalFacts DEF IInv, NextSeq
    <3>3. StoredAt(req[t].stream, NextSeq(t), req[t].id)
      BY <2>1, <3>1 DEF IInv, Recorded
    <3>4. PICK u \in Streams, k \in Nat, id \in EventIds : u = req[t].stream /\ k = NextSeq(t) /\ id = req[t].id
      BY <2>1, <3>1, <3>2 DEF IInv, CountsIds, At
    <3>5. StoredAt(u, k, id)'
      BY <1>14, <2>1, <3>1, <3>3, <3>4
    <3>6. QED
      BY <1>5, <3>1, <3>4, <3>5 DEF StoredAt
  <2>2. ASSUME NEW a \in acked, a.stream \notin raced
        PROVE  StoredAt(a.stream, a.seq, a.id)'
    <3>1. a.stream \in Streams /\ a.seq \in Nat /\ a.id \in EventIds
      BY WorkerAssumption DEF IInv, TypeOK, EventIds
    <3>2. QED
      BY <1>14, <2>2, <3>1 DEF IInv, Recorded
  <2>3. QED
    BY <1>1, <2>1, <2>2 DEF Recorded
<1>16. Chained'
  <2>1. SUFFICES ASSUME NEW u \in Streams, u \notin raced
                 PROVE  /\ \A k \in 1..stream[u].count :
                              \E y \in entry'[u][k] :
                                  /\ entry'[u][k] = {y}
                                  /\ Link(y, k, entry'[u][k - 1])
                                  /\ k = stream[u].count => y.hash = stream[u].head
                        /\ stream[u].count = 0 => stream[u].head = 0
    BY <1>1 DEF Chained, Link
  <2>2. stream[u].count \in Nat
    BY RecordFacts DEF IInv, TypeOK
  <2>3. SUFFICES ASSUME NEW k \in 1..stream[u].count
                 PROVE  entry'[u][k] = entry[u][k] /\ entry'[u][k - 1] = entry[u][k - 1]
    BY <2>1 DEF IInv, Chained
  <2>4. k \in Nat /\ k <= stream[u].count /\ k - 1 \in Nat /\ k - 1 <= stream[u].count
    BY <2>2
  <2>5. QED
    BY <1>13, <2>1, <2>4
<1>17. QED
  BY <1>7, <1>8, <1>9, <1>11, <1>12, <1>15, <1>16 DEF IInv

LEMMA PutStreamStep ==
    ASSUME IInv, NEW r \in Requests, putStream(r)
    PROVE  IInv'
<1> DEFINE s == req[r].stream
<1> DEFINE new == NewRecord(r)
<1> DEFINE pc == IF req[r].target = {} THEN "answer" ELSE "mark"
<1>1. /\ UNCHANGED <<entry, blobs, revoked, acked, told, raced, nextId>>
      /\ req[r].pc = "record" /\ Goto(r, pc)
      /\ stream' = [stream EXCEPT ![s] = new]
      /\ view' = [view EXCEPT ![EdgeOf[r]].stream[s] = new]
      /\ stream \in [Streams -> Record] /\ view \in [Edges -> Cache]
  BY DEF putStream, logVars, At, IInv, TypeOK
<1>2. /\ req' \in [Requests -> Local]
      /\ req'[r].pc = pc /\ req'[r].stream = req[r].stream
      /\ req'[r].rec = req[r].rec /\ req'[r].id = req[r].id /\ req'[r].type = req[r].type
      /\ \A t \in Requests \ {r} : req'[t] = req[t]
  BY <1>1, Moves DEF IInv
<1>3. /\ s \in Streams /\ req[r].id \in EventIds
      /\ NextSeq(r) \in EventIds /\ NextSeq(r) = req[r].rec.count + 1
      /\ NextSeq(r) < nextId /\ nextId \in Nat
      /\ req[r].rec.count \in Nat
      /\ s \notin raced => Appending(s) = {r} /\ req[r].rec = stream[s]
  BY <1>1, Numbered
<1>4. /\ new \in Record /\ new.count = NextSeq(r)
      /\ new.head = EventHash(r) /\ EventHash(r) \in {0, req[r].id}
  <2>1. NextSeq(r) \in 0..MaxAppends /\ req[r].id \in Hashes /\ 0 \in Hashes
    BY <1>3, WorkerAssumption DEF EventIds, Hashes
  <2>2. QED
    BY <2>1 DEF NewRecord, EventHash, Record
<1>5. pc \in {"mark", "answer"}
  OBVIOUS
<1> HIDE DEF new, pc
<1>6. \A t \in Requests : NextSeq(t)' = NextSeq(t) /\ NewEntry(t)' = NewEntry(t)
  BY <1>2 DEF NextSeq, NewEntry, EventHash
<1>7. /\ stream' \in [Streams -> Record] /\ stream'[s] = new
      /\ \A u \in Streams \ {s} : stream'[u] = stream[u]
  BY <1>1, <1>3, <1>4
<1>8. /\ view' \in [Edges -> Cache]
      /\ \A e \in Edges, u \in Streams : view'[e].stream[u] \in {view[e].stream[u], new}
  <2>1. EdgeOf[r] \in Edges
    BY WorkerAssumption
  <2>2. PICK e \in Edges : e = EdgeOf[r]
    BY <2>1
  <2> DEFINE f == [view[e].stream EXCEPT ![s] = new]
  <2> DEFINE c == [view[e] EXCEPT !.stream = f]
  <2>3. f \in [Streams -> Record] /\ \A u \in Streams : f[u] \in {view[e].stream[u], new}
    <3>1. view[e].stream \in [Streams -> Record]
      BY CacheFacts DEF IInv
    <3>2. QED
      BY <1>3, <1>4, <3>1
  <2>4. view' = [view EXCEPT ![e] = c]
    BY <1>1, <2>2
  <2> HIDE DEF f
  <2>5. c \in Cache /\ c.stream = f
    BY <1>1, <2>3 DEF Cache
  <2> HIDE DEF c
  <2>6. QED
    BY <1>1, <2>3, <2>4, <2>5
<1>9. TypeOK'
  BY <1>1, <1>2, <1>7, <1>8 DEF IInv, TypeOK
<1>10. CountsIds'
  <2>1. new.count < nextId
    BY <1>3, <1>4
  <2>2. \A u \in Streams : stream'[u].count < nextId
    BY <1>7, <2>1 DEF IInv, CountsIds
  <2>3. \A e \in Edges, u \in Streams : view'[e].stream[u].count < nextId
    BY <1>8, <2>1 DEF IInv, CountsIds
  <2>4. ASSUME NEW t \in Requests, req'[t].pc # "idle"
        PROVE  /\ req'[t].rec.count < nextId
               /\ req'[t].pc # "head" /\ req'[t].pc # "stream" =>
                     req'[t].id \in EventIds /\ req'[t].rec.count < req'[t].id /\ req'[t].id < nextId
    BY <1>1, <1>2, <2>4 DEF IInv, CountsIds, At
  <2>5. QED
    BY <1>1, <2>2, <2>3, <2>4 DEF IInv, CountsIds, At
<1>11. PayloadFirst'
  BY <1>1, <1>2, <1>5 DEF IInv, PayloadFirst
<1>12. OneAppends'
  <2>1. SUFFICES ASSUME NEW t \in Requests, req'[t].pc \in {"blob", "entry", "record"}, req'[t].stream \notin raced
                 PROVE  /\ \A u \in Requests :
                              req'[u].stream = req'[t].stream /\ req'[u].pc \in {"blob", "entry", "record"} => u = t
                        /\ req'[t].rec = stream'[req'[t].stream]
    BY <1>1 DEF OneAppends, Appending
  <2>2. t # r /\ req'[t] = req[t]
    BY <1>2, <1>5, <2>1
  <2>3. Appending(req[t].stream) = {t} /\ req[t].rec = stream[req[t].stream] /\ req[t].stream \in Streams
    BY <2>1, <2>2, LocalFacts DEF IInv, OneAppends, Appending
  <2>4. req[t].stream # s
    BY <1>1, <2>2, <2>3 DEF Appending
  <2>5. ASSUME NEW u \in Requests, req'[u].stream = req[t].stream, req'[u].pc \in {"blob", "entry", "record"}
        PROVE  u = t
    <3>1. u # r
      BY <1>2, <1>5, <2>5
    <3>2. u \in Appending(req[t].stream)
      BY <1>2, <2>5, <3>1 DEF Appending
    <3>3. QED
      BY <2>3, <3>2
  <2>6. QED
    BY <1>7, <2>2, <2>3, <2>4, <2>5
<1>13. EntryWritten'
  <2>1. SUFFICES ASSUME NEW t \in Requests, req'[t].pc = "record", req'[t].stream \notin raced
                 PROVE  entry[req'[t].stream][NextSeq(t)] = {NewEntry(t)}
    BY <1>1, <1>6 DEF EntryWritten, At
  <2>2. t # r /\ req'[t] = req[t]
    BY <1>2, <1>5, <2>1
  <2>3. QED
    BY <2>1, <2>2 DEF IInv, EntryWritten, At
<1> DEFINE x == NewEntry(r)
<1>14. /\ x.id = req[r].id /\ x.hash = new.head
       /\ s \notin raced =>
             /\ new.count = stream[s].count + 1
             /\ entry[s][new.count] = {x} /\ x.base = stream[s].head
             /\ x.id \in blobs
  BY <1>1, <1>3, <1>4 DEF IInv, EntryWritten, NewEntry, PayloadFirst, At
<1> HIDE DEF x
<1>15. \A u \in Streams : stream[u].count \in Nat
  BY <1>1, RecordFacts
<1>16. \A u \in Streams, k \in Nat, id \in EventIds : u \notin raced /\ StoredAt(u, k, id) => StoredAt(u, k, id)'
  <2>1. SUFFICES ASSUME NEW u \in Streams, NEW k \in Nat, u \notin raced, k <= stream[u].count
                 PROVE  k <= stream'[u].count
    BY <1>1 DEF StoredAt
  <2>2. CASE u = s
    <3>1. stream'[u].count = stream[u].count + 1
      BY <1>7, <1>14, <2>1, <2>2
    <3>2. QED
      BY <1>15, <2>1, <3>1
  <2>3. CASE u # s
    BY <1>7, <2>1, <2>3
  <2>4. QED
    BY <2>2, <2>3
<1>17. Recorded'
  <2>1. ASSUME NEW t \in Requests, req'[t].pc \in {"mark", "answer"}, req'[t].stream \notin raced
        PROVE  StoredAt(req[t].stream, NextSeq(t), req[t].id)'
    <3>1. CASE t = r
      <4>1. NextSeq(r) <= stream'[s].count /\ entry'[s][NextSeq(r)] = {x}
        BY <1>1, <1>2, <1>3, <1>4, <1>7, <1>14, <2>1, <3>1
      <4>2. \E y \in entry'[s][NextSeq(r)] : y.id = req[r].id
        BY <1>14, <4>1
      <4>3. QED
        BY <1>2, <1>6, <3>1, <4>1, <4>2 DEF StoredAt
    <3>2. CASE t # r
      <4>1. req'[t] = req[t]
        BY <1>2, <3>2
      <4>2. req[t].stream \in Streams /\ NextSeq(t) \in Nat /\ req[t].id \in EventIds
        <5>1. req[t].rec.count \in Nat
          BY LocalFacts, RecordFacts DEF IInv
        <5>2. QED
          BY <2>1, <4>1, <5>1, LocalFacts DEF IInv, NextSeq, CountsIds, At
      <4>3. StoredAt(req[t].stream, NextSeq(t), req[t].id)
        BY <2>1, <4>1 DEF IInv, Recorded
      <4>4. PICK u \in Streams, k \in Nat, id \in EventIds : u = req[t].stream /\ k = NextSeq(t) /\ id = req[t].id
        BY <4>2
      <4>5. StoredAt(u, k, id)'
        BY <1>16, <2>1, <4>1, <4>3, <4>4
      <4>6. QED
        BY <1>6, <4>1, <4>4, <4>5 DEF StoredAt
    <3>3. QED
      BY <3>1, <3>2
  <2>2. ASSUME NEW a \in acked, a.stream \notin raced
        PROVE  StoredAt(a.stream, a.seq, a.id)'
    <3>1. a.stream \in Streams /\ a.seq \in Nat /\ a.id \in EventIds
      BY WorkerAssumption DEF IInv, TypeOK, EventIds
    <3>2. QED
      BY <1>16, <2>2, <3>1 DEF IInv, Recorded
  <2>3. QED
    BY <1>1, <2>1, <2>2 DEF Recorded
<1>18. Chained'
  <2>1. SUFFICES ASSUME NEW u \in Streams, u \notin raced
                 PROVE  /\ \A k \in 1..stream'[u].count :
                              \E y \in entry[u][k] :
                                  /\ entry[u][k] = {y}
                                  /\ Link(y, k, entry[u][k - 1])
                                  /\ k = stream'[u].count => y.hash = stream'[u].head
                        /\ stream'[u].count = 0 => stream'[u].head = 0
    BY <1>1 DEF Chained, Link
  <2>2. /\ \A k \in 1..stream[u].count :
              \E y \in entry[u][k] :
                  /\ entry[u][k] = {y}
                  /\ Link(y, k, entry[u][k - 1])
                  /\ k = stream[u].count => y.hash = stream[u].head
        /\ stream[u].count = 0 => stream[u].head = 0
    BY <2>1 DEF IInv, Chained
  <2>3. CASE u # s
    BY <1>7, <2>2, <2>3
  <2>4. CASE u = s
    <3> DEFINE n == stream[s].count
    <3>1. n \in Nat /\ stream'[u].count = n + 1 /\ stream'[u].head = new.head /\ n + 1 # 0
      BY <1>7, <1>14, <1>15, <2>1, <2>4
    <3>2. ASSUME NEW k \in 1..n
          PROVE  \E y \in entry[u][k] : entry[u][k] = {y} /\ Link(y, k, entry[u][k - 1])
      BY <2>2, <2>4, <3>2
    <3>3. entry[u][n + 1] = {x} /\ x.hash = new.head /\ Link(x, n + 1, entry[u][n])
      <4>1. entry[u][n + 1] = {x} /\ x.id \in blobs /\ x.hash \in {0, x.id} /\ x.hash = new.head
        BY <1>4, <1>14, <2>1, <2>4, <3>1
      <4>2. n = 0 => x.base = 0
        BY <1>14, <2>1, <2>2, <2>4
      <4>3. n # 0 => x.base \in {z.hash : z \in entry[u][n]}
        <5>1. SUFFICES ASSUME n # 0
                       PROVE  \E z \in entry[u][n] : z.hash = stream[s].head
          BY <1>14, <2>1, <2>4
        <5>2. n \in 1..n
          BY <3>1, <5>1
        <5>3. QED
          BY <2>2, <2>4, <5>2
      <4>4. n + 1 = 1 <=> n = 0
        BY <3>1
      <4>5. QED
        BY <4>1, <4>2, <4>3, <4>4 DEF Link
    <3>4. ASSUME NEW k \in 1..(n + 1)
          PROVE  \E y \in entry[u][k] :
                    /\ entry[u][k] = {y}
                    /\ Link(y, k, entry[u][k - 1])
                    /\ k = n + 1 => y.hash = new.head
      <4>1. CASE k = n + 1
        <5>1. k - 1 = n
          BY <3>1, <4>1
        <5> HIDE DEF n
        <5>2. QED
          BY <3>3, <4>1, <5>1
      <4>2. CASE k # n + 1
        <5>1. k \in 1..n
          BY <3>1, <4>2
        <5> HIDE DEF n
        <5>2. QED
          BY <3>2, <4>2, <5>1
      <4>3. QED
        BY <4>1, <4>2
    <3> HIDE DEF n
    <3>5. QED
      BY <3>1, <3>4
  <2>5. QED
    BY <2>3, <2>4
<1>19. QED
  BY <1>9, <1>10, <1>11, <1>12, <1>13, <1>17, <1>18 DEF IInv

-----------------------------------------------------------------------------
(* The theorems.                                                           *)

LEMMA InitIInv == Init => IInv
<1>1. SUFFICES ASSUME Init PROVE IInv
  OBVIOUS
<1> DEFINE none == [count |-> 0, head |-> 0]
<1>2. /\ none \in Record /\ none.count = 0 /\ none.head = 0
      /\ stream = [s \in Streams |-> none] /\ entry = [s \in Streams |-> [n \in EventIds |-> {}]]
      /\ view = [e \in Edges |-> [stream |-> stream, revoked |-> {}]]
      /\ req = [r \in Requests |-> Idle]
      /\ blobs = {} /\ revoked = {} /\ acked = {} /\ told = {} /\ raced = {} /\ nextId = 1
  <2>1. 0 \in 0..MaxAppends
    BY WorkerAssumption
  <2>2. QED
    BY <1>1, <2>1 DEF Init, Record, Hashes
<1> HIDE DEF none
<1>3. /\ \A s \in Streams : stream[s] = none /\ stream \in [Streams -> Record]
      /\ \A e \in Edges : view[e].stream = stream /\ view[e] \in Cache
      /\ \A r \in Requests : req[r] = Idle
  BY <1>2 DEF Cache
<1>4. TypeOK
  <2>1. \A s \in Streams : \A n \in EventIds : Cardinality(entry[s][n]) <= 1
    <3>1. Cardinality({}) <= 1
      BY FS_EmptySet
    <3>2. QED
      BY <1>2, <3>1
  <2>2. entry \in [Streams -> [1..MaxAppends -> SUBSET Entry]]
    BY <1>2 DEF EventIds
  <2>3. view \in [Edges -> Cache] /\ req \in [Requests -> Local] /\ stream \in [Streams -> Record]
    BY <1>2, <1>3, IdleFacts
  <2>4. QED
    BY <1>2, <2>1, <2>2, <2>3 DEF TypeOK
<1>5. CountsIds
  <2>1. 1 \in 1..MaxAppends + 1 /\ 0 < 1
    BY WorkerAssumption
  <2>2. QED
    BY <1>2, <1>3, <2>1, IdleFacts DEF CountsIds, At
<1>6. PayloadFirst /\ OneAppends /\ EntryWritten /\ Recorded
  BY <1>2, <1>3, IdleFacts DEF PayloadFirst, OneAppends, EntryWritten, Recorded, Appending, At
<1>7. Chained
  <2>1. 1..0 = {}
    OBVIOUS
  <2>2. QED
    BY <1>2, <1>3, <2>1 DEF Chained
<1>8. QED
  BY <1>4, <1>5, <1>6, <1>7 DEF IInv

LEMMA NextIInv == IInv /\ [Next]_vars => IInv'
<1>1. SUFFICES ASSUME IInv, [Next]_vars PROVE IInv'
  OBVIOUS
<1>2. CASE UNCHANGED vars
  <2>1. UNCHANGED <<stream, entry, blobs, revoked, view, req, acked, told, raced, nextId>>
    BY <1>2 DEF vars, kvVars, logVars
  <2>2. TypeOK'
    BY <1>1, <2>1 DEF IInv, TypeOK
  <2>3. \A t \in Requests : Calm(t)
    BY <2>1 DEF Calm
  <2>4. \A e \in Edges, s \in Streams : view'[e].stream[s].count < nextId
    BY <1>1, <2>1 DEF IInv, CountsIds
  <2>5. QED
    BY <1>1, <2>1, <2>2, <2>3, <2>4, CalmStep
<1>3. CASE \E r \in Requests, g \in Grants :
              handleVaultAppend(r, g) \/ handleHistoryAppend(r, g) \/ handleGrantRevoke(r, g)
  BY <1>1, <1>3, ArrivalStep
<1>4. CASE \E r \in Requests : Handler(r)
  BY <1>1, <1>4, HeadStep, GetStreamStep, BlobStep, EntryStep, PutStreamStep, MarkStep, AnswerStep DEF Handler
<1>5. CASE \E r \in Requests : Crash(r)
  BY <1>1, <1>5, CrashStep
<1>6. CASE \E e \in Edges : Propagate(e)
  BY <1>1, <1>6, PropagateStep
<1>7. QED
  BY <1>1, <1>2, <1>3, <1>4, <1>5, <1>6 DEF Next

\* The inductive invariant holds of every state of appendEvent, wherever an
\* isolate is suspended or discarded.
THEOREM Invariance == Spec => []IInv
<1>1. Init => IInv
  BY InitIInv
<1>2. IInv /\ [Next]_vars => IInv'
  BY NextIInv
<1>3. QED
  BY <1>1, <1>2, PTL DEF Spec

\* Every record of the store, the caches and the handlers has its type; a
\* sequence number is never larger than the number of ids handed out.
THEOREM TypeCorrect == Spec => []TypeOK
<1>1. IInv => TypeOK
  BY DEF IInv
<1>2. QED
  BY <1>1, Invariance, PTL

\* What appendEvent acknowledged is read back at the number it gave, in every
\* stream no two appends raced in: a discarded isolate loses nothing.
THEOREM AckedReadable == Spec => []AckedReadableUnlessRaced
<1>1. IInv => AckedReadableUnlessRaced
  <2>1. SUFFICES ASSUME IInv, NEW a \in acked, a.stream \notin raced
                 PROVE  /\ a.seq \in readStream(a.stream)
                        /\ a.id \in {x.id : x \in entry[a.stream][a.seq]}
    BY DEF AckedReadableUnlessRaced
  <2>2. StoredAt(a.stream, a.seq, a.id)
    BY <2>1 DEF IInv, Recorded
  <2>3. a.seq \in EventIds /\ a.stream \in Streams
    BY <2>1 DEF IInv, TypeOK
  <2>4. a.seq \in 1..stream[a.stream].count
    <3>1. stream[a.stream].count \in Nat /\ a.seq \in 1..MaxAppends /\ MaxAppends \in Nat
      BY <2>1, <2>3, RecordFacts, WorkerAssumption DEF IInv, TypeOK, EventIds
    <3>2. QED
      BY <2>2, <3>1 DEF StoredAt
  <2>5. QED
    BY <2>2, <2>4 DEF StoredAt, readStream
<1>2. QED
  BY <1>1, Invariance, PTL

\* verifyHistory accepts a history stream no two appends raced in exactly if no
\* vault event got into it, and its record has the hash of its last event.
THEOREM HistoryVerifies == Spec => []VerifiesUnlessRaced
<1>1. IInv => VerifiesUnlessRaced
  <2>1. SUFFICES ASSUME IInv, NEW s \in HistoryStreams \ raced
                 PROVE  /\ verifyHistory(s) <=>
                              \A n \in 1..stream[s].count : \A x \in entry[s][n] : x.hash # 0
                        /\ stream[s].count > 0 =>
                              \E x \in entry[s][stream[s].count] : x.hash = stream[s].head
    BY DEF VerifiesUnlessRaced
  <2>2. s \in Streams \ raced
    BY <2>1, StreamKinds
  <2>3. \A n \in 1..stream[s].count :
           \E x \in entry[s][n] :
               /\ entry[s][n] = {x}
               /\ Link(x, n, entry[s][n - 1])
               /\ n = stream[s].count => x.hash = stream[s].head
    BY <2>1, <2>2 DEF IInv, Chained
  <2>4. \A n \in 1..stream[s].count : \A x \in entry[s][n] : x.id # 0
    <3>1. stream[s].count \in 0..MaxAppends /\ entry[s] \in [1..MaxAppends -> SUBSET Entry]
      BY <2>1, <2>2, RecordFacts DEF IInv, TypeOK
    <3>2. 1..stream[s].count \subseteq 1..MaxAppends
      BY <3>1, WorkerAssumption
    <3>3. \A x \in Entry : x.id # 0
      BY DEF Entry, EventIds
    <3>4. QED
      BY <3>1, <3>2, <3>3
  <2>5. verifyHistory(s) <=> \A n \in 1..stream[s].count : \A x \in entry[s][n] : x.hash # 0
    <3>1. ASSUME verifyHistory(s), NEW n \in 1..stream[s].count, NEW x \in entry[s][n]
          PROVE  x.hash # 0
      BY <2>3, <2>4, <3>1 DEF verifyHistory
    <3>2. ASSUME \A n \in 1..stream[s].count : \A x \in entry[s][n] : x.hash # 0
          PROVE  verifyHistory(s)
      BY <2>3, <3>2 DEF verifyHistory, Link
    <3>3. QED
      BY <3>1, <3>2
  <2>6. stream[s].count \in Nat
    BY <2>1, <2>2, RecordFacts DEF IInv, TypeOK
  <2>7. stream[s].count > 0 => stream[s].count \in 1..stream[s].count
    BY <2>6
  <2>8. QED
    BY <2>3, <2>5, <2>7
<1>2. QED
  BY <1>1, Invariance, PTL
================================================================================
