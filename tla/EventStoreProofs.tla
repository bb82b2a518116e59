-------------------------- MODULE EventStoreProofs --------------------------
(***************************************************************************)
(* Theorems about EventStore, for every set of streams, handlers, ids and  *)
(* peer events: the inductive invariant IInv and what follows from it.     *)
(* Only CommitTx touches the tables; the other steps keep the facts about  *)
(* them and have to keep the facts about the handlers.                     *)
(***************************************************************************)
EXTENDS EventStore, TLAPS

-----------------------------------------------------------------------------
(* Data.                                                                   *)

\* What nullableString writes fits the column, and what the reader's COALESCE
\* gives back is a list again.
LEMMA DepsTypes ==
    /\ \A text \in DepsText : nullableString(text) \in DepsColumn
    /\ \A column \in DepsColumn : CoalesceDeps(column) \in WireDeps
    /\ \A text \in DepsText : nullableString(text) # "null" => nullableString(text) = text
    /\ "" \in DepsText
    /\ WireDeps \subseteq DepsText
  BY DEF nullableString, CoalesceDeps, DepsText, DepsColumn, WireDeps

\* A hash extended by ComputeHistoryEventHash is a hash.
LEMMA HashType ==
    ASSUME NEW prev \in Hash, NEW id \in Ids, NEW deps \in DepsText
    PROVE  ComputeHistoryEventHash(prev, id, deps) \in Hash
  BY DEF ComputeHistoryEventHash, Hash

\* The hash before the first event, NULL in the column, is a hash.
LEMMA EmptyHash == <<>> \in Hash
  BY DEF Hash

\* Appending keeps the entries and adds one at the end.
LEMMA AppendFacts ==
    ASSUME NEW S, NEW q \in Seq(S), NEW e \in S
    PROVE  /\ Append(q, e) # <<>>
           /\ DOMAIN Append(q, e) = 1 .. (Len(q) + 1)
           /\ Len(Append(q, e)) = Len(q) + 1
           /\ \A i \in 1 .. Len(q) : Append(q, e)[i] = q[i]
           /\ Append(q, e)[Len(q) + 1] = e
  OBVIOUS

\* A stream without entries is the empty sequence.
LEMMA EmptyIffNoEntry ==
    ASSUME NEW S, NEW q \in Seq(S)
    PROVE  q = <<>> <=> Len(q) = 0
  OBVIOUS

\* The maximum of 0 .. n.
LEMMA MaxOfInterval ==
    ASSUME NEW n \in Nat
    PROVE  Max(0 .. n) = n
<1>1. n \in 0 .. n /\ \A y \in 0 .. n : n >= y
  OBVIOUS
<1>2. \A x \in 0 .. n : (\A y \in 0 .. n : x >= y) => x = n
  OBVIOUS
<1>3. QED
  BY <1>1, <1>2 DEF Max

\* MAX(sequence_number) + 1 of a stream numbered 1 .. n is n + 1 (the query of
\* AppendEvent, AppendHistoryEvent and IngestEvent).
LEMMA NextSeqIsLength ==
    ASSUME TypeOK, GapFreeSequence, NEW s \in Streams
    PROVE  NextSeq(s) = Len(events[s]) + 1
<1> DEFINE n == Len(events[s])
<1>1. events[s] \in Seq(Row) /\ n \in Nat /\ DOMAIN events[s] = 1 .. n
  BY DEF TypeOK
<1>2. \A i \in 1 .. n : events[s][i].seq = i
  BY <1>1 DEF GapFreeSequence
<1>3. {0} \cup {events[s][i].seq : i \in DOMAIN events[s]} = 0 .. n
  BY <1>1, <1>2
<1>4. QED
  BY <1>1, <1>3, MaxOfInterval DEF NextSeq

\* What NextSeq returns is a number even before streams are known gap-free.
LEMMA NextSeqType ==
    ASSUME TypeOK, GapFreeSequence, NEW s \in Streams
    PROVE  NextSeq(s) \in Nat
  BY NextSeqIsLength DEF TypeOK

-----------------------------------------------------------------------------
(* Types.                                                                  *)

\* The local variables of a handler that is not running are well typed.
LEMMA IdleType == Idle \in Local
<1>1. Revocations \in Streams
  BY StreamAssumption DEF Streams
<1>2. QED
  BY <1>1, DepsTypes, EmptyHash DEF Idle, Local, Labels, StreamTypes

\* Moving a handler to a label, or back to idle, keeps the type of req.
LEMMA GotoType ==
    ASSUME TypeOK, NEW r \in Requests, NEW label \in Labels, Goto(r, label)
    PROVE  req' \in [Requests -> Local]
<1>1. req \in [Requests -> Local]
  BY DEF TypeOK
<1>2. [req[r] EXCEPT !.pc = label] \in Local
  BY <1>1 DEF Local, Labels
<1>3. QED
  BY <1>1, <1>2 DEF Goto

\* Setting one of several local variables keeps the type of req.
LEMMA SetType ==
    ASSUME TypeOK, NEW r \in Requests, NEW q \in Local, req' = [req EXCEPT ![r] = q]
    PROVE  req' \in [Requests -> Local]
  BY DEF TypeOK

\* A handler that starts with well-typed inputs keeps the types.
LEMMA StartType ==
    ASSUME TypeOK, NEW r \in Requests,
           NEW op \in {"vault", "history", "revoke", "push"},
           NEW s \in Streams, NEW type \in StreamTypes, NEW id \in Ids,
           NEW deps \in DepsText, NEW prev \in Hash,
           Start(r, op, s, type, id, deps, prev), minted' \subseteq LocalIds
    PROVE  TypeOK'
<1>1. [pc |-> "open", op |-> op, stream |-> s, type |-> type, id |-> id,
       deps |-> deps, prev |-> prev, snap |-> 0, seq |-> 0] \in Local
  BY DEF Local, Labels
<1>2. req' \in [Requests -> Local]
  BY <1>1 DEF Start, TypeOK
<1>3. QED
  BY <1>2 DEF Start, TypeOK

\* Every hash a client can know of a stream is a hash.
LEMMA KnownHeadsType ==
    ASSUME TypeOK, NEW s \in Streams
    PROVE  KnownHeads(s) \subseteq Hash
<1>1. events[s] \in Seq(Row)
  BY DEF TypeOK
<1>2. \A i \in DOMAIN events[s] : events[s][i] \in Row
  BY <1>1
<1>3. QED
  BY <1>2, EmptyHash DEF KnownHeads, Row

\* A pushed event is well typed, the peer's own as well as an echoed one, and
\* an id of this hub comes back only after it is stored here.
LEMMA PushableType ==
    ASSUME TypeOK, NEW e \in Pushable
    PROVE  /\ e.id \in Ids /\ e.stream \in Streams /\ e.type \in StreamTypes
           /\ e.prev \in Hash /\ e.deps \in DepsText
           /\ e.id \in LocalIds => e.id \in StoredIds
<1>1. CASE e \in PeerEvents
  BY <1>1, PeerAssumption, IdAssumption, DepsTypes
<1>2. CASE e \notin PeerEvents
  <2>1. PICK s \in Streams : \E i \in DOMAIN events[s] :
            e = [id |-> events[s][i].id, stream |-> s, type |-> events[s][i].type,
                 prev |-> events[s][i].prev, deps |-> CoalesceDeps(events[s][i].deps)]
    BY <1>2 DEF Pushable
  <2>2. PICK i \in DOMAIN events[s] :
            e = [id |-> events[s][i].id, stream |-> s, type |-> events[s][i].type,
                 prev |-> events[s][i].prev, deps |-> CoalesceDeps(events[s][i].deps)]
    BY <2>1
  <2>3. events[s][i] \in Row
    BY <2>2 DEF TypeOK
  <2>4. e.id \in StoredIds
    BY <2>2 DEF StoredIds
  <2>5. QED
    BY <2>2, <2>3, <2>4, DepsTypes DEF Row
<1>3. QED
  BY <1>1, <1>2

\* The row a transaction inserts is a row.
LEMMA NewRowType ==
    ASSUME TypeOK, NEW r \in Requests, req[r].id \in Ids
    PROVE  NewRow(req[r]) \in Row /\ StoredHash(req[r]) \in Hash
<1>1. /\ req[r].prev \in Hash /\ req[r].deps \in DepsText /\ req[r].seq \in Nat
      /\ req[r].type \in StreamTypes
  BY DEF TypeOK, Local
<1>2. StoredHash(req[r]) \in Hash
  BY <1>1, HashType, EmptyHash DEF StoredHash
<1>3. QED
  BY <1>1, <1>2, DepsTypes DEF NewRow, Row

\* Type correctness is kept by every step that starts with gap-free streams.
LEMMA TypeStep ==
    ASSUME TypeOK, GapFreeSequence, KindsMatch, [Next]_vars
    PROVE  TypeOK'
<1>1. CASE UNCHANGED vars
  BY <1>1 DEF vars, TypeOK, Row
<1>2. CASE Crash
  BY <1>2, IdleType DEF Crash, TypeOK
<1>3. CASE \E r \in Requests : Handler(r)
  <2> PICK r \in Requests : Handler(r)
    BY <1>3
  <2>1. CASE handleVaultAppend(r)
    BY <2>1, StartType, DepsTypes, EmptyHash
       DEF handleVaultAppend, MintId, StreamTypes, Ids, TypeOK
  <2>2. CASE handleHistoryAppend(r)
    <3>1. PICK s \in HistoryStreams, id \in LocalIds, deps \in WireDeps :
               \E prev \in KnownHeads(s) :
                 MintId(id) /\ Start(r, "history", s, "history", id, deps, prev)
      BY <2>2 DEF handleHistoryAppend
    <3> PICK prev \in KnownHeads(s) : MintId(id) /\ Start(r, "history", s, "history", id, deps, prev)
      BY <3>1
    <3>2. s \in Streams /\ id \in Ids /\ prev \in Hash /\ deps \in DepsText
      BY <3>1, KnownHeadsType, DepsTypes DEF Streams, Ids
    <3>3. QED
      BY <3>2, StartType DEF MintId, TypeOK, StreamTypes
  <2>3. CASE handleGrantRevoke(r)
    BY <2>3, StartType, DepsTypes, EmptyHash, StreamAssumption
       DEF handleGrantRevoke, MintId, Streams, StreamTypes, Ids, TypeOK
  <2>4. CASE handleSyncPush(r)
    BY <2>4, StartType, PushableType DEF handleSyncPush, TypeOK
  <2>5. CASE OpenBlob(r)
    <3>1. req' \in [Requests -> Local]
      BY <2>5, GotoType DEF OpenBlob, Labels
    <3>2. QED
      BY <2>5, <3>1 DEF OpenBlob, TypeOK
  <2>6. CASE WriteBlob(r)
    <3>1. req' \in [Requests -> Local]
      BY <2>6, GotoType DEF WriteBlob, Labels
    <3>2. QED
      BY <2>6, <3>1 DEF WriteBlob, TypeOK
  <2>7. CASE ReadRevocationHead(r)
    <3>1. streams[Revocations].head \in Hash
      BY StreamAssumption DEF TypeOK, Streams
    <3>2. PICK prev \in Hash :
              req' = [req EXCEPT ![r] = [req[r] EXCEPT !.pc = "begin", !.prev = prev]]
      BY <2>7, <3>1, EmptyHash DEF ReadRevocationHead
    <3>3. req[r] \in Local
      BY DEF TypeOK
    <3>4. [req[r] EXCEPT !.pc = "begin", !.prev = prev] \in Local
      BY <3>3 DEF Local, Labels
    <3>5. req' \in [Requests -> Local]
      BY <3>2, <3>4, SetType
    <3>6. QED
      BY <2>7, <3>5 DEF ReadRevocationHead, TypeOK
  <2>8. CASE BeginTx(r)
    <3>1. NextSeq(req[r].stream) \in Nat
      BY NextSeqType DEF TypeOK, Local
    <3>2. req[r] \in Local /\ commits \in Nat
      BY DEF TypeOK
    <3>3. [req[r] EXCEPT !.pc = "commit", !.snap = commits, !.seq = NextSeq(req[r].stream)]
            \in Local
      BY <3>1, <3>2 DEF Local, Labels
    <3>4. req' \in [Requests -> Local]
      BY <2>8, <3>3, SetType DEF BeginTx, TakeSnapshot
    <3>5. QED
      BY <2>8, <3>4 DEF BeginTx, TypeOK
  <2>9. CASE HistoryConflict(r)
    BY <2>9, IdleType DEF HistoryConflict, TypeOK
  <2>10. CASE AlreadyPresent(r)
    BY <2>10, IdleType DEF AlreadyPresent, TypeOK
  <2>11. CASE CommitTx(r)
    <3>1. req[r].id \in Ids /\ req[r].stream \in Streams
      BY <2>11 DEF CommitTx, KindsMatch, TypeOK, Local
    <3>2. NewRow(req[r]) \in Row /\ StoredHash(req[r]) \in Hash
      BY <3>1, NewRowType
    <3>3. events' \in [Streams -> Seq(Row)]
      BY <2>11, <3>1, <3>2 DEF CommitTx, TypeOK
    <3>4. streams' \in [Streams -> [headId : Ids \cup {NoId}, head : Hash, count : Nat]]
      BY <2>11, <3>1, <3>2 DEF CommitTx, TypeOK
    <3>5. req' \in [Requests -> Local]
      BY <2>11, GotoType DEF CommitTx, Labels
    <3>6. QED
      BY <2>11, <3>3, <3>4, <3>5 DEF CommitTx, TypeOK
  <2>12. CASE Fail(r)
    BY <2>12, IdleType DEF Fail, TypeOK
  <2>13. CASE MarkGrantRevoked(r)
    <3>1. req[r].id \in Ids
      BY <2>13 DEF MarkGrantRevoked, KindsMatch
    <3>2. req' \in [Requests -> Local]
      BY <2>13, GotoType DEF MarkGrantRevoked, Labels
    <3>3. QED
      BY <2>13, <3>1, <3>2 DEF MarkGrantRevoked, TypeOK
  <2>14. CASE Reply(r)
    <3>1. req[r].id \in Ids /\ req[r].stream \in Streams /\ req[r].seq \in Nat
      BY <2>14 DEF Reply, KindsMatch, TypeOK, Local
    <3>2. acks' \subseteq [id : Ids, stream : Streams, seq : Nat]
      BY <2>14, <3>1 DEF Reply, TypeOK
    <3>3. QED
      BY <2>14, <3>2, IdleType DEF Reply, TypeOK
  <2>15. QED
    BY <2>1, <2>2, <2>3, <2>4, <2>5, <2>6, <2>7, <2>8, <2>9, <2>10, <2>11, <2>12,
       <2>13, <2>14 DEF Handler
<1>4. QED
  BY <1>1, <1>2, <1>3 DEF Next

-----------------------------------------------------------------------------
(* Steps.                                                                  *)

\* A step of one handler leaves the others alone, and only CommitTx changes
\* the tables.
LEMMA HandlerFrame ==
    ASSUME TypeOK, NEW r \in Requests, Handler(r)
    PROVE  /\ \A t \in Requests \ {r} : req'[t] = req[t]
           /\ CommitTx(r) \/ UNCHANGED <<events, streams, commits>>
<1>1. CASE \/ handleVaultAppend(r) \/ handleHistoryAppend(r) \/ handleGrantRevoke(r)
           \/ handleSyncPush(r)
  BY <1>1 DEF handleVaultAppend, handleHistoryAppend, handleGrantRevoke, handleSyncPush,
              Start, TypeOK
<1>2. CASE OpenBlob(r) \/ WriteBlob(r) \/ ReadRevocationHead(r) \/ BeginTx(r)
  BY <1>2 DEF OpenBlob, WriteBlob, ReadRevocationHead, BeginTx, TakeSnapshot, Goto, TypeOK
<1>3. CASE \/ HistoryConflict(r) \/ AlreadyPresent(r) \/ CommitTx(r) \/ Fail(r)
           \/ MarkGrantRevoked(r) \/ Reply(r)
  BY <1>3 DEF HistoryConflict, AlreadyPresent, CommitTx, Fail, MarkGrantRevoked, Reply,
              Goto, TypeOK
<1>4. QED
  BY <1>1, <1>2, <1>3 DEF Handler

\* What a commit does to the tables, in the terms of the invariant.
LEMMA CommitFacts ==
    ASSUME IInv, NEW r \in Requests, CommitTx(r)
    PROVE  LET s == req[r].stream
               n == Len(events[s])
           IN
           /\ s \in Streams /\ n \in Nat
           /\ req[r].id \in Ids /\ req[r].id \notin StoredIds
           /\ req[r].seq = n + 1
           /\ ChecksHead(r) => req[r].prev = streams[s].head
           /\ \A t \in Streams \ {s} : events'[t] = events[t] /\ streams'[t] = streams[t]
           /\ DOMAIN events[s] = 1 .. n
           /\ DOMAIN events'[s] = 1 .. (n + 1) /\ Len(events'[s]) = n + 1
           /\ \A i \in 1 .. n : events'[s][i] = events[s][i]
           /\ events'[s][n + 1] = NewRow(req[r])
           /\ streams'[s] = [headId |-> req[r].id, head |-> StoredHash(req[r]),
                             count |-> streams[s].count + 1]
           /\ events'[s] # <<>>
<1> DEFINE s == req[r].stream
           n == Len(events[s])
<1>1. req[r].pc = "commit" /\ req[r].snap = commits
  BY DEF CommitTx
<1>2. s \in Streams
  BY DEF IInv, TypeOK, Local
<1>3. events[s] \in Seq(Row) /\ n \in Nat /\ DOMAIN events[s] = 1 .. n
  BY <1>2 DEF IInv, TypeOK
<1>4. req[r].id \in Ids
  BY <1>1 DEF IInv, KindsMatch
<1>5. req[r].id \notin StoredIds
  <2>1. CASE req[r].op = "push"
    BY <1>1, <2>1 DEF IInv, SnapshotsHold
  <2>2. CASE req[r].op # "push"
    BY <1>1, <2>2 DEF IInv, KindsMatch, FreshIds, Appending
  <2>3. QED
    BY <2>1, <2>2
<1>6. req[r].seq = n + 1 /\ (ChecksHead(r) => req[r].prev = streams[s].head)
  BY <1>1 DEF IInv, SnapshotsHold
<1>7. events' = [events EXCEPT ![s] = Append(events[s], NewRow(req[r]))]
  BY DEF CommitTx
<1>8. NewRow(req[r]) \in Row
  BY <1>4, NewRowType DEF IInv
<1>9. events'[s] = Append(events[s], NewRow(req[r])) /\ \A t \in Streams \ {s} : events'[t] = events[t]
  BY <1>2, <1>7 DEF IInv, TypeOK
<1>10. /\ \A t \in Streams \ {s} : streams'[t] = streams[t]
       /\ streams'[s] = [headId |-> req[r].id, head |-> StoredHash(req[r]),
                         count |-> streams[s].count + 1]
  BY <1>2 DEF CommitTx, IInv, TypeOK
<1>11. /\ DOMAIN events'[s] = 1 .. (n + 1) /\ Len(events'[s]) = n + 1
       /\ \A i \in 1 .. n : events'[s][i] = events[s][i]
       /\ events'[s][n + 1] = NewRow(req[r])
       /\ events'[s] # <<>>
  <2> HIDE DEF s, n
  <2>1. n = Len(events[s])
    BY DEF n
  <2>2. QED
    BY <1>3, <1>8, <1>9, <2>1, AppendFacts
<1>12. QED
  BY <1>2, <1>3, <1>4, <1>5, <1>6, <1>9, <1>10, <1>11

\* A commit adds its own id to the stored ones, and no other.
LEMMA CommitStoredIds ==
    ASSUME IInv, NEW r \in Requests, CommitTx(r)
    PROVE  StoredIds' = StoredIds \cup {req[r].id}
<1> DEFINE s == req[r].stream
           n == Len(events[s])
           E(q) == {q[i].id : i \in DOMAIN q}
<1>1. /\ s \in Streams /\ n \in Nat
      /\ \A t \in Streams \ {s} : events'[t] = events[t]
      /\ DOMAIN events[s] = 1 .. n
      /\ DOMAIN events'[s] = 1 .. (n + 1)
      /\ \A i \in 1 .. n : events'[s][i] = events[s][i]
      /\ events'[s][n + 1] = NewRow(req[r])
  BY CommitFacts
<1>2. NewRow(req[r]).id = req[r].id
  BY DEF NewRow
<1>3. 1 .. (n + 1) = 1 .. n \cup {n + 1}
  BY <1>1
<1> HIDE DEF s, n
<1>4. E(events'[s]) = E(events[s]) \cup {req[r].id}
  <2>1. ASSUME NEW i \in 1 .. (n + 1)
        PROVE  events'[s][i].id \in E(events[s]) \cup {req[r].id}
    BY <1>1, <1>2, <1>3
  <2>2. ASSUME NEW i \in 1 .. n
        PROVE  i \in 1 .. (n + 1) /\ events'[s][i].id = events[s][i].id
    BY <1>1, <1>3
  <2>3. n + 1 \in 1 .. (n + 1) /\ events'[s][n + 1].id = req[r].id
    BY <1>1, <1>2
  <2>4. E(events'[s]) = {events'[s][i].id : i \in 1 .. (n + 1)}
    BY <1>1
  <2>5. E(events[s]) = {events[s][i].id : i \in 1 .. n}
    BY <1>1
  <2> HIDE DEF E
  <2>6. E(events'[s]) \subseteq E(events[s]) \cup {req[r].id}
    BY <2>1, <2>4
  <2>7. E(events[s]) \cup {req[r].id} \subseteq E(events'[s])
    BY <2>2, <2>3, <2>4, <2>5
  <2>8. QED
    BY <2>6, <2>7
<1>5. StoredIds = UNION {E(events[t]) : t \in Streams}
  BY DEF StoredIds
<1>6. StoredIds' = UNION {E(events'[t]) : t \in Streams}
  BY DEF StoredIds
<1> HIDE DEF E
<1>7. \A t \in Streams \ {s} : E(events'[t]) = E(events[t])
  BY <1>1
<1>8. QED
  BY <1>1, <1>4, <1>5, <1>6, <1>7

-----------------------------------------------------------------------------
(* The facts about the tables.                                             *)

\* The positions of a stream that has one row more (AppendEvent).
LEMMA OneLonger ==
    ASSUME NEW n \in Nat
    PROVE  1 .. (n + 1) = 1 .. n \cup {n + 1} /\ n + 1 \notin 1 .. n
OBVIOUS

\* A commit keeps the numbering, the head columns, the uniqueness of ids, the
\* chain of local appends and the stored hashes.
LEMMA CommitTables ==
    ASSUME IInv, NEW r \in Requests, CommitTx(r)
    PROVE  TablesInv'
<1> DEFINE s == req[r].stream
           n == Len(events[s])
<1>1. /\ s \in Streams /\ n \in Nat
      /\ req[r].id \notin StoredIds
      /\ req[r].seq = n + 1
      /\ ChecksHead(r) => req[r].prev = streams[s].head
      /\ \A t \in Streams \ {s} : events'[t] = events[t] /\ streams'[t] = streams[t]
      /\ DOMAIN events[s] = 1 .. n
      /\ DOMAIN events'[s] = 1 .. (n + 1) /\ Len(events'[s]) = n + 1
      /\ \A i \in 1 .. n : events'[s][i] = events[s][i]
      /\ events'[s][n + 1] = NewRow(req[r])
      /\ streams'[s] = [headId |-> req[r].id, head |-> StoredHash(req[r]),
                        count |-> streams[s].count + 1]
      /\ events'[s] # <<>>
  BY CommitFacts
<1>2. /\ NewRow(req[r]).id = req[r].id
      /\ NewRow(req[r]).type = req[r].type
      /\ NewRow(req[r]).seq = req[r].seq
      /\ NewRow(req[r]).prev = req[r].prev
      /\ NewRow(req[r]).hash = StoredHash(req[r])
      /\ NewRow(req[r]).deps = nullableString(req[r].deps)
  BY DEF NewRow
<1>3. 1 .. (n + 1) = 1 .. n \cup {n + 1} /\ n + 1 \notin 1 .. n
  <2>1. n \in Nat
    BY <1>1
  <2> HIDE DEF n
  <2>2. QED
    BY <2>1, OneLonger
<1>4. req[r].stream = s /\ n = Len(events[s])
  OBVIOUS
<1>5. req[r].pc = "commit" /\ req[r].id \in Ids
  BY DEF CommitTx, IInv, KindsMatch
<1> HIDE DEF s, n
<1>6. GapFreeSequence'
  <2> SUFFICES ASSUME NEW t \in Streams, NEW i \in DOMAIN events'[t]
               PROVE  events'[t][i].seq = i
    BY DEF GapFreeSequence
  <2>1. CASE t = s /\ i \in 1 .. n
    BY <1>1, <2>1 DEF IInv, TablesInv, GapFreeSequence
  <2>2. CASE t = s /\ i = n + 1
    BY <1>1, <1>2, <2>2
  <2>3. CASE t # s
    BY <1>1, <2>3 DEF IInv, TablesInv, GapFreeSequence
  <2>4. QED
    BY <1>1, <1>3, <2>1, <2>2, <2>3
<1>7. HeadIsLastEvent'
  <2> SUFFICES ASSUME NEW t \in Streams
               PROVE  /\ streams'[t].count = Len(events'[t])
                      /\ events'[t] # <<>> =>
                            /\ streams'[t].headId = events'[t][Len(events'[t])].id
                            /\ streams'[t].head = events'[t][Len(events'[t])].hash
                      /\ events'[t] = <<>> => streams'[t].head = <<>>
    BY DEF HeadIsLastEvent
  <2>1. CASE t = s
    <3>1. streams[s].count = n
      BY <1>1, <1>4 DEF IInv, TablesInv, HeadIsLastEvent
    <3>2. QED
      BY <1>1, <1>2, <2>1, <3>1
  <2>2. CASE t # s
    <3>1. events'[t] = events[t] /\ streams'[t] = streams[t]
      BY <1>1, <2>2
    <3>2. QED
      BY <3>1 DEF IInv, TablesInv, HeadIsLastEvent
  <2>3. QED
    BY <2>1, <2>2
<1>8. EventsUnique'
  <2> SUFFICES ASSUME NEW t \in Streams, NEW u \in Streams,
                      NEW i \in DOMAIN events'[t], NEW j \in DOMAIN events'[u],
                      events'[t][i].id = events'[u][j].id
               PROVE  t = u /\ i = j
    BY DEF EventsUnique
  <2>1. \A v \in Streams : \A k \in DOMAIN events'[v] :
            \/ v = s /\ k = n + 1 /\ events'[v][k].id = req[r].id
            \/ /\ ~(v = s /\ k = n + 1) /\ k \in DOMAIN events[v]
               /\ events'[v][k] = events[v][k]
    BY <1>1, <1>2, <1>3
  <2>2. \A v \in Streams : \A k \in DOMAIN events[v] : events[v][k].id # req[r].id
    BY <1>1 DEF StoredIds
  <2>3. QED
    BY <2>1, <2>2 DEF IInv, TablesInv, EventsUnique
<1>9. FollowsRowBefore'
  <2> SUFFICES ASSUME NEW t \in HistoryStreams, NEW i \in DOMAIN events'[t],
                      AppendedToChain(events'[t][i])
               PROVE  events'[t][i].prev = IF i = 1 THEN <<>> ELSE events'[t][i - 1].hash
    BY DEF FollowsRowBefore, AppendedToChain
  <2>0. t \in Streams
    BY DEF Streams
  <2>1. CASE t = s /\ i = n + 1
    <3>0. events'[t][i].id = req[r].id /\ events'[t][i].type = req[r].type
      BY <1>1, <1>2, <2>1
    <3>1. req[r].op # "vault"
      BY <1>5, <3>0 DEF IInv, KindsMatch, AppendedToChain
    <3>2. req[r].op # "push"
      BY <1>1, <1>5, <3>0 DEF IInv, KindsMatch, AppendedToChain
    <3>3. ChecksHead(r)
      BY <1>5, <3>1, <3>2 DEF IInv, KindsMatch, ChecksHead
    <3>4. events'[t][i].prev = streams[s].head
      BY <1>1, <1>2, <2>1, <3>3
    <3>5. CASE n = 0
      <4>1. events[s] \in Seq(Row) /\ Len(events[s]) = 0
        BY <1>4, <1>1, <3>5 DEF IInv, TypeOK
      <4>2. events[s] = <<>>
        BY <4>1, EmptyIffNoEntry
      <4>3. QED
        BY <1>1, <2>1, <3>4, <3>5, <4>2 DEF IInv, TablesInv, HeadIsLastEvent
    <3>6. CASE n # 0
      <4>1. events[s] # <<>> /\ n \in 1 .. n
        BY <1>1, <1>4, <3>6 DEF IInv, TypeOK
      <4>2. streams[s].head = events[s][n].hash
        BY <1>1, <1>4, <4>1 DEF IInv, TablesInv, HeadIsLastEvent
      <4>3. events'[s][n] = events[s][n] /\ i # 1 /\ i - 1 = n
        BY <1>1, <2>1, <3>6, <4>1
      <4>4. QED
        BY <2>1, <3>4, <4>2, <4>3
    <3>7. QED
      BY <3>5, <3>6
  <2>2. CASE t = s /\ i \in 1 .. n
    <3>1. i # 1 => i - 1 \in 1 .. n
      BY <1>1, <2>2
    <3>2. events'[s][i] = events[s][i] /\ (i # 1 => events'[s][i - 1] = events[s][i - 1])
      BY <1>1, <2>2, <3>1
    <3>3. QED
      BY <1>1, <2>2, <3>2 DEF IInv, TablesInv, FollowsRowBefore
  <2>3. CASE t # s
    <3>1. events'[t] = events[t]
      BY <1>1, <2>0, <2>3
    <3>2. QED
      BY <3>1 DEF IInv, TablesInv, FollowsRowBefore
  <2>4. QED
    BY <1>1, <1>3, <2>1, <2>2, <2>3
<1>10. RowHashes'
  <2> DEFINE Hashed(row) ==
               /\ row.type = "vault" => row.hash = <<>>
               /\ row.type = "history" /\ row.deps # "null" =>
                    row.hash = ComputeHistoryEventHash(row.prev, row.id, row.deps)
  <2>1. ASSUME NEW t \in Streams, NEW i \in DOMAIN events[t]
        PROVE  Hashed(events[t][i])
    BY DEF IInv, TablesInv, RowHashes
  <2>2. Hashed(NewRow(req[r]))
    <3>1. req[r].deps \in DepsText
      BY DEF IInv, TypeOK, Local
    <3>2. NewRow(req[r]).deps # "null" => NewRow(req[r]).deps = req[r].deps
      BY <1>2, <3>1, DepsTypes
    <3>3. CASE req[r].type = "history"
      BY <1>2, <3>2, <3>3 DEF StoredHash
    <3>4. CASE req[r].type # "history"
      BY <1>2, <3>4 DEF StoredHash
    <3>5. QED
      BY <3>3, <3>4
  <2> HIDE DEF Hashed
  <2>3. ASSUME NEW t \in Streams, NEW i \in DOMAIN events'[t]
        PROVE  Hashed(events'[t][i])
    <3>1. CASE t = s /\ i = n + 1
      BY <1>1, <2>2, <3>1
    <3>2. CASE t = s /\ i \in 1 .. n
      BY <1>1, <2>1, <3>2
    <3>3. CASE t # s
      BY <1>1, <2>1, <3>3
    <3>4. QED
      BY <1>1, <1>3, <3>1, <3>2, <3>3
  <2>4. QED
    BY <2>3 DEF RowHashes, Hashed
<1>11. QED
  BY <1>6, <1>7, <1>8, <1>9, <1>10 DEF TablesInv


\* Every step keeps the facts about the tables.
LEMMA TablesStep ==
    ASSUME IInv, [Next]_vars
    PROVE  TablesInv'
<1>1. CASE UNCHANGED <<events, streams>>
  BY <1>1 DEF IInv, TablesInv, GapFreeSequence, HeadIsLastEvent, EventsUnique,
              FollowsRowBefore, RowHashes
<1>2. CASE \E r \in Requests : CommitTx(r)
  BY <1>2, CommitTables
<1>3. UNCHANGED <<events, streams>> \/ \E r \in Requests : CommitTx(r)
  BY HandlerFrame DEF IInv, Next, Crash, vars
<1>4. QED
  BY <1>1, <1>2, <1>3

-----------------------------------------------------------------------------
(* The facts about the handlers.                                           *)

\* Stored ids stay stored.
LEMMA StoredIdsGrow ==
    ASSUME IInv, [Next]_vars
    PROVE  StoredIds \subseteq StoredIds'
<1>1. CASE UNCHANGED events
  BY <1>1 DEF StoredIds
<1>2. CASE \E r \in Requests : CommitTx(r)
  BY <1>2, CommitStoredIds
<1>3. QED
  BY <1>1, <1>2, HandlerFrame DEF IInv, Next, Crash, vars

\* What a handler that starts carries.
LEMMA StartFacts ==
    ASSUME TypeOK, NEW r \in Requests,
           \/ handleVaultAppend(r)
           \/ handleHistoryAppend(r)
           \/ handleGrantRevoke(r)
           \/ handleSyncPush(r)
    PROVE  /\ UNCHANGED <<events, streams, commits>>
           /\ req'[r].pc = "open"
           /\ req'[r].id \in Ids
           /\ \/ req'[r].op = "vault" /\ req'[r].type = "vault"
              \/ /\ req'[r].op \in {"history", "revoke"} /\ req'[r].type = "history"
                 /\ req'[r].stream \in HistoryStreams
              \/ req'[r].op = "push" /\ (req'[r].id \in LocalIds => req'[r].id \in StoredIds)
           /\ req'[r].op = "push" => UNCHANGED minted
           /\ req'[r].op # "push" => MintId(req'[r].id)
<1>1. CASE handleVaultAppend(r)
  BY <1>1 DEF handleVaultAppend, Start, TypeOK, MintId, Ids
<1>2. CASE handleHistoryAppend(r)
  BY <1>2 DEF handleHistoryAppend, Start, TypeOK, MintId, Ids
<1>3. CASE handleGrantRevoke(r)
  <2>1. PICK id \in LocalIds : MintId(id) /\ Start(r, "revoke", Revocations, "history", id, "", <<>>)
    BY <1>3 DEF handleGrantRevoke
  <2>2. /\ req'[r].pc = "open" /\ req'[r].op = "revoke" /\ req'[r].id = id
        /\ req'[r].stream = Revocations /\ req'[r].type = "history"
        /\ UNCHANGED <<events, streams, commits>>
    BY <2>1 DEF Start, TypeOK
  <2>3. QED
    BY <2>1, <2>2, StreamAssumption DEF Ids
<1>4. CASE handleSyncPush(r)
  <2>1. PICK e \in Pushable : Start(r, "push", e.stream, e.type, e.id, e.deps, e.prev) /\ UNCHANGED minted
    BY <1>4 DEF handleSyncPush
  <2>2. e.id \in Ids /\ (e.id \in LocalIds => e.id \in StoredIds)
    BY PushableType
  <2>3. /\ req'[r].pc = "open" /\ req'[r].op = "push" /\ req'[r].id = e.id
        /\ UNCHANGED <<events, streams, commits>>
    BY <2>1 DEF Start, TypeOK
  <2>4. QED
    BY <2>1, <2>2, <2>3
<1>5. QED
  BY <1>1, <1>2, <1>3, <1>4

\* What the other steps do to their handler's local variables.
LEMMA LocalFacts ==
    ASSUME TypeOK, NEW r \in Requests
    PROVE  /\ OpenBlob(r) => req'[r] = [req[r] EXCEPT !.pc = "write"]
           /\ WriteBlob(r) => \E l \in {"head", "begin"} : req'[r] = [req[r] EXCEPT !.pc = l]
           /\ ReadRevocationHead(r) =>
                \E p \in Hash : req'[r] = [req[r] EXCEPT !.pc = "begin", !.prev = p]
           /\ BeginTx(r) =>
                req'[r] = [req[r] EXCEPT !.pc = "commit", !.snap = commits,
                                         !.seq = NextSeq(req[r].stream)]
           /\ CommitTx(r) => \E l \in {"mark", "reply"} : req'[r] = [req[r] EXCEPT !.pc = l]
           /\ MarkGrantRevoked(r) => req'[r] = [req[r] EXCEPT !.pc = "reply"]
           /\ HistoryConflict(r) \/ AlreadyPresent(r) \/ Fail(r) \/ Reply(r) => req'[r] = Idle
<1>1. OpenBlob(r) => req'[r] = [req[r] EXCEPT !.pc = "write"]
  BY DEF OpenBlob, Goto, TypeOK
<1>2. WriteBlob(r) => \E l \in {"head", "begin"} : req'[r] = [req[r] EXCEPT !.pc = l]
  BY DEF WriteBlob, Goto, TypeOK
<1>3. ReadRevocationHead(r) =>
        \E p \in Hash : req'[r] = [req[r] EXCEPT !.pc = "begin", !.prev = p]
  <2>1. streams[Revocations].head \in Hash
    BY StreamAssumption DEF TypeOK, Streams
  <2>2. QED
    BY <2>1, EmptyHash DEF ReadRevocationHead, TypeOK
<1>4. BeginTx(r) =>
        req'[r] = [req[r] EXCEPT !.pc = "commit", !.snap = commits,
                                 !.seq = NextSeq(req[r].stream)]
  BY DEF BeginTx, TakeSnapshot, TypeOK
<1>5. CommitTx(r) => \E l \in {"mark", "reply"} : req'[r] = [req[r] EXCEPT !.pc = l]
  BY DEF CommitTx, Goto, TypeOK
<1>6. MarkGrantRevoked(r) => req'[r] = [req[r] EXCEPT !.pc = "reply"]
  BY DEF MarkGrantRevoked, Goto, TypeOK
<1>7. HistoryConflict(r) \/ AlreadyPresent(r) \/ Fail(r) \/ Reply(r) => req'[r] = Idle
  BY DEF HistoryConflict, AlreadyPresent, Fail, Reply, TypeOK
<1>8. QED
  BY <1>1, <1>2, <1>3, <1>4, <1>5, <1>6, <1>7


\* A handler that takes a step and is not idle after it: it has just started,
\* or it was running and works for the same event.
LEMMA SameWork ==
    ASSUME TypeOK, NEW r \in Requests, Handler(r), req'[r].pc # "idle"
    PROVE  \/ \/ handleVaultAppend(r)
              \/ handleHistoryAppend(r)
              \/ handleGrantRevoke(r)
              \/ handleSyncPush(r)
           \/ /\ req[r].pc # "idle"
              /\ req'[r].op = req[r].op
              /\ req'[r].stream = req[r].stream /\ req'[r].type = req[r].type
              /\ req'[r].id = req[r].id
              /\ minted' = minted
              /\ Appending(r)' => Appending(r)
<1>1. req[r] \in Local
  BY DEF TypeOK
<1>2. CASE HistoryConflict(r) \/ AlreadyPresent(r) \/ Fail(r) \/ Reply(r)
  <2>1. req'[r] = Idle
    BY <1>2, LocalFacts
  <2>2. Idle.pc = "idle"
    BY DEF Idle
  <2>3. QED
    BY <2>1, <2>2
<1>3. CASE OpenBlob(r)
  <2>1. req'[r] = [req[r] EXCEPT !.pc = "write"]
    BY <1>3, LocalFacts
  <2>2. QED
    BY <1>1, <1>3, <2>1 DEF OpenBlob, Local, Appending
<1>4. CASE WriteBlob(r)
  <2>1. PICK l \in {"head", "begin"} : req'[r] = [req[r] EXCEPT !.pc = l]
    BY <1>4, LocalFacts
  <2>2. QED
    BY <1>1, <1>4, <2>1 DEF WriteBlob, Local, Appending
<1>5. CASE ReadRevocationHead(r)
  <2>1. PICK p \in Hash : req'[r] = [req[r] EXCEPT !.pc = "begin", !.prev = p]
    BY <1>5, LocalFacts
  <2>2. QED
    BY <1>1, <1>5, <2>1 DEF ReadRevocationHead, Local, Appending
<1>6. CASE BeginTx(r)
  <2>1. req'[r] = [req[r] EXCEPT !.pc = "commit", !.snap = commits,
                                 !.seq = NextSeq(req[r].stream)]
    BY <1>6, LocalFacts
  <2>2. QED
    BY <1>1, <1>6, <2>1 DEF BeginTx, Local, Appending
<1>7. CASE CommitTx(r)
  <2>1. PICK l \in {"mark", "reply"} : req'[r] = [req[r] EXCEPT !.pc = l]
    BY <1>7, LocalFacts
  <2>2. QED
    BY <1>1, <1>7, <2>1 DEF CommitTx, Local, Appending
<1>8. CASE MarkGrantRevoked(r)
  <2>1. req'[r] = [req[r] EXCEPT !.pc = "reply"]
    BY <1>8, LocalFacts
  <2>2. QED
    BY <1>1, <1>8, <2>1 DEF MarkGrantRevoked, Local, Appending
<1>9. QED
  BY <1>2, <1>3, <1>4, <1>5, <1>6, <1>7, <1>8 DEF Handler

\* Handlers keep working for a stream of their kind, and a pushed id of this
\* hub is a stored one.
LEMMA KindsStep ==
    ASSUME IInv, [Next]_vars
    PROVE  KindsMatch'
<1> DEFINE Kind(t) ==
      /\ req[t].id \in Ids
      /\ \/ req[t].op = "vault" /\ req[t].type = "vault"
         \/ /\ req[t].op \in {"history", "revoke"} /\ req[t].type = "history"
            /\ req[t].stream \in HistoryStreams
         \/ req[t].op = "push" /\ (req[t].id \in LocalIds => req[t].id \in StoredIds)
<1> SUFFICES ASSUME NEW t \in Requests, req'[t].pc # "idle"
             PROVE  Kind(t)'
  BY DEF KindsMatch
<1>1. CASE /\ req[t].pc # "idle"
           /\ req'[t].op = req[t].op
           /\ req'[t].stream = req[t].stream /\ req'[t].type = req[t].type
           /\ req'[t].id = req[t].id
  <2>1. StoredIds \subseteq StoredIds'
    BY StoredIdsGrow
  <2>2. QED
    BY <1>1, <2>1 DEF IInv, KindsMatch
<1>2. CASE req'[t] = req[t]
  BY <1>1, <1>2
<1>3. ASSUME Handler(t) PROVE Kind(t)'
  <2>1. CASE /\ req[t].pc # "idle"
             /\ req'[t].op = req[t].op
             /\ req'[t].stream = req[t].stream /\ req'[t].type = req[t].type
             /\ req'[t].id = req[t].id
    BY <1>1, <2>1
  <2>2. CASE \/ handleVaultAppend(t) \/ handleHistoryAppend(t) \/ handleGrantRevoke(t)
             \/ handleSyncPush(t)
    <3>1. UNCHANGED events
      BY <2>2, StartFacts DEF IInv
    <3>2. StoredIds' = StoredIds
      BY <3>1 DEF StoredIds
    <3>3. QED
      BY <2>2, <3>2, StartFacts DEF IInv
  <2>3. QED
    BY <1>3, <2>1, <2>2, SameWork DEF IInv
<1>4. CASE Crash
  BY <1>4 DEF Crash, Idle
<1>5. CASE UNCHANGED vars
  BY <1>2, <1>5 DEF vars
<1>6. CASE \E r \in Requests : Handler(r)
  BY <1>2, <1>3, <1>6, HandlerFrame DEF IInv
<1>7. QED
  BY <1>4, <1>5, <1>6 DEF Next


\* A ULID in flight is in no row and in no other append, whatever peers push.
LEMMA FreshStep ==
    ASSUME IInv, [Next]_vars
    PROVE  FreshIds'
<1>1. CASE Crash
  <2>1. \A t \in Requests : ~Appending(t)'
    BY <1>1 DEF Crash, Idle, Appending
  <2>2. StoredIds' = StoredIds /\ minted' = minted
    BY <1>1 DEF Crash, StoredIds
  <2>3. QED
    BY <2>1, <2>2 DEF IInv, FreshIds
<1>2. CASE UNCHANGED vars
  BY <1>2 DEF vars, IInv, FreshIds, Appending, StoredIds
<1>3. CASE \E r \in Requests : Handler(r)
  <2> PICK r \in Requests : Handler(r)
    BY <1>3
  <2> DEFINE Started == \/ handleVaultAppend(r) \/ handleHistoryAppend(r)
                        \/ handleGrantRevoke(r) \/ handleSyncPush(r)
             Continued == /\ req[r].pc # "idle"
                          /\ req'[r].op = req[r].op
                          /\ req'[r].id = req[r].id
                          /\ minted' = minted
                          /\ Appending(r)' => Appending(r)
  <2>1. \A t \in Requests \ {r} :
            req'[t] = req[t] /\ (Appending(t)' <=> Appending(t))
    BY HandlerFrame DEF IInv, Appending
  <2>2. \A t \in Requests : Appending(t) =>
            /\ req[t].id \in minted /\ req[t].id \notin StoredIds
            /\ \A u \in Requests \ {t} : Appending(u) => req[u].id # req[t].id
    BY DEF IInv, FreshIds
  <2>3. minted \subseteq LocalIds /\ \A id \in LocalIds : id \in StoredIds => id \in minted
    BY DEF IInv, TypeOK, FreshIds
  <2>4. ASSUME CommitTx(r)
        PROVE  /\ StoredIds' = StoredIds \cup {req[r].id}
               /\ minted' = minted
               /\ ~Appending(r)'
               /\ req[r].id \notin StoredIds
               /\ req[r].id \in LocalIds => Appending(r)
    <3>1. StoredIds' = StoredIds \cup {req[r].id} /\ req[r].id \notin StoredIds
      BY <2>4, CommitStoredIds, CommitFacts
    <3>2. req[r].pc = "commit" /\ minted' = minted
      BY <2>4 DEF CommitTx
    <3>3. PICK l \in {"mark", "reply"} : req'[r] = [req[r] EXCEPT !.pc = l]
      BY <2>4, LocalFacts DEF IInv
    <3>4. req[r] \in Local
      BY DEF IInv, TypeOK
    <3>5. ~Appending(r)'
      BY <3>3, <3>4 DEF Appending, Local
    <3>6. req[r].id \in LocalIds => Appending(r)
      BY <3>1, <3>2 DEF IInv, KindsMatch, Appending
    <3>7. QED
      BY <3>1, <3>2, <3>5, <3>6
  <2>5. ~CommitTx(r) => StoredIds' = StoredIds
    BY HandlerFrame DEF IInv, StoredIds
  <2>6. Appending(r)' => Started \/ Continued
    BY SameWork DEF IInv, Appending
  <2>7. Started => /\ req'[r].pc = "open"
                   /\ req'[r].op = "push" => minted' = minted
                   /\ req'[r].op # "push" => MintId(req'[r].id)
                   /\ StoredIds' = StoredIds
    BY StartFacts DEF IInv, StoredIds
  <2>8. minted' = minted \/ (Started /\ MintId(req'[r].id))
    <3>1. CASE Started
      BY <2>7, <3>1
    <3>2. CASE ~Started
      BY <3>2 DEF Handler, OpenBlob, WriteBlob, ReadRevocationHead, BeginTx,
         HistoryConflict, AlreadyPresent, CommitTx, Fail, MarkGrantRevoked, Reply
    <3>3. QED
      BY <3>1, <3>2
  <2>9. Appending(r)' /\ Started => MintId(req'[r].id)
    BY <2>7 DEF Appending
  <2> HIDE DEF Started, Continued
  <2>10. minted \subseteq minted'
    BY <2>8 DEF MintId
  <2>11. \A id \in LocalIds : id \in StoredIds' => id \in minted'
    BY <2>2, <2>3, <2>4, <2>5, <2>10
  <2>12. ASSUME NEW t \in Requests, Appending(t)'
         PROVE  /\ req'[t].id \in minted'
                /\ req'[t].id \notin StoredIds'
                /\ \A u \in Requests \ {t} : Appending(u)' => req'[u].id # req'[t].id
    <3>1. CASE t = r /\ Started
      <4>1. MintId(req'[r].id) /\ StoredIds' = StoredIds
        BY <2>7, <2>9, <2>12, <3>1
      <4>2. \A u \in Requests \ {r} : Appending(u)' => req'[u].id \in minted
        BY <2>1, <2>2
      <4>3. QED
        BY <2>3, <3>1, <4>1, <4>2 DEF MintId
    <3>2. CASE t = r /\ Continued
      <4>1. Appending(r) /\ req'[r].id = req[r].id /\ minted' = minted
        BY <2>12, <3>2 DEF Continued
      <4>2. StoredIds' = StoredIds
        BY <2>4, <2>5, <2>12, <3>2
      <4>3. QED
        BY <2>1, <2>2, <3>2, <4>1, <4>2
    <3>3. CASE t # r
      <4>1. req'[t] = req[t] /\ Appending(t) /\ req[t].id \in minted /\ req[t].id \notin StoredIds
        BY <2>1, <2>2, <2>12, <3>3
      <4>2. req[t].id \notin StoredIds'
        BY <2>2, <2>3, <2>4, <2>5, <3>3, <4>1
      <4>3. Appending(r)' => req'[r].id # req[t].id
        <5>1. CASE Started
          BY <2>9, <4>1, <5>1 DEF MintId
        <5>2. CASE Continued
          BY <2>2, <3>3, <4>1, <5>2 DEF Continued
        <5>3. QED
          BY <2>6, <5>1, <5>2
      <4>4. QED
        BY <2>1, <2>2, <2>10, <3>3, <4>1, <4>2, <4>3
    <3>4. QED
      BY <2>6, <2>12, <3>1, <3>2, <3>3
  <2>13. QED
    BY <2>11, <2>12 DEF FreshIds
<1>4. QED
  BY <1>1, <1>2, <1>3 DEF Next


\* Which step brings a handler to each of its labels.
LEMMA ReachedBy ==
    ASSUME TypeOK, NEW r \in Requests, Handler(r)
    PROVE  /\ req'[r].pc = "write" => OpenBlob(r)
           /\ req'[r].pc \in {"head", "begin"} => WriteBlob(r) \/ ReadRevocationHead(r)
           /\ req'[r].pc = "commit" => BeginTx(r)
           /\ req'[r].pc \in {"mark", "reply"} => CommitTx(r) \/ MarkGrantRevoked(r)
<1>1. req[r] \in Local
  BY DEF TypeOK
<1>2. CASE \/ handleVaultAppend(r) \/ handleHistoryAppend(r) \/ handleGrantRevoke(r)
           \/ handleSyncPush(r)
  BY <1>2, StartFacts
<1>3. CASE HistoryConflict(r) \/ AlreadyPresent(r) \/ Fail(r) \/ Reply(r)
  <2>1. req'[r] = Idle
    BY <1>3, LocalFacts
  <2>2. Idle.pc = "idle"
    BY DEF Idle
  <2>3. QED
    BY <2>1, <2>2
<1>4. CASE OpenBlob(r)
  <2>1. req'[r] = [req[r] EXCEPT !.pc = "write"]
    BY <1>4, LocalFacts
  <2>2. QED
    BY <1>1, <1>4, <2>1 DEF Local
<1>5. CASE WriteBlob(r)
  <2>1. PICK l \in {"head", "begin"} : req'[r] = [req[r] EXCEPT !.pc = l]
    BY <1>5, LocalFacts
  <2>2. QED
    BY <1>1, <1>5, <2>1 DEF Local
<1>6. CASE ReadRevocationHead(r)
  <2>1. PICK p \in Hash : req'[r] = [req[r] EXCEPT !.pc = "begin", !.prev = p]
    BY <1>6, LocalFacts
  <2>2. QED
    BY <1>1, <1>6, <2>1 DEF Local
<1>7. CASE BeginTx(r)
  <2>1. req'[r] = [req[r] EXCEPT !.pc = "commit", !.snap = commits,
                                 !.seq = NextSeq(req[r].stream)]
    BY <1>7, LocalFacts
  <2>2. QED
    BY <1>1, <1>7, <2>1 DEF Local
<1>8. CASE CommitTx(r)
  <2>1. PICK l \in {"mark", "reply"} : req'[r] = [req[r] EXCEPT !.pc = l]
    BY <1>8, LocalFacts
  <2>2. QED
    BY <1>1, <1>8, <2>1 DEF Local
<1>9. CASE MarkGrantRevoked(r)
  <2>1. req'[r] = [req[r] EXCEPT !.pc = "reply"]
    BY <1>9, LocalFacts
  <2>2. QED
    BY <1>1, <1>9, <2>1 DEF Local
<1>10. QED
  BY <1>2, <1>3, <1>4, <1>5, <1>6, <1>7, <1>8, <1>9 DEF Handler

\* What a transaction read stays true until somebody commits: the snapshot rule
\* of BeginTx and CommitTx.
LEMMA SnapshotStep ==
    ASSUME IInv, [Next]_vars
    PROVE  SnapshotsHold'
<1> SUFFICES ASSUME NEW t \in Requests, req'[t].pc = "commit"
             PROVE  /\ req'[t].snap <= commits'
                    /\ req'[t].snap = commits' =>
                         /\ req'[t].seq = Len(events'[req'[t].stream]) + 1
                         /\ ChecksHead(t)' => req'[t].prev = streams'[req'[t].stream].head
                         /\ req'[t].op = "push" => req'[t].id \notin StoredIds'
  BY DEF SnapshotsHold
<1>1. req \in [Requests -> Local] /\ commits \in Nat /\ req[t] \in Local
  BY DEF IInv, TypeOK
<1>2. CASE req'[t] = req[t] /\ UNCHANGED <<events, streams, commits>>
  BY <1>2 DEF IInv, SnapshotsHold, ChecksHead, StoredIds
<1>3. ASSUME NEW r \in Requests, CommitTx(r), r # t
      PROVE  req'[t].snap <= commits' /\ req'[t].snap # commits'
  <2>1. req'[t] = req[t] /\ commits' = commits + 1
    BY <1>3, HandlerFrame DEF IInv, CommitTx, Handler
  <2>2. req[t].snap <= commits /\ req[t].snap \in Nat
    BY <1>1, <2>1 DEF IInv, SnapshotsHold, Local
  <2>3. QED
    BY <1>1, <2>1, <2>2
<1>5. CASE BeginTx(t)
  <2>1. req'[t] = [req[t] EXCEPT !.pc = "commit", !.snap = commits,
                                 !.seq = NextSeq(req[t].stream)]
    BY <1>5, LocalFacts DEF IInv
  <2>2. /\ req'[t].snap = commits /\ req'[t].seq = NextSeq(req[t].stream)
        /\ req'[t].op = req[t].op /\ req'[t].stream = req[t].stream
        /\ req'[t].id = req[t].id /\ req'[t].prev = req[t].prev
    BY <1>1, <2>1 DEF Local
  <2>3. NextSeq(req[t].stream) = Len(events[req[t].stream]) + 1
    BY <1>1, NextSeqIsLength DEF IInv, TablesInv, Local
  <2>4. UNCHANGED <<events, streams, commits>> /\ StoredIds' = StoredIds
    BY <1>5 DEF BeginTx, StoredIds
  <2>5. QED
    BY <1>1, <1>5, <2>2, <2>3, <2>4 DEF BeginTx, ChecksHead
<1>6. ASSUME Handler(t) PROVE BeginTx(t)
  BY <1>6, ReachedBy DEF IInv
<1>7. CASE Crash
  BY <1>7 DEF Crash, Idle
<1>8. CASE UNCHANGED vars
  BY <1>2, <1>8 DEF vars
<1>9. CASE \E r \in Requests : Handler(r)
  <2> PICK r \in Requests : Handler(r)
    BY <1>9
  <2>1. CASE r = t
    BY <1>5, <1>6, <2>1
  <2>2. CASE r # t
    BY <1>2, <1>3, <2>2, HandlerFrame DEF IInv
  <2>3. QED
    BY <2>1, <2>2
<1>10. QED
  BY <1>7, <1>8, <1>9 DEF Next

\* A row that is stored stays where it is.
LEMMA RowsStay ==
    ASSUME IInv, [Next]_vars, NEW s \in Streams, NEW i \in DOMAIN events[s]
    PROVE  i \in DOMAIN events'[s] /\ events'[s][i] = events[s][i]
<1>1. CASE UNCHANGED events
  BY <1>1
<1>2. ASSUME NEW r \in Requests, CommitTx(r)
      PROVE  i \in DOMAIN events'[s] /\ events'[s][i] = events[s][i]
  <2> DEFINE t == req[r].stream
             n == Len(events[t])
  <2>1. /\ t \in Streams /\ n \in Nat
        /\ \A u \in Streams \ {t} : events'[u] = events[u]
        /\ DOMAIN events[t] = 1 .. n
        /\ DOMAIN events'[t] = 1 .. (n + 1)
        /\ \A k \in 1 .. n : events'[t][k] = events[t][k]
    BY <1>2, CommitFacts
  <2> HIDE DEF t, n
  <2>2. CASE s = t
    BY <2>1, <2>2
  <2>3. CASE s # t
    BY <2>1, <2>3
  <2>4. QED
    BY <2>2, <2>3
<1>3. QED
  BY <1>1, <1>2, HandlerFrame DEF IInv, Next, Crash, vars

\* The event a handler is about to acknowledge is stored at its number.
LEMMA AnswersStep ==
    ASSUME IInv, [Next]_vars
    PROVE  AnswersStored'
<1> SUFFICES ASSUME NEW t \in Requests, req'[t].pc \in {"mark", "reply"}
             PROVE  /\ req'[t].seq \in DOMAIN events'[req'[t].stream]
                    /\ events'[req'[t].stream][req'[t].seq].id = req'[t].id
  BY DEF AnswersStored
<1>1. req \in [Requests -> Local] /\ req[t] \in Local
  BY DEF IInv, TypeOK
<1>2. ASSUME req[t].pc \in {"mark", "reply"}, req'[t].seq = req[t].seq,
             req'[t].stream = req[t].stream, req'[t].id = req[t].id
      PROVE  /\ req'[t].seq \in DOMAIN events'[req'[t].stream]
             /\ events'[req'[t].stream][req'[t].seq].id = req'[t].id
  <2>1. req[t].stream \in Streams
    BY <1>1 DEF Local
  <2>2. /\ req[t].seq \in DOMAIN events[req[t].stream]
        /\ events[req[t].stream][req[t].seq].id = req[t].id
    BY <1>2 DEF IInv, AnswersStored
  <2>3. QED
    BY <1>2, <2>1, <2>2, RowsStay
<1>3. CASE CommitTx(t)
  <2>1. PICK l \in {"mark", "reply"} : req'[t] = [req[t] EXCEPT !.pc = l]
    BY <1>3, LocalFacts DEF IInv
  <2>2. /\ req'[t].seq = req[t].seq /\ req'[t].stream = req[t].stream
        /\ req'[t].id = req[t].id
    BY <1>1, <2>1 DEF Local
  <2>3. NewRow(req[t]).id = req[t].id
    BY DEF NewRow
  <2> DEFINE s == req[t].stream
             n == Len(events[s])
  <2>4. /\ n \in Nat /\ req[t].seq = n + 1 /\ DOMAIN events'[s] = 1 .. (n + 1)
        /\ events'[s][n + 1] = NewRow(req[t])
    BY <1>3, CommitFacts
  <2> HIDE DEF n
  <2>5. QED
    BY <2>2, <2>3, <2>4
<1>4. CASE MarkGrantRevoked(t)
  <2>1. req'[t] = [req[t] EXCEPT !.pc = "reply"]
    BY <1>4, LocalFacts DEF IInv
  <2>2. QED
    BY <1>1, <1>2, <1>4, <2>1 DEF MarkGrantRevoked, Local
<1>5. ASSUME Handler(t) PROVE CommitTx(t) \/ MarkGrantRevoked(t)
  BY <1>5, ReachedBy DEF IInv
<1>6. CASE Crash
  BY <1>6 DEF Crash, Idle
<1>7. CASE UNCHANGED vars
  BY <1>2, <1>7 DEF vars
<1>8. CASE \E r \in Requests : Handler(r)
  <2> PICK r \in Requests : Handler(r)
    BY <1>8
  <2>1. CASE r = t
    BY <1>3, <1>4, <1>5, <2>1
  <2>2. CASE r # t
    BY <1>2, <2>2, HandlerFrame DEF IInv
  <2>3. QED
    BY <2>1, <2>2
<1>9. QED
  BY <1>6, <1>7, <1>8 DEF Next

\* Every answer given tells a position the event keeps.
LEMMA AckedStep ==
    ASSUME IInv, [Next]_vars
    PROVE  AckedEventStored'
<1> SUFFICES ASSUME NEW a \in acks'
             PROVE  /\ a.seq \in DOMAIN events'[a.stream]
                    /\ events'[a.stream][a.seq].id = a.id
  BY DEF AckedEventStored
<1>1. CASE a \in acks
  <2>1. a.stream \in Streams
    BY <1>1 DEF IInv, TypeOK
  <2>2. a.seq \in DOMAIN events[a.stream] /\ events[a.stream][a.seq].id = a.id
    BY <1>1 DEF IInv, AckedEventStored
  <2>3. QED
    BY <2>1, <2>2, RowsStay
<1>2. CASE a \notin acks
  <2>1. PICK r \in Requests : Handler(r)
    BY <1>2 DEF Next, vars, Crash
  <2>2. CASE \/ handleVaultAppend(r) \/ handleHistoryAppend(r) \/ handleGrantRevoke(r)
             \/ handleSyncPush(r)
    BY <1>2, <2>2 DEF handleVaultAppend, handleHistoryAppend, handleGrantRevoke,
       handleSyncPush, Start
  <2>3. CASE OpenBlob(r) \/ WriteBlob(r) \/ ReadRevocationHead(r) \/ BeginTx(r)
    BY <1>2, <2>3 DEF OpenBlob, WriteBlob, ReadRevocationHead, BeginTx
  <2>4. CASE \/ HistoryConflict(r) \/ AlreadyPresent(r) \/ CommitTx(r) \/ Fail(r)
             \/ MarkGrantRevoked(r)
    BY <1>2, <2>4 DEF HistoryConflict, AlreadyPresent, CommitTx, Fail, MarkGrantRevoked
  <2>5. CASE Reply(r)
    <3>1. /\ a = [id |-> req[r].id, stream |-> req[r].stream, seq |-> req[r].seq]
          /\ req[r].pc = "reply" /\ events' = events
      BY <1>2, <2>5 DEF Reply
    <3>2. QED
      BY <3>1 DEF IInv, AnswersStored
  <2>6. QED
    BY <2>1, <2>2, <2>3, <2>4, <2>5 DEF Handler
<1>3. QED
  BY <1>1, <1>2

-----------------------------------------------------------------------------
(* The blob files and the marks: a second invariant, which rests on IInv.  *)

\* The file of an event is opened before its row is written and never removed.
BlobsInPlace ==
    /\ \A r \in Requests :
          req[r].pc \in {"write", "head", "begin", "commit"} => blobs[req[r].id] # "missing"
    /\ \A s \in Streams : \A i \in DOMAIN events[s] : blobs[events[s][i].id] # "missing"

\* Unless peers push this hub's events back, only the append of a ULID writes
\* its file, and its row comes after the whole file.
LocalBlobsWhole ==
    ~EchoPush =>
        /\ \A r \in Requests : req[r].op = "push" => req[r].id \notin LocalIds
        /\ \A r \in Requests :
              req[r].pc \in {"head", "begin", "commit"} /\ req[r].id \in LocalIds =>
                  blobs[req[r].id] = "whole"
        /\ \A s \in Streams : \A i \in DOMAIN events[s] :
              events[s][i].id \in LocalIds => blobs[events[s][i].id] = "whole"

\* Only a revoke handler marks, after its event was appended to "revocations".
MarksBacked ==
    /\ \A r \in Requests : /\ req[r].op = "revoke" => req[r].stream = Revocations
                           /\ req[r].pc = "mark" => req[r].op = "revoke"
    /\ MarkBackedByHistory

FilesInv == BlobsInPlace /\ LocalBlobsWhole /\ MarksBacked

\* Which steps touch a file: none removes one, and a file loses its content
\* only when a handler that works for its event opens it.
LEMMA FileStep ==
    ASSUME IInv, [Next]_vars, NEW id \in Ids
    PROVE  /\ blobs[id] # "missing" => blobs'[id] # "missing"
           /\ blobs[id] = "whole" /\ blobs'[id] # "whole" =>
                \E r \in Requests : OpenBlob(r) /\ req[r].id = id
<1>0. blobs \in [Ids -> {"missing", "torn", "whole"}]
  BY DEF IInv, TypeOK
<1>1. CASE blobs' = blobs
  BY <1>1
<1>2. ASSUME NEW r \in Requests, OpenBlob(r)
      PROVE  blobs' = [blobs EXCEPT ![req[r].id] = "torn"]
  BY <1>2 DEF OpenBlob
<1>3. ASSUME NEW r \in Requests, WriteBlob(r)
      PROVE  blobs' = [blobs EXCEPT ![req[r].id] = "whole"]
  BY <1>3 DEF WriteBlob
<1>4. blobs' = blobs \/ \E r \in Requests : OpenBlob(r) \/ WriteBlob(r)
  BY DEF Next, Handler, vars, Crash, handleVaultAppend, handleHistoryAppend, handleGrantRevoke,
     handleSyncPush, Start, ReadRevocationHead, BeginTx, HistoryConflict, AlreadyPresent,
     CommitTx, Fail, MarkGrantRevoked, Reply
<1>5. CASE \E r \in Requests : OpenBlob(r)
  BY <1>0, <1>2, <1>5
<1>6. CASE \E r \in Requests : WriteBlob(r)
  BY <1>0, <1>3, <1>6
<1>7. QED
  BY <1>1, <1>4, <1>5, <1>6

\* A row that is new was in the hands of the handler that commits it.
LEMMA NewRowFrom ==
    ASSUME IInv, [Next]_vars, NEW s \in Streams, NEW i \in DOMAIN events'[s]
    PROVE  \/ i \in DOMAIN events[s] /\ events'[s][i] = events[s][i]
           \/ \E r \in Requests :
                 /\ CommitTx(r) /\ s = req[r].stream
                 /\ events'[s][i] = NewRow(req[r]) /\ events'[s][i].id = req[r].id
<1>1. CASE UNCHANGED events
  BY <1>1
<1>2. ASSUME NEW r \in Requests, CommitTx(r)
      PROVE  \/ i \in DOMAIN events[s] /\ events'[s][i] = events[s][i]
             \/ /\ CommitTx(r) /\ s = req[r].stream
                /\ events'[s][i] = NewRow(req[r]) /\ events'[s][i].id = req[r].id
  <2> DEFINE t == req[r].stream
             n == Len(events[t])
  <2>1. /\ t \in Streams /\ n \in Nat
        /\ \A u \in Streams \ {t} : events'[u] = events[u]
        /\ DOMAIN events[t] = 1 .. n
        /\ DOMAIN events'[t] = 1 .. (n + 1)
        /\ \A k \in 1 .. n : events'[t][k] = events[t][k]
        /\ events'[t][n + 1] = NewRow(req[r])
    BY <1>2, CommitFacts
  <2>2. NewRow(req[r]).id = req[r].id
    BY DEF NewRow
  <2> HIDE DEF n
  <2>3. CASE s = t
    BY <1>2, <2>1, <2>2, <2>3, OneLonger
  <2>4. CASE s # t
    BY <2>1, <2>4
  <2>5. QED
    BY <2>3, <2>4
<1>3. QED
  BY <1>1, <1>2, HandlerFrame DEF IInv, Next, Crash, vars

\* A handler after a step: idle, just started, as it was, or one step further
\* with the same event.
LEMMA HandlerMoves ==
    ASSUME IInv, [Next]_vars, NEW t \in Requests
    PROVE  \/ req'[t] = Idle
           \/ req'[t] = req[t]
           \/ /\ \/ handleVaultAppend(t) \/ handleHistoryAppend(t)
                 \/ handleGrantRevoke(t) \/ handleSyncPush(t)
              /\ req'[t].pc = "open"
           \/ /\ Handler(t)
              /\ req[t].pc # "idle"
              /\ req'[t].op = req[t].op /\ req'[t].stream = req[t].stream /\ req'[t].id = req[t].id
<1>0. TypeOK /\ req \in [Requests -> Local] /\ Idle \in Local
  BY IdleType DEF IInv, TypeOK
<1>1. CASE Handler(t) /\ req'[t].pc = "idle"
  <2>1. req'[t] = Idle \/ req'[t].pc # "idle"
    <3>1. CASE HistoryConflict(t) \/ AlreadyPresent(t) \/ Fail(t) \/ Reply(t)
      BY <1>0, <3>1, LocalFacts
    <3>2. CASE \/ handleVaultAppend(t) \/ handleHistoryAppend(t) \/ handleGrantRevoke(t)
               \/ handleSyncPush(t)
      BY <1>0, <3>2, StartFacts
    <3>3. CASE OpenBlob(t) \/ BeginTx(t)
      <4>1. \/ req'[t] = [req[t] EXCEPT !.pc = "write"]
            \/ req'[t] = [req[t] EXCEPT !.pc = "commit", !.snap = commits,
                                        !.seq = NextSeq(req[t].stream)]
        BY <1>0, <3>3, LocalFacts
      <4>2. req[t] \in Local
        BY <1>0
      <4>3. QED
        BY <4>1, <4>2 DEF Local
    <3>4. CASE WriteBlob(t)
      BY <1>0, <3>4, LocalFacts DEF Local
    <3>5. CASE ReadRevocationHead(t)
      BY <1>0, <3>5, LocalFacts DEF Local
    <3>6. CASE CommitTx(t) \/ MarkGrantRevoked(t)
      BY <1>0, <3>6, LocalFacts DEF Local
    <3>7. QED
      BY <1>1, <3>1, <3>2, <3>3, <3>4, <3>5, <3>6 DEF Handler
  <2>2. QED
    BY <1>1, <2>1
<1>2. CASE Handler(t) /\ req'[t].pc # "idle"
  BY <1>0, <1>2, SameWork, StartFacts
<1>3. CASE \E r \in Requests \ {t} : Handler(r)
  BY <1>0, <1>3, HandlerFrame
<1>4. CASE Crash \/ UNCHANGED vars
  BY <1>4 DEF Crash, vars
<1>5. QED
  BY <1>1, <1>2, <1>3, <1>4 DEF Next

\* What a handler that starts works on.
LEMMA StartedAs ==
    ASSUME TypeOK, NEW r \in Requests, NEW op, NEW s, NEW type, NEW id, NEW deps, NEW prev,
           Start(r, op, s, type, id, deps, prev)
    PROVE  req'[r].op = op /\ req'[r].stream = s /\ req'[r].id = id
  BY DEF Start, TypeOK

LEMMA InPlaceStep ==
    ASSUME IInv, [Next]_vars, BlobsInPlace
    PROVE  BlobsInPlace'
<1>0. /\ req \in [Requests -> Local] /\ req' \in [Requests -> Local] /\ TypeOK
      /\ \A t \in Requests : req[t].pc # "idle" => req[t].id \in Ids
      /\ \A s \in Streams : \A i \in DOMAIN events[s] : events[s][i].id \in Ids
  <2>1. req' \in [Requests -> Local]
    BY TypeStep DEF IInv, TypeOK, TablesInv
  <2>2. \A s \in Streams : \A i \in DOMAIN events[s] : events[s][i] \in Row
    BY DEF IInv, TypeOK
  <2>3. QED
    BY <2>1, <2>2 DEF IInv, TypeOK, KindsMatch, Row
<1>1. ASSUME NEW t \in Requests, req'[t].pc \in {"write", "head", "begin", "commit"}
      PROVE  blobs'[req'[t].id] # "missing"
  <2>1. CASE req'[t] = req[t]
    BY <1>0, <1>1, <2>1, FileStep DEF BlobsInPlace
  <2>2. CASE Handler(t) /\ req[t].pc # "idle" /\ req'[t].id = req[t].id
    <3>1. CASE OpenBlob(t)
      <4>1. blobs' = [blobs EXCEPT ![req[t].id] = "torn"] /\ req[t].id \in Ids
        BY <1>0, <2>2, <3>1 DEF OpenBlob
      <4>2. QED
        BY <1>0, <2>2, <4>1 DEF TypeOK
    <3>2. CASE req[t].pc \in {"write", "head", "begin"}
      BY <1>0, <2>2, <3>2, FileStep DEF BlobsInPlace
    <3>3. OpenBlob(t) \/ req[t].pc \in {"write", "head", "begin"}
      BY <1>0, <1>1, <2>2, ReachedBy DEF WriteBlob, ReadRevocationHead, BeginTx
    <3>4. QED
      BY <3>1, <3>2, <3>3
  <2>3. QED
    <3>1. Idle.pc = "idle"
      BY DEF Idle
    <3>2. QED
      BY <1>1, <2>1, <2>2, <3>1, HandlerMoves
<1>2. ASSUME NEW s \in Streams, NEW i \in DOMAIN events'[s]
      PROVE  blobs'[events'[s][i].id] # "missing"
  <2>1. CASE i \in DOMAIN events[s] /\ events'[s][i] = events[s][i]
    BY <1>0, <2>1, FileStep DEF BlobsInPlace
  <2>2. CASE \E r \in Requests : CommitTx(r) /\ events'[s][i].id = req[r].id
    BY <1>0, <2>2, FileStep DEF BlobsInPlace, CommitTx
  <2>3. QED
    BY <2>1, <2>2, NewRowFrom
<1>3. QED
  BY <1>1, <1>2 DEF BlobsInPlace

\* Without echoes nobody but its append writes the file of a ULID minted here,
\* and the append no longer does once the file is whole.
LEMMA WholeStep ==
    ASSUME IInv, [Next]_vars, LocalBlobsWhole, ~EchoPush
    PROVE  LocalBlobsWhole'
<1>0. /\ req \in [Requests -> Local] /\ TypeOK
      /\ \A t \in Requests : req[t].pc # "idle" => req[t].id \in Ids
      /\ \A t \in Requests : req[t].op = "push" => req[t].id \notin LocalIds
      /\ \A s \in Streams : \A i \in DOMAIN events[s] : events[s][i].id \in StoredIds
      /\ LocalIds \subseteq Ids
  BY DEF IInv, TypeOK, KindsMatch, LocalBlobsWhole, StoredIds, Ids
<1>1. Idle.pc = "idle" /\ Idle.op = "none"
  BY DEF Idle
<1>2. ASSUME NEW t \in Requests, req'[t].op = "push"
      PROVE  req'[t].id \notin LocalIds
  <2>1. CASE handleSyncPush(t)
    <3>1. Pushable = PeerEvents
      BY <1>0 DEF Pushable, LocalBlobsWhole
    <3>2. PICK e \in PeerEvents : Start(t, "push", e.stream, e.type, e.id, e.deps, e.prev)
      BY <2>1, <3>1 DEF handleSyncPush
    <3>3. req'[t].id = e.id
      BY <1>0, <3>2 DEF Start
    <3>4. QED
      BY <3>3, IdAssumption
  <2>2. CASE handleVaultAppend(t) \/ handleHistoryAppend(t) \/ handleGrantRevoke(t)
    <3>1. req'[t].op # "push"
      BY <1>0, <2>2, StartedAs DEF handleVaultAppend, handleHistoryAppend, handleGrantRevoke
    <3>2. QED
      BY <1>2, <3>1
  <2>3. QED
    BY <1>0, <1>1, <1>2, <2>1, <2>2, HandlerMoves
\* A file that is whole, of an event that is being committed or is stored.
<1>3. ASSUME NEW id \in LocalIds, blobs[id] = "whole",
             id \in StoredIds \/ \E t \in Requests :
                req[t].pc \in {"head", "begin", "commit"} /\ req[t].id = id
      PROVE  blobs'[id] = "whole"
  <2>1. ASSUME NEW r \in Requests, OpenBlob(r), req[r].id = id
        PROVE  FALSE
    <3>1. req[r].op \in {"vault", "history", "revoke"} /\ req[r].pc = "open"
      BY <1>0, <1>3, <2>1 DEF OpenBlob, IInv, KindsMatch
    <3>2. Appending(r)
      BY <3>1 DEF Appending
    <3>3. id \notin StoredIds
      BY <2>1, <3>2 DEF IInv, FreshIds
    <3>4. PICK t \in Requests : req[t].pc \in {"head", "begin", "commit"} /\ req[t].id = id
      BY <1>3, <3>3
    <3>5. Appending(t) /\ t # r
      BY <1>0, <1>3, <3>1, <3>4 DEF IInv, KindsMatch, Appending
    <3>6. QED
      BY <2>1, <3>2, <3>4, <3>5 DEF IInv, FreshIds
  <2>2. QED
    BY <1>0, <1>3, <2>1, FileStep
<1>4. ASSUME NEW t \in Requests, req'[t].pc \in {"head", "begin", "commit"}, req'[t].id \in LocalIds
      PROVE  blobs'[req'[t].id] = "whole"
  <2>1. CASE req[t].pc \in {"head", "begin", "commit"} /\ req'[t].id = req[t].id
    <3>1. blobs[req[t].id] = "whole"
      BY <1>4, <2>1 DEF LocalBlobsWhole
    <3>2. QED
      BY <1>3, <1>4, <2>1, <3>1
  <2>2. CASE Handler(t) /\ req[t].pc # "idle" /\ req'[t].id = req[t].id
    <3>1. CASE WriteBlob(t)
      <4>1. blobs' = [blobs EXCEPT ![req[t].id] = "whole"] /\ req[t].id \in Ids
        BY <1>0, <2>2, <3>1 DEF WriteBlob
      <4>2. QED
        BY <1>0, <2>2, <4>1 DEF TypeOK
    <3>2. WriteBlob(t) \/ req[t].pc \in {"head", "begin"}
      BY <1>0, <1>4, <2>2, ReachedBy DEF ReadRevocationHead, BeginTx
    <3>3. QED
      BY <2>1, <2>2, <3>1, <3>2
  <2>3. QED
    BY <1>1, <1>4, <2>1, <2>2, HandlerMoves
<1>5. ASSUME NEW s \in Streams, NEW i \in DOMAIN events'[s], events'[s][i].id \in LocalIds
      PROVE  blobs'[events'[s][i].id] = "whole"
  <2>1. CASE i \in DOMAIN events[s] /\ events'[s][i] = events[s][i]
    <3>1. blobs[events[s][i].id] = "whole" /\ events[s][i].id \in StoredIds
      BY <1>0, <1>5, <2>1 DEF LocalBlobsWhole
    <3>2. QED
      BY <1>3, <1>5, <2>1, <3>1
  <2>2. CASE \E r \in Requests : CommitTx(r) /\ events'[s][i].id = req[r].id
    <3>1. PICK r \in Requests : CommitTx(r) /\ events'[s][i].id = req[r].id
      BY <2>2
    <3>2. req[r].pc = "commit" /\ blobs[req[r].id] = "whole"
      BY <1>5, <3>1 DEF CommitTx, LocalBlobsWhole
    <3>3. QED
      BY <1>3, <1>5, <3>1, <3>2
  <2>3. QED
    BY <2>1, <2>2, NewRowFrom
<1>6. QED
  BY <1>2, <1>4, <1>5 DEF LocalBlobsWhole

\* A mark follows the append of the revocation event, whose row stays.
LEMMA MarksStep ==
    ASSUME IInv, [Next]_vars, MarksBacked
    PROVE  MarksBacked'
<1>0. req \in [Requests -> Local] /\ TypeOK /\ Revocations \in Streams
  BY StreamAssumption DEF IInv, TypeOK, Streams
<1>1. Idle.pc = "idle" /\ Idle.op = "none"
  BY DEF Idle
<1>2. ASSUME NEW t \in Requests
      PROVE  /\ req'[t].op = "revoke" => req'[t].stream = Revocations
             /\ req'[t].pc = "mark" => req'[t].op = "revoke"
  <2>1. CASE /\ \/ handleVaultAppend(t) \/ handleHistoryAppend(t)
                \/ handleGrantRevoke(t) \/ handleSyncPush(t)
             /\ req'[t].pc = "open"
    <3>1. CASE handleGrantRevoke(t)
      BY <1>0, <2>1, <3>1, StartedAs DEF handleGrantRevoke
    <3>2. CASE handleVaultAppend(t) \/ handleHistoryAppend(t) \/ handleSyncPush(t)
      <4>1. req'[t].op # "revoke"
        BY <1>0, <3>2, StartedAs DEF handleVaultAppend, handleHistoryAppend, handleSyncPush
      <4>2. QED
        BY <2>1, <4>1
    <3>3. QED
      BY <2>1, <3>1, <3>2
  <2>2. CASE /\ Handler(t)
             /\ req'[t].op = req[t].op /\ req'[t].stream = req[t].stream
    <3>1. CASE CommitTx(t)
      BY <1>0, <2>2, <3>1 DEF MarksBacked, CommitTx, Goto, Local
    <3>2. CASE MarkGrantRevoked(t)
      BY <1>0, <2>2, <3>2 DEF MarksBacked, MarkGrantRevoked
    <3>3. QED
      BY <1>0, <2>2, <3>1, <3>2, ReachedBy DEF MarksBacked
  <2>3. QED
    BY <1>1, <2>1, <2>2, HandlerMoves DEF MarksBacked
<1>3. ASSUME NEW id \in marked'
      PROVE  \E i \in DOMAIN events'[Revocations] : events'[Revocations][i].id = id
  <2>1. CASE id \in marked
    <3>1. PICK i \in DOMAIN events[Revocations] : events[Revocations][i].id = id
      BY <2>1 DEF MarksBacked, MarkBackedByHistory
    <3>2. QED
      BY <1>0, <3>1, RowsStay
  <2>2. CASE \E r \in Requests : MarkGrantRevoked(r) /\ id = req[r].id
    <3>1. PICK r \in Requests : MarkGrantRevoked(r) /\ id = req[r].id
      BY <2>2
    <3>2. /\ req[r].seq \in DOMAIN events[Revocations]
          /\ events[Revocations][req[r].seq].id = id
      BY <3>1 DEF MarkGrantRevoked, MarksBacked, IInv, AnswersStored
    <3>3. QED
      BY <1>0, <3>2, RowsStay
  <2>3. id \in marked \/ \E r \in Requests : MarkGrantRevoked(r) /\ id = req[r].id
    BY <1>3 DEF Next, Handler, vars, Crash, handleVaultAppend, handleHistoryAppend,
       handleGrantRevoke, handleSyncPush, Start, OpenBlob, WriteBlob, ReadRevocationHead, BeginTx,
       HistoryConflict, AlreadyPresent, CommitTx, Fail, MarkGrantRevoked, Reply
  <2>4. QED
    BY <2>1, <2>2, <2>3
<1>4. QED
  BY <1>2, <1>3 DEF MarksBacked, MarkBackedByHistory

-----------------------------------------------------------------------------
(* The atomic log.                                                         *)

\* The last entry of the hash of a history event is the event itself, so a
\* previous_event_hash names the event before; vault appends name none.
ParentsInv ==
    /\ \A s \in Streams : \A i \in DOMAIN events[s] :
          events[s][i].type = "history" =>
            LET hash == events[s][i].hash IN hash # <<>> /\ hash[Len(hash)].id = events[s][i].id
    /\ \A r \in Requests : /\ req[r].op = "vault" => req[r].prev = <<>>
                           /\ req[r].pc = "head" => req[r].op = "revoke"

\* A hash extended by an event ends in it.
LEMMA HashEnd ==
    ASSUME NEW prev \in Hash, NEW id \in Ids, NEW deps \in DepsText
    PROVE  LET hash == ComputeHistoryEventHash(prev, id, deps) IN
           hash # <<>> /\ hash[Len(hash)].id = id
<1> DEFINE S == [id : Ids, deps : DepsText]
           e == [id |-> id, deps |-> deps]
<1>1. e \in S /\ prev \in Seq(S)
  BY DEF Hash
<1> HIDE DEF S
<1>2. Append(prev, e) # <<>> /\ Append(prev, e)[Len(Append(prev, e))] = e
  BY <1>1, AppendFacts
<1>3. QED
  BY <1>2 DEF ComputeHistoryEventHash

LEMMA ParentsStep ==
    ASSUME IInv, [Next]_vars, ParentsInv
    PROVE  ParentsInv'
<1>0. req \in [Requests -> Local] /\ TypeOK
  BY DEF IInv, TypeOK
<1>1. Idle.pc = "idle" /\ Idle.op = "none"
  BY DEF Idle
<1>2. ASSUME NEW s \in Streams, NEW i \in DOMAIN events'[s],
             events'[s][i].type = "history"
      PROVE  /\ events'[s][i].hash # <<>>
             /\ events'[s][i].hash[Len(events'[s][i].hash)].id = events'[s][i].id
  <2>1. CASE i \in DOMAIN events[s] /\ events'[s][i] = events[s][i]
    BY <1>2, <2>1 DEF ParentsInv
  <2>2. CASE \E r \in Requests : /\ CommitTx(r) /\ s = req[r].stream
                                 /\ events'[s][i] = NewRow(req[r])
    <3>1. PICK r \in Requests : CommitTx(r) /\ s = req[r].stream /\ events'[s][i] = NewRow(req[r])
      BY <2>2
    <3>2. req[r].id \in Ids /\ req[r] \in Local
      BY <1>0, <3>1, CommitFacts
    <3>3. /\ events'[s][i].id = req[r].id
          /\ events'[s][i].hash = ComputeHistoryEventHash(req[r].prev, req[r].id, req[r].deps)
      BY <1>2, <3>1 DEF NewRow, StoredHash
    <3>4. req[r].prev \in Hash /\ req[r].deps \in DepsText
      BY <3>2 DEF Local
    <3>5. QED
      BY <3>2, <3>3, <3>4, HashEnd
  <2>3. QED
    BY <2>1, <2>2, NewRowFrom
<1>3. ASSUME NEW t \in Requests
      PROVE  /\ req'[t].op = "vault" => req'[t].prev = <<>>
             /\ req'[t].pc = "head" => req'[t].op = "revoke"
  <2>1. CASE /\ \/ handleVaultAppend(t) \/ handleHistoryAppend(t)
                \/ handleGrantRevoke(t) \/ handleSyncPush(t)
             /\ req'[t].pc = "open"
    <3>1. CASE handleVaultAppend(t)
      <4>1. PICK s \in Streams, id \in LocalIds, deps \in WireDeps :
               Start(t, "vault", s, "vault", id, deps, <<>>)
        BY <3>1 DEF handleVaultAppend
      <4>2. req'[t].prev = <<>>
        BY <1>0, <4>1 DEF Start
      <4>3. QED
        BY <2>1, <4>2
    <3>2. CASE handleHistoryAppend(t) \/ handleGrantRevoke(t) \/ handleSyncPush(t)
      <4>1. req'[t].op # "vault"
        BY <1>0, <3>2, StartedAs DEF handleHistoryAppend, handleGrantRevoke, handleSyncPush
      <4>2. QED
        BY <2>1, <4>1
    <3>3. QED
      BY <2>1, <3>1, <3>2
  <2>2. CASE Handler(t) /\ req[t].pc # "idle" /\ req'[t].op = req[t].op /\ req'[t] # Idle
    <3>1. CASE WriteBlob(t)
      <4>1. req' = [req EXCEPT ![t].pc = IF req[t].op = "revoke" THEN "head" ELSE "begin"]
        BY <3>1 DEF WriteBlob, Goto
      <4>2. QED
        BY <1>0, <2>2, <4>1 DEF ParentsInv, Local
    <3>2. CASE ReadRevocationHead(t)
      <4>1. req[t].op = "revoke"
        BY <3>2 DEF ReadRevocationHead, ParentsInv
      <4>2. QED
        BY <2>2, <4>1
    <3>3. CASE ~WriteBlob(t) /\ ~ReadRevocationHead(t)
      <4>1. req'[t].pc # "head"
        BY <1>0, <2>2, <3>3, ReachedBy
      <4>2. req'[t].prev = req[t].prev
        <5>1. req[t] \in Local
          BY <1>0
        <5>2. CASE OpenBlob(t)
          <6>1. req'[t] = [req[t] EXCEPT !.pc = "write"]
            BY <1>0, <5>2, LocalFacts
          <6>2. QED
            BY <5>1, <6>1 DEF Local
        <5>3. CASE BeginTx(t)
          <6>1. req'[t] = [req[t] EXCEPT !.pc = "commit", !.snap = commits,
                                        !.seq = NextSeq(req[t].stream)]
            BY <1>0, <5>3, LocalFacts
          <6>2. QED
            BY <5>1, <6>1 DEF Local
        <5>4. CASE CommitTx(t) \/ MarkGrantRevoked(t)
          <6>1. PICK l \in {"mark", "reply"} : req'[t] = [req[t] EXCEPT !.pc = l]
            BY <1>0, <5>4, LocalFacts
          <6>2. QED
            BY <5>1, <6>1 DEF Local
        <5>5. CASE HistoryConflict(t) \/ AlreadyPresent(t) \/ Fail(t) \/ Reply(t)
          BY <1>0, <2>2, <5>5, LocalFacts
        <5>6. QED
          BY <2>2, <3>3, <5>2, <5>3, <5>4, <5>5 DEF Handler, handleVaultAppend,
             handleHistoryAppend, handleGrantRevoke, handleSyncPush, Start
      <4>3. QED
        BY <2>2, <4>1, <4>2 DEF ParentsInv
    <3>4. QED
      BY <3>1, <3>2, <3>3
  <2>3. QED
    BY <1>1, <2>1, <2>2, HandlerMoves DEF ParentsInv
<1>4. QED
  BY <1>2, <1>3 DEF ParentsInv

\* What an event looks like in the log.
EntryOf(row) == [id |-> row.id, chained |-> row.type = "history", parent |-> ParentId(row)]

LogOf(ev) == [s \in Streams |-> [i \in DOMAIN ev[s] |->
                 [id |-> ev[s][i].id, chained |-> ev[s][i].type = "history",
                  parent |-> ParentId(ev[s][i])]]]
LogNow    == LogOf(events)

LogEntry == [id : Ids, chained : BOOLEAN, parent : Ids \cup {NoId}]

LEMMA EntryType ==
    ASSUME NEW row \in Row
    PROVE  EntryOf(row) \in LogEntry
<1>1. row.prev \in Seq([id : Ids, deps : DepsText]) /\ row.id \in Ids
  BY DEF Row, Hash
<1> DEFINE S == [id : Ids, deps : DepsText]
<1>2. row.prev # <<>> => row.prev[Len(row.prev)] \in S
  <2> HIDE DEF S
  <2>1. \A q \in Seq(S) : q # <<>> => Len(q) \in DOMAIN q /\ q[Len(q)] \in S
    BY EmptyIffNoEntry
  <2>2. row.prev \in Seq(S)
    BY <1>1 DEF S
  <2>3. QED
    BY <2>1, <2>2
<1>3. ParentId(row) \in Ids \cup {NoId}
  BY <1>2 DEF ParentId
<1>4. QED
  BY <1>1, <1>3 DEF EntryOf, LogEntry

\* A function on 1 .. n is a sequence of length n.
LEMMA FunctionIsSeq ==
    ASSUME NEW S, NEW n \in Nat, NEW q \in [1 .. n -> S]
    PROVE  q \in Seq(S) /\ Len(q) = n
  OBVIOUS

\* The log has the entries of the rows, stream by stream.
LEMMA LogRows ==
    ASSUME NEW ev \in [Streams -> Seq(Row)], NEW s \in Streams
    PROVE  /\ LogOf(ev)[s] \in Seq(LogEntry) /\ Len(LogOf(ev)[s]) = Len(ev[s])
           /\ DOMAIN LogOf(ev)[s] = DOMAIN ev[s]
           /\ \A i \in DOMAIN ev[s] : LogOf(ev)[s][i] = EntryOf(ev[s][i])
<1>1. ev[s] \in Seq(Row)
  OBVIOUS
<1>2. PICK n \in Nat : n = Len(ev[s]) /\ DOMAIN ev[s] = 1 .. n
  BY <1>1
<1>3. \A i \in 1 .. n : ev[s][i] \in Row
  BY <1>1, <1>2
<1>4. LogOf(ev)[s] = [i \in 1 .. n |-> EntryOf(ev[s][i])]
  BY <1>2 DEF LogOf, EntryOf
<1>5. \A i \in 1 .. n : EntryOf(ev[s][i]) \in LogEntry
  BY <1>3, EntryType
<1>6. LogOf(ev)[s] \in [1 .. n -> LogEntry]
  BY <1>4, <1>5
<1>7. LogOf(ev)[s] \in Seq(LogEntry) /\ Len(LogOf(ev)[s]) = n
  BY <1>6, FunctionIsSeq
<1>8. QED
  BY <1>2, <1>4, <1>7

\* Sequences with the same entries are the same.
LEMMA IsAppend ==
    ASSUME NEW S, NEW q \in Seq(S), NEW e \in S, NEW p \in Seq(S),
           Len(p) = Len(q) + 1, \A i \in 1 .. Len(q) : p[i] = q[i], p[Len(q) + 1] = e
    PROVE  p = Append(q, e)
  OBVIOUS

\* The row of a commit makes an entry of the log.
LEMMA CommitEntry ==
    ASSUME IInv, TypeOK', NEW r \in Requests, CommitTx(r)
    PROVE  EntryOf(NewRow(req[r])) \in LogEntry
<1>0. PICK s \in Streams : s = req[r].stream
  BY CommitFacts
<1>1. PICK n \in Nat : n = Len(events[s])
  BY <1>0, CommitFacts
<1>2. n + 1 \in DOMAIN events'[s] /\ events'[s][n + 1] = NewRow(req[r])
  <2>1. DOMAIN events'[s] = 1 .. (n + 1) /\ events'[s][n + 1] = NewRow(req[r])
    BY <1>0, <1>1, CommitFacts
  <2>2. n + 1 \in 1 .. (n + 1)
    BY <1>1
  <2>3. QED
    BY <2>1, <2>2
<1>3. events' \in [Streams -> Seq(Row)]
  BY DEF TypeOK
<1>4. NewRow(req[r]) \in Row
  BY <1>2, <1>3
<1>5. QED
  BY <1>4, EntryType

\* A commit appends the entry of its row to the log of its stream.
LEMMA CommitLog ==
    ASSUME IInv, TypeOK', NEW r \in Requests, CommitTx(r)
    PROVE  /\ LogNow' = [LogNow EXCEPT ![req[r].stream] = Append(@, EntryOf(NewRow(req[r])))]
           /\ LogNow' # LogNow
<1>0. PICK s \in Streams : s = req[r].stream
  BY CommitFacts
<1>1. TypeOK
  BY DEF IInv
<1>2. PICK n \in Nat : n = Len(events[s]) /\ DOMAIN events[s] = 1 .. n
  BY <1>0, CommitFacts
<1>3. /\ \A t \in Streams \ {s} : events'[t] = events[t]
      /\ DOMAIN events'[s] = 1 .. (n + 1) /\ Len(events'[s]) = n + 1
      /\ \A i \in 1 .. n : events'[s][i] = events[s][i]
      /\ events'[s][n + 1] = NewRow(req[r])
  BY <1>0, <1>2, CommitFacts
<1>4. /\ LogNow[s] \in Seq(LogEntry) /\ Len(LogNow[s]) = n
      /\ \A i \in 1 .. n : LogNow[s][i] = EntryOf(events[s][i])
  BY <1>1, <1>2, LogRows DEF LogNow, TypeOK
<1>5. /\ LogNow'[s] \in Seq(LogEntry) /\ Len(LogNow'[s]) = n + 1
      /\ \A i \in 1 .. (n + 1) : LogNow'[s][i] = EntryOf(events'[s][i])
  BY <1>1, <1>3, LogRows DEF LogNow, TypeOK
<1>6. EntryOf(NewRow(req[r])) \in LogEntry
  BY CommitEntry
<1> DEFINE e == EntryOf(NewRow(req[r]))
<1>7. LogNow'[s] = Append(LogNow[s], e)
  <2> HIDE DEF e
  <2>1. /\ \A i \in 1 .. n : LogNow'[s][i] = LogNow[s][i]
        /\ LogNow'[s][n + 1] = e
    BY <1>2, <1>3, <1>4, <1>5 DEF e
  <2>2. e \in LogEntry
    BY <1>6 DEF e
  <2>3. QED
    BY <1>2, <1>4, <1>5, <2>1, <2>2, IsAppend
<1>8. \A t \in Streams \ {s} : LogNow'[t] = LogNow[t]
  BY <1>3 DEF LogNow, LogOf
<1>9. LogNow' = [LogNow EXCEPT ![s] = Append(@, e)]
  <2> HIDE DEF e
  <2>1. LogNow = [t \in Streams |-> LogNow[t]] /\ LogNow' = [t \in Streams |-> LogNow'[t]]
    BY DEF LogNow, LogOf
  <2>2. QED
    BY <1>7, <1>8, <2>1
<1>10. LogNow' # LogNow
  BY <1>2, <1>4, <1>5
<1>11. QED
  BY <1>0, <1>9, <1>10

\* A chained append names the last event of its stream if that is chained, for
\* the hash compared with the head column ends in that event; a vault append
\* names none.
LEMMA ParentOfAppend ==
    ASSUME IInv, ParentsInv, NEW r \in Requests, CommitTx(r), req[r].op # "push"
    PROVE  ParentId(NewRow(req[r])) =
             IF /\ req[r].type = "history" /\ events[req[r].stream] # <<>>
                /\ events[req[r].stream][Len(events[req[r].stream])].type = "history"
             THEN events[req[r].stream][Len(events[req[r].stream])].id
             ELSE NoId
<1>1. req[r].pc = "commit"
  BY DEF CommitTx
<1>2. NewRow(req[r]).prev = req[r].prev
  BY DEF NewRow
<1>3. CASE req[r].op = "vault"
  <2>1. req[r].type # "history" /\ req[r].prev = <<>>
    BY <1>1, <1>3 DEF IInv, KindsMatch, ParentsInv
  <2>2. QED
    BY <1>2, <2>1 DEF ParentId
<1>4. CASE req[r].op # "vault"
  <2>1. /\ req[r].op \in {"history", "revoke"} /\ req[r].type = "history"
        /\ req[r].stream \in HistoryStreams
    BY <1>1, <1>4 DEF IInv, KindsMatch
  <2>2. PICK s \in HistoryStreams : s = req[r].stream
    BY <2>1
  <2>3. req[r].prev = streams[s].head
    BY <2>1, <2>2, CommitFacts DEF ChecksHead
  <2>4. CASE events[s] = <<>>
    <3>1. req[r].prev = <<>>
      BY <2>3, <2>4 DEF IInv, TablesInv, HeadIsLastEvent, Streams
    <3>2. QED
      BY <1>2, <2>2, <2>4, <3>1 DEF ParentId
  <2>5. CASE events[s] # <<>>
    <3>1. req[r].prev = events[s][Len(events[s])].hash
      BY <2>3, <2>5 DEF IInv, TablesInv, HeadIsLastEvent, Streams
    <3>2. Len(events[s]) \in DOMAIN events[s]
      <4>1. events[s] \in Seq(Row)
        BY DEF IInv, TypeOK, Streams
      <4>2. QED
        BY <2>5, <4>1, EmptyIffNoEntry
    <3>3. PICK last \in Row : last = events[s][Len(events[s])]
      BY <3>2 DEF IInv, TypeOK, Streams
    <3>4. CASE last.type = "history"
      <4>1. req[r].prev # <<>> /\ req[r].prev[Len(req[r].prev)].id = last.id
        BY <3>1, <3>2, <3>3, <3>4 DEF ParentsInv, Streams
      <4>2. QED
        BY <1>2, <2>1, <2>2, <2>5, <3>3, <3>4, <4>1 DEF ParentId
    <3>5. CASE last.type # "history"
      <4>1. last.type = "vault"
        BY <3>5 DEF Row, StreamTypes
      <4>2. req[r].prev = <<>>
        BY <3>1, <3>2, <3>3, <4>1 DEF IInv, TablesInv, RowHashes, Streams
      <4>3. QED
        BY <1>2, <2>2, <2>5, <3>3, <3>5, <4>2 DEF ParentId
    <3>6. QED
      BY <3>4, <3>5
  <2>6. QED
    BY <2>4, <2>5
<1>5. QED
  BY <1>3, <1>4

LEMMA LogIsLog == Log!vars = <<LogNow, acks>>
  BY DEF Log!vars, LogNow, LogOf

\* A commit is one append of the log: AppendChained or AppendPlain for a
\* handler of this hub, Import for a pushed event.
LEMMA CommitIsExtend ==
    ASSUME IInv, TypeOK', ParentsInv, NEW r \in Requests, CommitTx(r)
    PROVE  Log!Next
<1>0. TypeOK
  BY DEF IInv
<1>1. PICK s \in Streams, id \in Ids :
         /\ s = req[r].stream /\ id = req[r].id /\ id \notin StoredIds
  BY CommitFacts
<1>2. PICK parent : parent = ParentId(NewRow(req[r]))
  OBVIOUS
<1> DEFINE chained == req[r].type = "history"
<1>3. EntryOf(NewRow(req[r])) = [id |-> id, chained |-> chained, parent |-> parent]
  BY <1>1, <1>2 DEF EntryOf, NewRow
<1>4. LogNow' = [LogNow EXCEPT ![s] = Append(@, [id |-> id, chained |-> chained,
                                                 parent |-> parent])]
  BY <1>1, <1>3, CommitLog
<1>5. LogNow' # LogNow
  BY CommitLog
<1>6. UNCHANGED acks
  BY DEF CommitTx
<1>7. ~Log!InLog(id)
  <2>1. ASSUME NEW t \in Streams, NEW i \in DOMAIN LogNow[t]
        PROVE  LogNow[t][i].id # id
    <3>1. i \in DOMAIN events[t] /\ LogNow[t][i].id = events[t][i].id
      BY <2>1 DEF LogNow, LogOf
    <3>2. QED
      BY <1>1, <3>1 DEF StoredIds
  <2>2. QED
    BY <2>1 DEF Log!InLog, LogNow, LogOf, Streams, Log!Streams
<1>8. Log!Extend(s, id, chained, parent)
  BY <1>4, <1>6, <1>7 DEF Log!Extend, LogNow, LogOf
<1>9. CASE req[r].op = "push"
  <2>1. id \in {e.id : e \in PeerEvents}
    BY <1>1, <1>9 DEF IInv, KindsMatch, CommitTx, Ids
  <2>2. parent \in Ids \cup {NoId}
    <3>1. EntryOf(NewRow(req[r])) \in LogEntry
      BY <1>0, CommitEntry
    <3>2. QED
      BY <1>3, <3>1 DEF LogEntry
  <2>3. Log!Import(s, id)
    <3>1. PICK c \in BOOLEAN : Log!Extend(s, id, c, parent)
      <4>1. PICK c \in BOOLEAN : c = chained
        OBVIOUS
      <4> HIDE DEF chained
      <4>2. Log!Extend(s, id, c, parent)
        BY <1>8, <4>1 DEF Log!Extend
      <4>3. QED
        BY <4>2
    <3>2. parent \in LocalIds \cup {e.id : e \in PeerEvents} \cup {NoId}
      BY <2>2 DEF Ids
    <3>3. QED
      BY <3>1, <3>2 DEF Log!Import
  <2>4. \E f \in {e.id : e \in PeerEvents} : Log!Import(s, f)
    BY <2>1, <2>3
  <2>5. QED
    BY <1>5, <2>4 DEF Log!Next, LogNow, LogOf, Streams, Log!Streams
<1>10. CASE req[r].op # "push"
  <2>1. id \in LocalIds
    <3>1. req[r].op \in {"vault", "history", "revoke"} /\ req[r].pc = "commit"
      BY <1>10 DEF IInv, KindsMatch, CommitTx
    <3>2. Appending(r)
      BY <3>1 DEF Appending
    <3>3. QED
      BY <1>0, <1>1, <3>2 DEF IInv, FreshIds, TypeOK
  <2>2. parent = IF chained THEN Log!HeadId(s) ELSE NoId
    <3>1. events[s] \in Seq(Row) /\ LogNow[s] \in Seq(LogEntry) /\ Len(LogNow[s]) = Len(events[s])
          /\ \A i \in DOMAIN events[s] : LogNow[s][i] = EntryOf(events[s][i])
      BY <1>0, LogRows DEF LogNow, TypeOK
    <3>2. /\ LogNow[s] = <<>> <=> events[s] = <<>>
          /\ events[s] # <<>> => Len(events[s]) \in DOMAIN events[s]
      <4>1. \A S : \A q \in Seq(S) : q = <<>> <=> Len(q) = 0
        OBVIOUS
      <4>2. QED
        BY <3>1, <4>1, EmptyIffNoEntry
    <3>3. Log!HeadId(s) = IF LogNow[s] = <<>> THEN NoId
                          ELSE IF LogNow[s][Len(LogNow[s])].chained
                               THEN LogNow[s][Len(LogNow[s])].id ELSE NoId
      BY DEF Log!HeadId, LogNow, LogOf
    <3>4. Log!HeadId(s) = IF /\ events[s] # <<>>
                             /\ events[s][Len(events[s])].type = "history"
                          THEN events[s][Len(events[s])].id ELSE NoId
      <4>1. CASE events[s] = <<>>
        BY <3>2, <3>3, <4>1
      <4>2. CASE events[s] # <<>>
        <5>1. /\ LogNow[s][Len(events[s])].id = events[s][Len(events[s])].id
              /\ LogNow[s][Len(events[s])].chained = (events[s][Len(events[s])].type = "history")
          BY <3>2, <4>2 DEF LogNow, LogOf
        <5>2. QED
          BY <3>1, <3>2, <3>3, <4>2, <5>1
      <4>3. QED
        BY <4>1, <4>2
    <3>5. QED
      BY <1>1, <1>2, <1>10, <3>4, ParentOfAppend
  <2>3. Log!AppendChained(s, id) \/ Log!AppendPlain(s, id)
    <3>1. CASE chained
      <4>1. s \in HistoryStreams
        <5>1. req[r].pc = "commit"
          BY DEF CommitTx
        <5>2. QED
          BY <1>1, <1>10, <3>1, <5>1 DEF IInv, KindsMatch
      <4>2. chained = TRUE
        BY <3>1
      <4> HIDE DEF chained
      <4>3. QED
        BY <1>8, <2>2, <4>1, <4>2 DEF Log!AppendChained, Log!Extend
    <3>2. CASE ~chained
      <4>1. chained = FALSE
        BY <3>2
      <4> HIDE DEF chained
      <4>2. QED
        BY <1>8, <2>2, <4>1 DEF Log!AppendPlain, Log!Extend
    <3>3. QED
      BY <3>1, <3>2
  <2>4. QED
    BY <1>5, <2>1, <2>3 DEF Log!Next, LogNow, LogOf, Streams, Log!Streams
<1>11. QED
  BY <1>9, <1>10

\* An answer acknowledges the entry at the position it tells.
LEMMA ReplyIsAcknowledge ==
    ASSUME IInv, NEW r \in Requests, Reply(r), acks' # acks
    PROVE  Log!Next
<1>0. TypeOK
  BY DEF IInv
<1>1. PICK s \in Streams, n \in Nat : s = req[r].stream /\ n = req[r].seq
  BY <1>0 DEF TypeOK, Local
<1>2. n \in DOMAIN events[s] /\ events[s][n].id = req[r].id
  BY <1>1 DEF Reply, IInv, AnswersStored
<1>3. acks' = acks \cup {[id |-> events[s][n].id, stream |-> s, seq |-> n]} /\ events' = events
  BY <1>1, <1>2 DEF Reply
<1>4. /\ DOMAIN LogNow[s] = DOMAIN events[s]
      /\ LogNow[s][n].id = events[s][n].id
      /\ LogNow' = LogNow
  BY <1>2, <1>3 DEF LogNow, LogOf
<1>5. Log!Acknowledge(s, n)
  BY <1>2, <1>3, <1>4 DEF Log!Acknowledge, LogNow, LogOf
<1>6. QED
  BY <1>2, <1>4, <1>5 DEF Log!Next, LogNow, LogOf, Streams, Log!Streams

\* Every step of the hub is a step of the log, or none.
LEMMA LogStep ==
    ASSUME IInv, ParentsInv, [Next]_vars
    PROVE  [Log!Next]_(Log!vars)
<1>0. TypeOK /\ TypeOK'
  BY TypeStep DEF IInv, TablesInv
<1>1. CASE UNCHANGED <<events, acks>>
  <2>1. LogNow' = LogNow
    BY <1>1 DEF LogNow, LogOf
  <2>2. QED
    BY <1>1, <2>1 DEF Log!vars, LogNow, LogOf
<1>2. CASE \E r \in Requests : CommitTx(r)
  BY <1>0, <1>2, CommitIsExtend
<1>3. CASE ~UNCHANGED <<events, acks>> /\ ~\E r \in Requests : CommitTx(r)
  <2>1. PICK r \in Requests : Handler(r)
    BY <1>3 DEF Next, vars, Crash
  <2>2. events' = events /\ acks' # acks
    BY <1>0, <1>3, <2>1, HandlerFrame
  <2>3. Reply(r)
    <3>1. CASE \/ handleVaultAppend(r) \/ handleHistoryAppend(r) \/ handleGrantRevoke(r)
               \/ handleSyncPush(r)
      BY <2>2, <3>1 DEF handleVaultAppend, handleHistoryAppend, handleGrantRevoke,
         handleSyncPush, Start
    <3>2. CASE OpenBlob(r) \/ WriteBlob(r) \/ ReadRevocationHead(r) \/ BeginTx(r)
      BY <2>2, <3>2 DEF OpenBlob, WriteBlob, ReadRevocationHead, BeginTx
    <3>3. CASE \/ HistoryConflict(r) \/ AlreadyPresent(r) \/ CommitTx(r) \/ Fail(r)
               \/ MarkGrantRevoked(r)
      BY <2>2, <3>3 DEF HistoryConflict, AlreadyPresent, CommitTx, Fail, MarkGrantRevoked
    <3>4. QED
      BY <2>1, <3>1, <3>2, <3>3 DEF Handler
  <2>4. QED
    BY <2>2, <2>3, ReplyIsAcknowledge
<1>4. QED
  BY <1>1, <1>2, <1>3

-----------------------------------------------------------------------------
(* Theorems.                                                               *)

\* The empty hub satisfies the inductive invariant.
LEMMA Initially == Init => IInv
<1> SUFFICES ASSUME Init PROVE IInv
  OBVIOUS
<1>1. TypeOK
  BY IdleType, EmptyHash DEF Init, TypeOK
<1>2. \A r \in Requests : req[r].pc = "idle"
  BY DEF Init, Idle
<1>3. \A s \in Streams : events[s] = <<>> /\ streams[s].count = 0 /\ streams[s].head = <<>>
  BY DEF Init
<1>4. TablesInv
  BY <1>3 DEF TablesInv, GapFreeSequence, HeadIsLastEvent, EventsUnique,
              FollowsRowBefore, RowHashes, Streams
<1>5. StoredIds = {}
  BY <1>3 DEF StoredIds
<1>6. QED
  BY <1>1, <1>2, <1>4, <1>5
     DEF Init, IInv, KindsMatch, FreshIds, Appending, SnapshotsHold, AnswersStored,
         AckedEventStored

\* Every step of a handler, and a crash, keeps the inductive invariant.
LEMMA Inductive == IInv /\ [Next]_vars => IInv'
<1> SUFFICES ASSUME IInv, [Next]_vars PROVE IInv'
  OBVIOUS
<1>1. TypeOK'
  BY TypeStep DEF IInv, TablesInv
<1>2. QED
  BY <1>1, TablesStep, KindsStep, FreshStep, SnapshotStep, AnswersStep, AckedStep DEF IInv

\* The inductive invariant of the event store.
THEOREM Invariance == Spec => []IInv
  BY Initially, Inductive, PTL DEF Spec

\* Variables and rows are well typed: an empty causal_dependencies never
\* reaches the column as text.
THEOREM TypeCorrect == Spec => []TypeOK
  BY Invariance, PTL DEF IInv

\* MAX + 1 under WAL snapshots numbers every stream 1, 2, 3, ..., for any
\* number of concurrent handlers.
THEOREM SequencesGapFree == Spec => []GapFreeSequence
<1>1. IInv => GapFreeSequence
  BY DEF IInv, TablesInv
<1>2. QED
  BY <1>1, Invariance, PTL

\* The head columns always describe the last event of the stream.
THEOREM HeadsFresh == Spec => []HeadIsLastEvent
<1>1. IInv => HeadIsLastEvent
  BY DEF IInv, TablesInv
<1>2. QED
  BY <1>1, Invariance, PTL

\* No event is stored twice, whatever peers push again.
THEOREM NoDuplicates == Spec => []EventsUnique
<1>1. IInv => EventsUnique
  BY DEF IInv, TablesInv
<1>2. QED
  BY <1>1, Invariance, PTL

\* A history stream that only history/append wrote passes VerifyHistoryChain.
THEOREM LocalHistoryVerifies == Spec => []AppendedHistoryVerifies
<1>1. IInv => AppendedHistoryVerifies
  <2> SUFFICES ASSUME IInv, NEW s \in HistoryStreams,
                      \A i \in DOMAIN events[s] :
                          AppendedToChain(events[s][i]) /\ events[s][i].deps # "null",
                      NEW i \in DOMAIN events[s]
               PROVE  /\ events[s][i].prev = IF i = 1 THEN <<>> ELSE events[s][i - 1].hash
                      /\ events[s][i].hash =
                           ComputeHistoryEventHash(events[s][i].prev, events[s][i].id,
                                                   CoalesceDeps(events[s][i].deps))
    BY DEF AppendedHistoryVerifies, VerifyHistoryChain
  <2>1. CoalesceDeps(events[s][i].deps) = events[s][i].deps
    BY DEF CoalesceDeps
  <2>2. QED
    BY <2>1 DEF IInv, TablesInv, FollowsRowBefore, RowHashes, AppendedToChain, Streams
<1>2. QED
  BY <1>1, Invariance, PTL

\* An acknowledged append keeps its sequence number for good.
THEOREM AnswersTrue == Spec => []AckedEventStored
  BY Invariance, PTL DEF IInv

\* The invariant of the files and the marks.
THEOREM FilesInvariance == Spec => []FilesInv
<1>1. Init => FilesInv
  <2> SUFFICES ASSUME Init PROVE FilesInv
    OBVIOUS
  <2>1. \A r \in Requests : req[r].pc = "idle" /\ req[r].op = "none"
    BY DEF Init, Idle
  <2>2. \A s \in Streams : DOMAIN events[s] = {}
    BY DEF Init
  <2>3. marked = {}
    BY DEF Init
  <2>4. QED
    BY <2>1, <2>2, <2>3 DEF FilesInv, BlobsInPlace, LocalBlobsWhole, MarksBacked, MarkBackedByHistory
<1>2. IInv /\ FilesInv /\ [Next]_vars => FilesInv'
  <2>1. LocalBlobsWhole' <=> (EchoPush \/ LocalBlobsWhole')
    BY DEF LocalBlobsWhole
  <2>2. QED
    BY <2>1, InPlaceStep, WholeStep, MarksStep DEF FilesInv
<1>3. QED
  BY <1>1, <1>2, Invariance, PTL DEF Spec

\* No crash, failed write or push leaves a row without its blob file, and the
\* files of this hub's own events are whole unless they are pushed back.
THEOREM BlobsOnDisk == Spec => []CommittedBlobOnDisk
<1>1. FilesInv => CommittedBlobOnDisk
  BY DEF FilesInv, BlobsInPlace, LocalBlobsWhole, CommittedBlobOnDisk
<1>2. QED
  BY <1>1, FilesInvariance, PTL

\* A grant is marked revoked only after its revocation event was stored.
THEOREM MarksFollowHistory == Spec => []MarkBackedByHistory
<1>1. FilesInv => MarkBackedByHistory
  BY DEF FilesInv, MarksBacked
<1>2. QED
  BY <1>1, FilesInvariance, PTL

\* A handler that appends to a history stream hangs its event off the last one.
THEOREM ParentsInvariance == Spec => []ParentsInv
<1>1. Init => ParentsInv
  <2> SUFFICES ASSUME Init PROVE ParentsInv
    OBVIOUS
  <2>1. \A r \in Requests : req[r].pc = "idle" /\ req[r].op = "none"
    BY DEF Init, Idle
  <2>2. \A s \in Streams : DOMAIN events[s] = {}
    BY DEF Init
  <2>3. QED
    BY <2>1, <2>2 DEF ParentsInv, Streams
<1>2. QED
  BY <1>1, ParentsStep, Invariance, PTL DEF Spec

\* In the tables of a state of IInv, events that name the same predecessor are
\* the same event, unless a vault event reset the head before the later one.
LEMMA NoForkInTables ==
    ASSUME IInv, ParentsInv, NEW s \in HistoryStreams,
           NEW i \in DOMAIN events[s], NEW j \in DOMAIN events[s],
           i < j, AppendedToChain(events[s][i]), AppendedToChain(events[s][j]),
           events[s][i].prev = events[s][j].prev
    PROVE  events[s][j - 1].type = "vault"
<1>1. s \in Streams /\ events[s] \in Seq(Row)
  BY DEF IInv, TypeOK, Streams
<1>2. /\ i \in Nat /\ j \in Nat /\ j # 1 /\ j - 1 \in DOMAIN events[s]
      /\ i # 1 => i - 1 \in DOMAIN events[s]
      /\ i - 1 # j - 1
  BY <1>1
<1>3. /\ events[s][j].prev = events[s][j - 1].hash
      /\ events[s][i].prev = IF i = 1 THEN <<>> ELSE events[s][i - 1].hash
  BY <1>2 DEF IInv, TablesInv, FollowsRowBefore
<1>4. \A k \in DOMAIN events[s] :
        /\ events[s][k].type \in {"vault", "history"}
        /\ events[s][k].type = "vault" => events[s][k].hash = <<>>
        /\ events[s][k].type = "history" =>
             /\ events[s][k].hash # <<>>
             /\ events[s][k].hash[Len(events[s][k].hash)].id = events[s][k].id
  <2> SUFFICES ASSUME NEW k \in DOMAIN events[s]
               PROVE  /\ events[s][k].type \in {"vault", "history"}
                      /\ events[s][k].type = "vault" => events[s][k].hash = <<>>
                      /\ events[s][k].type = "history" =>
                           /\ events[s][k].hash # <<>>
                           /\ events[s][k].hash[Len(events[s][k].hash)].id = events[s][k].id
    OBVIOUS
  <2>1. events[s][k] \in Row
    BY <1>1
  <2>2. events[s][k].type \in {"vault", "history"}
    BY <2>1 DEF Row, StreamTypes
  <2>3. events[s][k].type = "vault" => events[s][k].hash = <<>>
    BY <1>1 DEF IInv, TablesInv, RowHashes
  <2>4. events[s][k].type = "history" =>
             /\ events[s][k].hash # <<>>
             /\ events[s][k].hash[Len(events[s][k].hash)].id = events[s][k].id
    BY <1>1 DEF ParentsInv
  <2>5. QED
    BY <2>2, <2>3, <2>4
<1> SUFFICES ASSUME events[s][j - 1].type = "history" PROVE FALSE
  BY <1>2, <1>4
<1>5. i # 1 /\ events[s][i - 1].hash = events[s][j - 1].hash /\ events[s][j - 1].hash # <<>>
  BY <1>2, <1>3, <1>4
<1>6. events[s][i - 1].id = events[s][j - 1].id
  BY <1>2, <1>4, <1>5
<1>7. QED
  BY <1>1, <1>2, <1>5, <1>6 DEF IInv, TablesInv, EventsUnique

\* Appends to the chain of a history stream hang off the row before them; two
\* with the same predecessor are both stored only across a vault event.
THEOREM ChainExtends == Spec => []AppendExtendsChain
<1>1. IInv /\ ParentsInv => AppendExtendsChain
  <2> SUFFICES ASSUME IInv, ParentsInv PROVE AppendExtendsChain
    OBVIOUS
  <2>1. FollowsRowBefore
    BY DEF IInv, TablesInv
  <2>2. QED
    BY <2>1, NoForkInTables DEF AppendExtendsChain
<1>2. QED
  BY <1>1, Invariance, ParentsInvariance, PTL

\* Blob write, transaction and answer of any number of handlers behave like a
\* log with one atomic append.
THEOREM Refinement == Spec => ImplementsStreamLog
<1>1. Init => Log!Init
  BY DEF Init, Log!Init, Log!Streams, Streams
<1>2. QED
  BY <1>1, LogStep, Invariance, ParentsInvariance, PTL DEF Spec, ImplementsStreamLog, Log!Spec

=============================================================================
