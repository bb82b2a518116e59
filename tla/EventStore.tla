----------------------------- MODULE EventStore -----------------------------
(***************************************************************************)
(* The event store of one nakli-hub: the blob files on disk, the `events`  *)
(* and `streams` tables, and the four handlers that write them (vault      *)
(* append, history append, grant revoke, sync push).  A handler is a       *)
(* goroutine: it writes the blob file, then runs one SQLite transaction,   *)
(* then answers; handlers interleave between any two of these steps and a  *)
(* crash may stop all of them at once.                                     *)
(*                                                                         *)
(* Data abstraction.  An event id stands for the event's ciphertext too:   *)
(* an id is minted once for one ciphertext, so a blob file is missing,     *)
(* torn (truncated or partly written) or whole.  SHA-256 is injective:     *)
(* the hash of an event is the sequence of everything hashed into it.      *)
(***************************************************************************)
EXTENDS Naturals, Sequences, FiniteSetsExt

CONSTANTS
    VaultStreams,     \* streams of the other namespaces
    HistoryStreams,   \* streams of the namespace "__history"
    Revocations,      \* the history stream "revocations" of grant/revoke
    Requests,         \* handler goroutines
    LocalIds,         \* ULIDs this hub can mint (bounds the run)
    DepsLists,        \* non-empty causal_dependencies a client may send
    PeerEvents,       \* events a peer hub minted and may push here
    EchoPush,         \* TRUE: a peer may push back an event it pulled here
    MaxCrashes,       \* bound on crashes
    NoId              \* the NULL of head_event_id

Streams == VaultStreams \cup HistoryStreams
Ids     == LocalIds \cup {e.id : e \in PeerEvents}

(* Renderings of causal_dependencies.  A list from the wire goes through   *)
(* jsonStringArray and is never empty text; the revoke handler leaves the  *)
(* field "" instead.  "null" is the column's NULL.                         *)
WireDeps   == {"[]"} \cup DepsLists
DepsText   == {""} \cup WireDeps
DepsColumn == {"null"} \cup WireDeps

\* Mutant: the empty field is written as it is.
plainString(text) == text

nullableString(text) == IF text = "" THEN "null" ELSE text
CoalesceDeps(column) == IF column = "null" THEN "[]" ELSE column

\* The column stream_type of an event says who appended it, not where: a
\* vault/append may go to any stream of "__history", too.
StreamTypes == {"vault", "history"}

Hash == Seq([id : Ids, deps : DepsText])

ComputeHistoryEventHash(prev, id, deps) == Append(prev, [id |-> id, deps |-> deps])

ASSUME StreamAssumption == Revocations \in HistoryStreams

ASSUME IdAssumption ==
    /\ NoId \notin Ids
    /\ \A e \in PeerEvents : e.id \notin LocalIds

ASSUME PeerAssumption ==
    /\ PeerEvents \subseteq [id : Ids, stream : Streams, type : StreamTypes,
                           prev : Hash, deps : WireDeps]
    /\ EchoPush \in BOOLEAN
    /\ MaxCrashes \in Nat

ASSUME DepsAssumption ==
    /\ DepsLists \subseteq STRING
    /\ DepsLists \cap {"", "null"} = {}

VARIABLES
    blobs,     \* [Ids -> file state]: the files under blobs/
    events,    \* [Streams -> Seq(Row)]: table events, in insertion order
    streams,   \* [Streams -> head]: table streams (count 0: no row)
    commits,   \* number of committed transactions, the WAL snapshot version
    marked,    \* ids of revocation events whose grant MarkGrantRevoked marked
    minted,    \* ULIDs handed out
    req,       \* [Requests -> local state of a handler]
    acks,      \* success answers that reached a client
    crashes

vars == <<blobs, events, streams, commits, marked, minted, req, acks, crashes>>

Row == [id : Ids, type : StreamTypes, seq : Nat, prev : Hash, hash : Hash,
        deps : DepsColumn]

Idle == [pc |-> "idle", op |-> "none", stream |-> Revocations, type |-> "history",
         id |-> NoId, deps |-> "", prev |-> <<>>, snap |-> 0, seq |-> 0]

Labels == {"idle", "open", "write", "head", "begin", "commit", "mark", "reply"}

\* The local variables of a handler.
Local == [pc     : Labels,
          op     : {"none", "vault", "history", "revoke", "push"},
          stream : Streams,
          type   : StreamTypes,
          id     : Ids \cup {NoId},
          deps   : DepsText,
          prev   : Hash,     \* previous_event_hash the append goes with
          snap   : Nat,      \* snapshot its transaction reads
          seq    : Nat]      \* sequence number it computed

TypeOK ==
    /\ blobs \in [Ids -> {"missing", "torn", "whole"}]
    /\ events \in [Streams -> Seq(Row)]
    /\ streams \in [Streams -> [headId : Ids \cup {NoId}, head : Hash, count : Nat]]
    /\ commits \in Nat
    /\ marked \subseteq Ids
    /\ minted \subseteq LocalIds
    /\ req \in [Requests -> Local]
    /\ acks \subseteq [id : Ids, stream : Streams, seq : Nat]
    /\ crashes \in Nat

Init ==
    /\ blobs = [i \in Ids |-> "missing"]
    /\ events = [s \in Streams |-> <<>>]
    /\ streams = [s \in Streams |-> [headId |-> NoId, head |-> <<>>, count |-> 0]]
    /\ commits = 0
    /\ marked = {}
    /\ minted = {}
    /\ req = [r \in Requests |-> Idle]
    /\ acks = {}
    /\ crashes = 0

-----------------------------------------------------------------------------
(* Table lookups.                                                          *)

StoredIds == UNION {{events[s][i].id : i \in DOMAIN events[s]} : s \in Streams}

\* COALESCE(MAX(sequence_number), 0) + 1 of one stream.
NextSeq(s) == Max({0} \cup {events[s][i].seq : i \in DOMAIN events[s]}) + 1

\* The hashes a client can have learnt of a stream: none, or one it was
\* answered or read.
KnownHeads(s) == {<<>>} \cup {events[s][i].hash : i \in DOMAIN events[s]}

\* What a peer may push: an event of its own or one it pulled from here.
Pushable ==
    PeerEvents \cup
    (IF EchoPush
     THEN UNION {{[id |-> events[s][i].id, stream |-> s, type |-> events[s][i].type,
                   prev |-> events[s][i].prev,
                   deps |-> CoalesceDeps(events[s][i].deps)] : i \in DOMAIN events[s]}
                 : s \in Streams}
     ELSE {})

-----------------------------------------------------------------------------
(* Entry of the handlers: validation and authorisation have passed, a      *)
(* fresh ULID is taken (push keeps the peer's) and the blob write follows. *)

Start(r, op, s, type, id, deps, prev) ==
    /\ req[r].pc = "idle"
    /\ req' = [req EXCEPT ![r] = [pc |-> "open", op |-> op, stream |-> s, type |-> type,
                                  id |-> id, deps |-> deps, prev |-> prev,
                                  snap |-> 0, seq |-> 0]]
    /\ UNCHANGED <<blobs, events, streams, commits, marked, acks, crashes>>

MintId(id) ==
    /\ id \in LocalIds \ minted
    /\ minted' = minted \cup {id}

\* Only three fabric.* namespaces are refused: "__history" is not.
handleVaultAppend(r) ==
    \E s \in Streams, id \in LocalIds, deps \in WireDeps :
        /\ MintId(id)
        /\ Start(r, "vault", s, "vault", id, deps, <<>>)

handleHistoryAppend(r) ==
    \E s \in HistoryStreams, id \in LocalIds, deps \in WireDeps :
        \E prev \in KnownHeads(s) :
            /\ MintId(id)
            /\ Start(r, "history", s, "history", id, deps, prev)

handleGrantRevoke(r) ==
    \E id \in LocalIds :
        /\ MintId(id)
        /\ Start(r, "revoke", Revocations, "history", id, "", <<>>)

\* One element of the pushed array; its claimed hash is absent or right (a
\* wrong one is skipped before anything is written).
handleSyncPush(r) ==
    \E e \in Pushable :
        /\ Start(r, "push", e.stream, e.type, e.id, e.deps, e.prev)
        /\ UNCHANGED minted

-----------------------------------------------------------------------------
(* Store.WriteBlob: open with O_TRUNC, then write in place.                *)

Goto(r, label) == req' = [req EXCEPT ![r].pc = label]

\* Mutant: the error of WriteBlob is dropped and the handler goes on.
OpenBlobFailed(r) ==
    /\ req[r].pc = "open"
    /\ Goto(r, IF req[r].op = "revoke" THEN "head" ELSE "begin")
    /\ UNCHANGED <<blobs, events, streams, commits, marked, minted, acks, crashes>>

OpenBlob(r) ==
    /\ req[r].pc = "open"
    /\ blobs' = [blobs EXCEPT ![req[r].id] = "torn"]
    /\ Goto(r, "write")
    /\ UNCHANGED <<events, streams, commits, marked, minted, acks, crashes>>

WriteBlob(r) ==
    /\ req[r].pc = "write"
    /\ blobs' = [blobs EXCEPT ![req[r].id] = "whole"]
    /\ Goto(r, IF req[r].op = "revoke" THEN "head" ELSE "begin")
    /\ UNCHANGED <<events, streams, commits, marked, minted, acks, crashes>>

\* The revoke handler reads the head outside the transaction that appends; a
\* failed read is not noticed and leaves the empty hash.
ReadRevocationHead(r) ==
    /\ req[r].pc = "head"
    /\ \E prev \in {<<>>, streams[Revocations].head} :
          req' = [req EXCEPT ![r] = [@ EXCEPT !.pc = "begin", !.prev = prev]]
    /\ UNCHANGED <<blobs, events, streams, commits, marked, minted, acks, crashes>>

-----------------------------------------------------------------------------
(* The transaction of AppendEvent, AppendHistoryEvent and IngestEvent.     *)
(* SQLite in WAL mode: a deferred transaction reads the snapshot of its    *)
(* first SELECT and may write only while no one committed since.  (So the  *)
(* PRIMARY KEY on event_id never decides: a snapshot with the id present   *)
(* is seen by the existence check, and a fresh ULID is nobody else's.)     *)

ChecksHead(r) == req[r].op \in {"history", "revoke"}

TakeSnapshot(r) ==
    req' = [req EXCEPT ![r] = [@ EXCEPT !.pc = "commit", !.snap = commits,
                                        !.seq = NextSeq(req[r].stream)]]

\* Mutant: the appended hash is not compared with the head.
BeginTxUnchained(r) ==
    /\ req[r].pc = "begin"
    /\ req[r].op = "push" => req[r].id \notin StoredIds
    /\ TakeSnapshot(r)
    /\ UNCHANGED <<blobs, events, streams, commits, marked, minted, acks, crashes>>

\* Mutant: a pushed event is inserted without looking for it.
BeginTxUnchecked(r) ==
    /\ req[r].pc = "begin"
    /\ ChecksHead(r) => req[r].prev = streams[req[r].stream].head
    /\ TakeSnapshot(r)
    /\ UNCHANGED <<blobs, events, streams, commits, marked, minted, acks, crashes>>

BeginTx(r) ==
    /\ req[r].pc = "begin"
    /\ ChecksHead(r) => req[r].prev = streams[req[r].stream].head
    /\ req[r].op = "push" => req[r].id \notin StoredIds
    /\ TakeSnapshot(r)
    /\ UNCHANGED <<blobs, events, streams, commits, marked, minted, acks, crashes>>

\* ErrHistoryConflict: rolled back and answered 409 (500 from revoke).
HistoryConflict(r) ==
    /\ req[r].pc = "begin"
    /\ ChecksHead(r)
    /\ req[r].prev # streams[req[r].stream].head
    /\ req' = [req EXCEPT ![r] = Idle]
    /\ UNCHANGED <<blobs, events, streams, commits, marked, minted, acks, crashes>>

\* ErrAlreadyPresent: the pushed event is skipped.
AlreadyPresent(r) ==
    /\ req[r].pc = "begin"
    /\ req[r].op = "push"
    /\ req[r].id \in StoredIds
    /\ req' = [req EXCEPT ![r] = Idle]
    /\ UNCHANGED <<blobs, events, streams, commits, marked, minted, acks, crashes>>

\* Mutant: the previous hash is left out of the digest.
StoredHashUnlinked(q) ==
    IF q.type = "history"
    THEN ComputeHistoryEventHash(<<>>, q.id, q.deps)
    ELSE <<>>

\* The hash stored with an event, and set as the head of its stream: none
\* for a vault event, whichever stream it goes to.
StoredHash(q) ==
    IF q.type = "history"
    THEN ComputeHistoryEventHash(q.prev, q.id, q.deps)
    ELSE <<>>

NewRow(q) == [id |-> q.id, type |-> q.type, seq |-> q.seq, prev |-> q.prev,
              hash |-> StoredHash(q), deps |-> nullableString(q.deps)]

\* Mutant: the statements run outside a transaction.
CommitUnserialized(r) ==
    LET q == req[r] IN
    /\ q.pc = "commit"
    /\ events' = [events EXCEPT ![q.stream] = Append(@, NewRow(q))]
    /\ streams' = [streams EXCEPT ![q.stream] =
                      [headId |-> q.id, head |-> StoredHash(q), count |-> @.count + 1]]
    /\ commits' = commits + 1
    /\ Goto(r, IF q.op = "revoke" THEN "mark" ELSE "reply")
    /\ UNCHANGED <<blobs, marked, minted, acks, crashes>>

\* Mutant: the head columns are set by the first append only.
CommitKeepsHead(r) ==
    LET q == req[r] IN
    /\ q.pc = "commit"
    /\ q.snap = commits
    /\ events' = [events EXCEPT ![q.stream] = Append(@, NewRow(q))]
    /\ streams' = [streams EXCEPT ![q.stream] =
                      IF @.count = 0
                      THEN [headId |-> q.id, head |-> StoredHash(q), count |-> 1]
                      ELSE [@ EXCEPT !.count = @ + 1]]
    /\ commits' = commits + 1
    /\ Goto(r, IF q.op = "revoke" THEN "mark" ELSE "reply")
    /\ UNCHANGED <<blobs, marked, minted, acks, crashes>>

CommitTx(r) ==
    LET q == req[r] IN
    /\ q.pc = "commit"
    /\ q.snap = commits
    /\ events' = [events EXCEPT ![q.stream] = Append(@, NewRow(q))]
    /\ streams' = [streams EXCEPT ![q.stream] =
                      [headId |-> q.id, head |-> StoredHash(q), count |-> @.count + 1]]
    /\ commits' = commits + 1
    /\ Goto(r, IF q.op = "revoke" THEN "mark" ELSE "reply")
    /\ UNCHANGED <<blobs, marked, minted, acks, crashes>>

\* Mutant: no return after the error answer of revoke.
FailStillMarks(r) ==
    /\ req[r].pc \in {"open", "write", "begin", "commit"}
    /\ req' = [req EXCEPT ![r] = IF @.op = "revoke" THEN [@ EXCEPT !.pc = "mark"] ELSE Idle]
    /\ UNCHANGED <<blobs, events, streams, commits, marked, minted, acks, crashes>>

\* Mutant: no return after the error answer; the success answer follows.
FailStillReplies(r) ==
    /\ req[r].pc \in {"open", "write", "begin", "commit"}
    /\ Goto(r, "reply")
    /\ UNCHANGED <<blobs, events, streams, commits, marked, minted, acks, crashes>>

\* A blob write or a statement fails: disk error, SQLITE_BUSY (the snapshot
\* is stale, or another connection wrote any table) or a cancelled request
\* context.  The client is answered 500; a push counts the event skipped.
Fail(r) ==
    /\ req[r].pc \in {"open", "write", "begin", "commit"}
    /\ req' = [req EXCEPT ![r] = Idle]
    /\ UNCHANGED <<blobs, events, streams, commits, marked, minted, acks, crashes>>

\* MarkGrantRevoked; its error is dropped and the answer is 200 either way.
MarkGrantRevoked(r) ==
    /\ req[r].pc = "mark"
    /\ marked' \in {marked, marked \cup {req[r].id}}
    /\ Goto(r, "reply")
    /\ UNCHANGED <<blobs, events, streams, commits, minted, acks, crashes>>

Reply(r) ==
    /\ req[r].pc = "reply"
    /\ acks' = IF req[r].op = "push" THEN acks
               ELSE acks \cup {[id |-> req[r].id, stream |-> req[r].stream,
                                seq |-> req[r].seq]}
    /\ req' = [req EXCEPT ![r] = Idle]
    /\ UNCHANGED <<blobs, events, streams, commits, marked, minted, crashes>>

\* The process dies and restarts: every handler is lost, files and committed
\* rows stay as they are.
Crash ==
    /\ crashes < MaxCrashes
    /\ \E r \in Requests : req[r].pc # "idle"
    /\ req' = [r \in Requests |-> Idle]
    /\ crashes' = crashes + 1
    /\ UNCHANGED <<blobs, events, streams, commits, marked, minted, acks>>

Handler(r) ==
    \/ handleVaultAppend(r)
    \/ handleHistoryAppend(r)
    \/ handleGrantRevoke(r)
    \/ handleSyncPush(r)
    \/ OpenBlob(r)
    \/ WriteBlob(r)
    \/ ReadRevocationHead(r)
    \/ BeginTx(r)
    \/ HistoryConflict(r)
    \/ AlreadyPresent(r)
    \/ CommitTx(r)
    \/ Fail(r)
    \/ MarkGrantRevoked(r)
    \/ Reply(r)

Next == Crash \/ \E r \in Requests : Handler(r)

Spec == Init /\ [][Next]_vars

-----------------------------------------------------------------------------
(* What the store promises.                                                *)

\* VerifyHistoryChain: every row's previous_event_hash is the hash of the row
\* before it and recomputing its hash from the columns gives event_hash.
VerifyHistoryChain(s) ==
    \A i \in DOMAIN events[s] :
        LET row == events[s][i] IN
        /\ row.prev = IF i = 1 THEN <<>> ELSE events[s][i - 1].hash
        /\ row.hash = ComputeHistoryEventHash(row.prev, row.id, CoalesceDeps(row.deps))

\* Sequence numbers of a stream are 1, 2, 3, ... in insertion order, although
\* every handler computes MAX + 1 before other handlers commit (AppendEvent).
GapFreeSequence ==
    \A s \in Streams : \A i \in DOMAIN events[s] : events[s][i].seq = i

\* The head columns of a stream always describe its last event: the head that
\* the next history append is compared with is never stale.
HeadIsLastEvent ==
    \A s \in Streams :
        /\ streams[s].count = Len(events[s])
        /\ events[s] # <<>> =>
              LET last == events[s][Len(events[s])] IN
              /\ streams[s].headId = last.id
              /\ streams[s].head = last.hash
        /\ events[s] = <<>> => streams[s].head = <<>>

\* No event is stored twice, whatever a peer pushes again or two handlers push
\* at once (IngestEvent's existence check).
EventsUnique ==
    \A s, t \in Streams : \A i \in DOMAIN events[s], j \in DOMAIN events[t] :
        events[s][i].id = events[t][j].id => s = t /\ i = j

\* An event of history/append or grant/revoke here.
AppendedToChain(row) == row.id \in LocalIds /\ row.type = "history"

\* An event appended to the chain goes with the hash of the row right before
\* it, which a vault event leaves empty.
FollowsRowBefore ==
    \A s \in HistoryStreams : \A i \in DOMAIN events[s] :
        AppendedToChain(events[s][i]) =>
            events[s][i].prev = IF i = 1 THEN <<>> ELSE events[s][i - 1].hash

\* An event appended to the chain hangs off the row before it, and of two
\* appends with the same previous_event_hash both are stored only if a vault
\* event came in between and reset the head: otherwise one is answered 409.
AppendExtendsChain ==
    /\ FollowsRowBefore
    /\ \A s \in HistoryStreams : \A i, j \in DOMAIN events[s] :
          /\ i < j
          /\ AppendedToChain(events[s][i]) /\ AppendedToChain(events[s][j])
          /\ events[s][i].prev = events[s][j].prev
          => events[s][j - 1].type = "vault"

\* A history stream written only by history/append always verifies.
AppendedHistoryVerifies ==
    \A s \in HistoryStreams :
        (\A i \in DOMAIN events[s] :
            AppendedToChain(events[s][i]) /\ events[s][i].deps # "null")
        => VerifyHistoryChain(s)

\* A committed event has its blob file, so a crash between the file and the
\* row leaves an orphan file but never a row that fails the whole read; and
\* unless peers push this hub's events back, the file is complete.
CommittedBlobOnDisk ==
    \A s \in Streams : \A i \in DOMAIN events[s] :
        LET id == events[s][i].id IN
        /\ blobs[id] # "missing"
        /\ ~EchoPush /\ id \in LocalIds => blobs[id] = "whole"

\* An acknowledged append is stored at the sequence number it was answered
\* with, for good, across crashes.
AckedEventStored ==
    \A a \in acks :
        /\ a.seq \in DOMAIN events[a.stream]
        /\ events[a.stream][a.seq].id = a.id

\* A grant is marked revoked only with a revocation event in the history.
MarkBackedByHistory ==
    \A id \in marked : \E i \in DOMAIN events[Revocations] :
        events[Revocations][i].id = id

-----------------------------------------------------------------------------
(* The inductive invariant: what the tables and the handlers' local data   *)
(* have to do with each other at every step.                               *)

Appending(r) ==
    /\ req[r].op \in {"vault", "history", "revoke"}
    /\ req[r].pc \in {"open", "write", "head", "begin", "commit"}

\* A handler writes events of its type: history ones only in "__history",
\* vault ones anywhere, and a pushed one of this hub is stored already.
KindsMatch ==
    \A r \in Requests : req[r].pc # "idle" =>
        /\ req[r].id \in Ids
        /\ \/ req[r].op = "vault" /\ req[r].type = "vault"
           \/ /\ req[r].op \in {"history", "revoke"} /\ req[r].type = "history"
              /\ req[r].stream \in HistoryStreams
           \/ req[r].op = "push" /\ (req[r].id \in LocalIds => req[r].id \in StoredIds)

\* A ULID being appended is in no row and in no other append.
FreshIds ==
    /\ \A r \in Requests : Appending(r) =>
          /\ req[r].id \in minted
          /\ req[r].id \notin StoredIds
          /\ \A t \in Requests \ {r} : Appending(t) => req[t].id # req[r].id
    /\ \A id \in LocalIds : id \in StoredIds => id \in minted

\* What a transaction read is true for as long as it may commit.
SnapshotsHold ==
    \A r \in Requests : req[r].pc = "commit" =>
        /\ req[r].snap <= commits
        /\ req[r].snap = commits =>
              /\ req[r].seq = Len(events[req[r].stream]) + 1
              /\ ChecksHead(r) => req[r].prev = streams[req[r].stream].head
              /\ req[r].op = "push" => req[r].id \notin StoredIds

\* A handler about to answer has its event stored where the answer says.
AnswersStored ==
    \A r \in Requests : req[r].pc \in {"mark", "reply"} =>
        /\ req[r].seq \in DOMAIN events[req[r].stream]
        /\ events[req[r].stream][req[r].seq].id = req[r].id

\* A vault event has no hash; the hash of a history event is the hash of its
\* stored columns, except for the rows of grant/revoke, whose
\* causal_dependencies column is NULL.
RowHashes ==
    \A s \in Streams : \A i \in DOMAIN events[s] :
        LET row == events[s][i] IN
        /\ row.type = "vault" => row.hash = <<>>
        /\ row.type = "history" /\ row.deps # "null" =>
              row.hash = ComputeHistoryEventHash(row.prev, row.id, row.deps)

TablesInv ==
    /\ GapFreeSequence
    /\ HeadIsLastEvent
    /\ EventsUnique
    /\ FollowsRowBefore
    /\ RowHashes

\* Holds in every reachable state and is preserved by every step.
IInv ==
    /\ TypeOK
    /\ TablesInv
    /\ KindsMatch
    /\ FreshIds
    /\ SnapshotsHold
    /\ AnswersStored
    /\ AckedEventStored

-----------------------------------------------------------------------------
(* What the repository's text says and the code does not keep.             *)

\* history/verify reports every stream the handlers wrote as verified, the
\* revocations stream of grant/revoke included.
RevocationsVerify == VerifyHistoryChain(Revocations)

-----------------------------------------------------------------------------
(* The abstract log: an append is one atomic step.                         *)

ParentId(row) == IF row.prev = <<>> THEN NoId ELSE row.prev[Len(row.prev)].id

Log == INSTANCE StreamLog WITH
    Foreign <- {e.id : e \in PeerEvents},
    log <- [s \in Streams |-> [i \in DOMAIN events[s] |->
               [id |-> events[s][i].id, chained |-> events[s][i].type = "history",
                parent |-> ParentId(events[s][i])]]],
    acked <- acks

\* The handlers implement the atomic log.
ImplementsStreamLog == Log!Spec

=============================================================================
