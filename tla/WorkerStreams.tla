---------------------------- MODULE WorkerStreams ----------------------------
(***************************************************************************)
(* The Cloudflare Worker hub's streams: vault/append, history/append and   *)
(* grant/revoke over a key-value store (KV) that has neither transactions  *)
(* nor a compare-and-set and that edges read through caches of their own,  *)
(* and an object store (R2) for the payloads.  A handler is suspended at   *)
(* every access to a store; the isolate that runs it may be discarded.     *)
(*                                                                         *)
(* The hash of a history event covers its id, so its hash is its id here;  *)
(* 0 is the empty hash, the one of every vault event.  Of the caches only  *)
(* the keys that handlers read are kept; principals and the idempotency    *)
(* records are left out.                                                   *)
(***************************************************************************)
EXTENDS Naturals, FiniteSets, FiniteSetsExt

CONSTANTS
    VaultStreams,   \* streams of the other namespaces
    HistoryStreams, \* streams of the namespace "__history__"
    Revocations,    \* the stream grant/revoke appends to
    Grants,         \* grants that clients use and revoke
    Edges,          \* locations of the network
    Requests,       \* handlers
    EdgeOf,         \* [Requests -> Edges], where a handler runs
    MaxAppends,     \* bound on events
    MaxCrashes      \* bound on isolates discarded

Streams == VaultStreams \cup HistoryStreams

ASSUME WorkerAssumption ==
    /\ Revocations \in HistoryStreams
    /\ EdgeOf \in [Requests -> Edges]
    /\ MaxAppends \in Nat /\ MaxCrashes \in Nat

VARIABLES
    stream,    \* KV stream:*, [Streams -> [count, head]]; count 0: no record
    entry,     \* KV event_index:*, [Streams -> [sequence number -> record or none]]
    blobs,     \* R2: event ids whose payload is stored
    revoked,   \* KV grant:*, grants with revoked_at
    view,      \* [Edges -> what the edge's cache has of `stream` and `revoked`]
    req,       \* [Requests -> local state]
    acked,     \* events clients were told of
    told,      \* grants whose revocation clients were told of
    raced,     \* history: streams two appends touched at once, or one with
               \* an old record
    nextId, crashes

kvVars  == <<stream, entry, blobs, revoked>>
logVars == <<acked, told, raced, nextId, crashes>>
vars == <<kvVars, view, req, logVars>>

EventIds == 1..MaxAppends
Hashes   == 0..MaxAppends
Record   == [count : 0..MaxAppends, head : Hashes]
Entry    == [id : EventIds, hash : Hashes, base : Hashes]   \* base: the head it was put on

Local    == [pc : {"idle", "head", "stream", "blob", "entry", "record", "mark", "answer"},
             type : {"vault", "history"}, stream : Streams, target : SUBSET Grants,
             prev : Hashes, rec : Record, id : Hashes]
Cache    == [stream : [Streams -> Record], revoked : SUBSET Grants]

Idle == [pc |-> "idle", type |-> "history", stream |-> Revocations, target |-> {},
         prev |-> 0, rec |-> [count |-> 0, head |-> 0], id |-> 0]

TypeOK ==
    /\ stream \in [Streams -> Record]
    /\ entry \in [Streams -> [1..MaxAppends -> SUBSET Entry]]
    /\ \A s \in Streams : \A n \in EventIds : Cardinality(entry[s][n]) <= 1
    /\ blobs \subseteq EventIds /\ revoked \subseteq Grants
    /\ view \in [Edges -> Cache]
    /\ req \in [Requests -> Local]
    /\ acked \subseteq [stream : Streams, seq : EventIds, id : EventIds]
    /\ told \subseteq Grants /\ raced \subseteq Streams

Init ==
    /\ stream = [s \in Streams |-> [count |-> 0, head |-> 0]]
    /\ entry = [s \in Streams |-> [n \in EventIds |-> {}]]
    /\ blobs = {} /\ revoked = {}
    /\ view = [e \in Edges |-> [stream |-> stream, revoked |-> {}]]
    /\ req = [r \in Requests |-> Idle]
    /\ acked = {} /\ told = {} /\ raced = {}
    /\ nextId = 1 /\ crashes = 0

View(r)   == view[EdgeOf[r]]
At(r, pc) == req[r].pc = pc
Goto(r, pc) == req' = [req EXCEPT ![r].pc = pc]

-----------------------------------------------------------------------------
(* Requests arrive.                                                        *)

\* authenticate: the revocation check reads the edge's cache.
authenticate(r, g) == g \notin View(r).revoked

\* Only namespaces that start with "fabric." are refused: "__history__" is not.
handleVaultAppend(r, g) ==
    /\ At(r, "idle") /\ authenticate(r, g)
    /\ \E s \in Streams :
          req' = [req EXCEPT ![r] = [Idle EXCEPT !.pc = "stream", !.type = "vault", !.stream = s]]
    /\ UNCHANGED <<kvVars, view, logVars>>

\* The client sends the head it knows: empty, or the hash of an event (the id
\* of a vault event is nobody's hash and is refused).
handleHistoryAppend(r, g) ==
    /\ At(r, "idle") /\ authenticate(r, g)
    /\ \E s \in HistoryStreams : \E prev \in {0} \cup {a.id : a \in {b \in acked : b.stream = s}} :
          req' = [req EXCEPT ![r] = [Idle EXCEPT !.pc = "stream", !.stream = s, !.prev = prev]]
    /\ UNCHANGED <<kvVars, view, logVars>>

\* Any holder of a grant may name any grant id.
handleGrantRevoke(r, g) ==
    /\ At(r, "idle") /\ authenticate(r, g)
    /\ \E t \in Grants :
          req' = [req EXCEPT ![r] = [Idle EXCEPT !.pc = "head", !.target = {t}]]
    /\ UNCHANGED <<kvVars, view, logVars>>

\* The head the revocation event will claim to follow.
ReadRevocationHead(r) ==
    /\ At(r, "head")
    /\ req' = [req EXCEPT ![r].pc = "stream", ![r].prev = View(r).stream[Revocations].head]
    /\ UNCHANGED <<kvVars, view, logVars>>

-----------------------------------------------------------------------------
(* appendEvent.                                                            *)

Appending(s) == {r \in Requests : req[r].stream = s /\ req[r].pc \in {"blob", "entry", "record"}}

\* The stream record is read through the cache; a history append whose
\* previous_event_hash is not its head is refused (409).
getStream(r) ==
    /\ At(r, "stream") /\ nextId <= MaxAppends
    /\ LET s   == req[r].stream
           rec == View(r).stream[s]
       IN  IF req[r].type = "history" /\ req[r].prev # rec.head
           THEN /\ req' = [req EXCEPT ![r] = Idle]
                /\ UNCHANGED <<raced, nextId>>
           ELSE /\ req' = [req EXCEPT ![r].pc = "blob", ![r].rec = rec, ![r].id = nextId]
                /\ nextId' = nextId + 1
                /\ raced' = IF Appending(s) # {} \/ rec # stream[s] THEN raced \cup {s} ELSE raced
    /\ UNCHANGED <<kvVars, view, acked, told, crashes>>

NextSeq(r) == req[r].rec.count + 1

\* event_hash, left undefined by a vault append.
EventHash(r) == IF req[r].type = "history" THEN req[r].id ELSE 0

NewEntry(r) == [id |-> req[r].id, hash |-> EventHash(r), base |-> req[r].rec.head]

putBlob(r) ==
    /\ At(r, "blob")
    /\ blobs' = blobs \cup {req[r].id}
    /\ Goto(r, "entry")
    /\ UNCHANGED <<stream, entry, revoked, view, logVars>>

\* Mutant: the client is answered before the stream record is written.
putEntryAnswers(r) ==
    /\ At(r, "entry")
    /\ entry' = [entry EXCEPT ![req[r].stream][NextSeq(r)] = {NewEntry(r)}]
    /\ acked' = acked \cup {[stream |-> req[r].stream, seq |-> NextSeq(r), id |-> req[r].id]}
    /\ Goto(r, "record")
    /\ UNCHANGED <<stream, blobs, revoked, view, told, raced, nextId, crashes>>

\* event_index:<stream>:<sequence number>, whatever was there.
putEntry(r) ==
    /\ At(r, "entry")
    /\ entry' = [entry EXCEPT ![req[r].stream][NextSeq(r)] = {NewEntry(r)}]
    /\ Goto(r, "record")
    /\ UNCHANGED <<stream, blobs, revoked, view, logVars>>

\* Mutant: the head of the record is not moved.
RecordOldHead(r) == [count |-> NextSeq(r), head |-> req[r].rec.head]

NewRecord(r) == [count |-> NextSeq(r), head |-> EventHash(r)]

\* putStream writes the record of the whole stream; the edge sees its own write.
putStream(r) ==
    /\ At(r, "record")
    /\ stream' = [stream EXCEPT ![req[r].stream] = NewRecord(r)]
    /\ view' = [view EXCEPT ![EdgeOf[r]].stream[req[r].stream] = NewRecord(r)]
    /\ Goto(r, IF req[r].target = {} THEN "answer" ELSE "mark")
    /\ UNCHANGED <<entry, blobs, revoked, logVars>>

\* Mutant: the grant record is replaced by the one that was read.
markNothing(r) ==
    /\ At(r, "mark")
    /\ revoked' = IF req[r].target \subseteq View(r).revoked THEN revoked \cup req[r].target
                  ELSE revoked \ req[r].target
    /\ view' = [view EXCEPT ![EdgeOf[r]].revoked = (@ \ req[r].target) \cup (revoked' \cap req[r].target)]
    /\ Goto(r, "answer")
    /\ UNCHANGED <<stream, entry, blobs, logVars>>

\* markGrantRevoked.
markGrantRevoked(r) ==
    /\ At(r, "mark")
    /\ revoked' = revoked \cup req[r].target
    /\ view' = [view EXCEPT ![EdgeOf[r]].revoked = @ \cup req[r].target]
    /\ Goto(r, "answer")
    /\ UNCHANGED <<stream, entry, blobs, logVars>>

answer(r) ==
    /\ At(r, "answer")
    /\ acked' = acked \cup {[stream |-> req[r].stream, seq |-> NextSeq(r), id |-> req[r].id]}
    /\ told' = told \cup req[r].target
    /\ req' = [req EXCEPT ![r] = Idle]
    /\ UNCHANGED <<kvVars, view, raced, nextId, crashes>>

-----------------------------------------------------------------------------
(* The platform.                                                           *)

\* A cache entry expires and is read anew, at most a minute after a write.
Propagate(e) ==
    /\ view[e] # [stream |-> stream, revoked |-> revoked]
    /\ \/ \E s \in Streams : view' = [view EXCEPT ![e].stream[s] = stream[s]]
       \/ view' = [view EXCEPT ![e].revoked = revoked]
    /\ view' # view
    /\ UNCHANGED <<kvVars, req, logVars>>

\* The isolate is discarded in the middle of a handler, or the answer is lost.
Crash(r) ==
    /\ ~At(r, "idle")
    /\ crashes < MaxCrashes
    /\ crashes' = crashes + 1
    /\ req' = [req EXCEPT ![r] = Idle]
    /\ UNCHANGED <<kvVars, view, acked, told, raced, nextId>>

Handler(r) ==
    \/ ReadRevocationHead(r)
    \/ getStream(r)
    \/ putBlob(r)
    \/ putEntry(r)
    \/ putStream(r)
    \/ markGrantRevoked(r)
    \/ answer(r)

Next ==
    \/ \E r \in Requests, g \in Grants :
          handleVaultAppend(r, g) \/ handleHistoryAppend(r, g) \/ handleGrantRevoke(r, g)
    \/ \E r \in Requests : Handler(r)
    \/ \E r \in Requests : Crash(r)
    \/ \E e \in Edges : Propagate(e)

Spec == Init /\ [][Next]_vars /\ \A e \in Edges : WF_vars(Propagate(e))

-----------------------------------------------------------------------------
(* Reads, once the caches have caught up.                                  *)

\* readStream: the entries below the count that exist, in order.
readStream(s) == {n \in 1..stream[s].count : entry[s][n] # {}}

\* verifyHistory: every entry and its payload exist, and the hash computed
\* from the one before is the stored one, which a vault event does not have.
verifyHistory(s) ==
    \A n \in 1..stream[s].count :
        \E x \in entry[s][n] :
            /\ x.id \in blobs
            /\ x.hash = x.id
            /\ IF n = 1 THEN x.base = 0 ELSE x.base \in {y.hash : y \in entry[s][n - 1]}

\* An event a client was told of stays readable at the number it was told,
\* unless two appends to its stream overlapped or one read an old record: a
\* crash between the writes of an append loses nothing.
AckedReadableUnlessRaced ==
    \A a \in acked :
        a.stream \notin raced =>
            /\ a.seq \in readStream(a.stream)
            /\ a.id \in {x.id : x \in entry[a.stream][a.seq]}

\* With the same exception, a history stream verifies exactly if no vault
\* event got into it, and its head is the hash of its last event, so what the
\* next append must name: that of a history event, or none after a vault one.
VerifiesUnlessRaced ==
    \A s \in HistoryStreams \ raced :
        /\ verifyHistory(s) <=>
              \A n \in 1..stream[s].count : \A x \in entry[s][n] : x.hash # 0
        /\ stream[s].count > 0 => \E x \in entry[s][stream[s].count] : x.hash = stream[s].head

\* When a client is told that a grant is revoked, every edge refuses it in the
\* end and for good, whatever records are written meanwhile.
RevocationSpreads ==
    \A g \in Grants : g \in told ~> [](\A e \in Edges : g \in view[e].revoked)
=============================================================================
