--------------------------- MODULE SyncReplication ---------------------------
(***************************************************************************)
(* Events on their way from the hub that appended them to the clients of   *)
(* another hub.  A relay (an external client: the repository has only the  *)
(* endpoints) pulls a page from one hub, pushes it to another and then     *)
(* stores the cursor it was given; a subscriber follows one stream of one  *)
(* hub by server-sent events and reconnects with the last id it received.  *)
(* Requests are cut off, ingests fail, and a hub is restored from a backup.*)
(*                                                                         *)
(* Of an event's text only what decides the fate of its hash is kept: a    *)
(* pull re-encodes the metadata, which drops white space, and renders a    *)
(* missing list of dependencies as an empty one; a push recomputes the     *)
(* hash of a history event from the re-encoded text.                       *)
(***************************************************************************)
EXTENDS LogReads

CONSTANTS
    Hubs,
    Relays,            \* <<source, destination>>
    Streams,
    HistoryStreams,    \* the streams of type "history"
    Events,            \* what clients append: [id, by (a hub), stream, text]
    SubHub, SubStream, \* what the subscriber follows
    Limit,             \* events in a page
    MaxFaults          \* bound on requests cut off, ingests failing and restores

\* The text of an event: <<metadata, dependencies>>.
AnyText == {"none", "compact", "spaced"} \X {"list", "absent"}
Ids     == {e.id : e \in Events}
Row     == [id : Ids, by : Hubs, stream : Streams, text : AnyText, hash : SUBSET AnyText]

ASSUME SyncAssumption ==
    /\ Relays \subseteq Hubs \X Hubs
    /\ HistoryStreams \subseteq Streams
    /\ Events \subseteq [id : Nat, by : Hubs, stream : Streams, text : AnyText]
    /\ \A e, f \in Events : e.id = f.id => e = f
    /\ SubHub \in Hubs /\ SubStream \in Streams
    /\ Limit \in Nat \ {0} /\ MaxFaults \in Nat

VARIABLES
    log,       \* [Hubs -> Seq(Row)]: table events
    pending,   \* events not appended yet
    relay,     \* [Relays -> local state]
    reported,  \* ids named in the errors of an answer to a push
    failed,    \* history: ids whose ingest failed, reported or not
    stale,     \* history: relays whose cursor is older than a restore
    conn,      \* the subscriber's connections: none or one, with its lastEventID
    got,       \* ids the subscriber received, in order
    restored,  \* history: hubs that were restored
    faults

vars == <<log, pending, relay, reported, failed, stale, conn, got, restored, faults>>
hubVars == <<log, pending, restored>>
subVars == <<conn, got>>

RelayState == [cursor : Nat, page : Seq(Row), next : Nat, errors : SUBSET Ids, busy : BOOLEAN]

TypeOK ==
    /\ log \in [Hubs -> Seq(Row)]
    /\ \A h \in Hubs : \A i, j \in DOMAIN log[h] : log[h][i].id = log[h][j].id => i = j
    /\ pending \subseteq Events
    /\ relay \in [Relays -> RelayState]
    /\ reported \subseteq Ids /\ failed \subseteq Ids /\ stale \subseteq Relays /\ restored \subseteq Hubs
    /\ conn \subseteq [last : SUBSET Ids] /\ Cardinality(conn) <= 1
    /\ got \in Seq(Ids)
    /\ faults \in 0..MaxFaults

Idle(cursor) == [cursor |-> cursor, page |-> <<>>, next |-> 0, errors |-> {}, busy |-> FALSE]

Init ==
    /\ log = [h \in Hubs |-> <<>>]
    /\ pending = Events
    /\ relay = [r \in Relays |-> Idle(0)]
    /\ reported = {} /\ failed = {} /\ stale = {} /\ restored = {}
    /\ conn = {} /\ got = <<>>
    /\ faults = 0

Fault == faults < MaxFaults /\ faults' = faults + 1

-----------------------------------------------------------------------------
(* The hubs.                                                               *)

\* vault/append, history/append or the event of grant/revoke commits a row;
\* only a history row has a hash, computed over the text of the request.
AppendEvent(e) ==
    /\ e \in pending
    /\ \A f \in pending : f.by = e.by => e.id <= f.id
    /\ log' = [log EXCEPT ![e.by] = Append(@, [id |-> e.id, by |-> e.by, stream |-> e.stream,
          text |-> e.text, hash |-> IF e.stream \in HistoryStreams THEN {e.text} ELSE {}])]
    /\ pending' = pending \ {e}
    /\ UNCHANGED <<relay, reported, failed, stale, conn, got, restored, faults>>

\* The JSON encoder compacts metadata; COALESCE renders absent dependencies.
Wire(row) ==
    [row EXCEPT !.text = <<IF @[1] = "spaced" THEN "compact" ELSE @[1], "list">>]

\* `nakli-hub restore` of a stopped hub from a backup of any age: connections
\* are gone, younger rows too, and later rows take their rowids.
Restore(h) ==
    /\ Fault
    /\ \E n \in 0..Len(log[h]) - 1 : log' = [log EXCEPT ![h] = SubSeq(@, 1, n)]
    /\ relay' = [r \in Relays |-> IF h \in {r[1], r[2]} THEN Idle(relay[r].cursor) ELSE relay[r]]
    /\ stale' = stale \cup {r \in Relays : h \in {r[1], r[2]}}
    /\ conn' = IF h = SubHub THEN {} ELSE conn
    /\ restored' = restored \cup {h}
    /\ UNCHANGED <<pending, reported, failed, got>>

-----------------------------------------------------------------------------
(* The relays.                                                             *)

\* GET /sync/pull.  An answer that is lost leaves nothing behind.
handleSyncPull(r) ==
    /\ ~relay[r].busy
    /\ PullPage(log[r[1]], relay[r].cursor, Limit) # <<>>
    /\ LET rows == PullPage(log[r[1]], relay[r].cursor, Limit)
       IN  relay' = [relay EXCEPT
             ![r].page = [i \in DOMAIN rows |-> Wire(rows[i])],
             ![r].next = NextCursor(log[r[1]], relay[r].cursor, Limit),
             ![r].busy = TRUE]
    /\ UNCHANGED <<reported, failed, stale, faults, hubVars, subVars>>

\* A hash that came along must be the one of the text that came along.
HashMatches(row) == row.hash # {} => row.hash = {row.text}

Ingested(row) == [row EXCEPT !.hash = IF row.stream \in HistoryStreams THEN {row.text} ELSE {}]

\* Mutant: whether the event is present is not asked.
PushEventAgain(r) ==
    /\ relay[r].page # <<>>
    /\ LET row == Head(relay[r].page)
       IN  /\ log' = [log EXCEPT ![r[2]] = IF HashMatches(row) THEN Append(@, Ingested(row)) ELSE @]
           /\ relay' = [relay EXCEPT ![r].page = Tail(@),
                  ![r].errors = IF HashMatches(row) THEN @ ELSE @ \cup {row.id}]
    /\ UNCHANGED <<pending, restored, reported, failed, stale, faults, subVars>>

\* Mutant: the events of a push are processed from the last to the first.
PushEventLast(r) ==
    /\ relay[r].page # <<>>
    /\ LET row == Last(relay[r].page)
           h   == r[2]
       IN  /\ log' = [log EXCEPT ![h] =
                  IF HashMatches(row) /\ row.id \notin IdsOf(@) THEN Append(@, Ingested(row)) ELSE @]
           /\ relay' = [relay EXCEPT ![r].page = Front(@),
                  ![r].errors = IF HashMatches(row) THEN @ ELSE @ \cup {row.id}]
    /\ UNCHANGED <<pending, restored, reported, failed, stale, faults, subVars>>

\* Mutant: the first event of a page that is refused ends the request.
PushEventOrAbort(r) ==
    /\ relay[r].page # <<>>
    /\ LET row == Head(relay[r].page)
           h   == r[2]
       IN  IF HashMatches(row)
           THEN /\ log' = [log EXCEPT ![h] = IF row.id \in IdsOf(@) THEN @ ELSE Append(@, Ingested(row))]
                /\ relay' = [relay EXCEPT ![r].page = Tail(@)]
           ELSE relay' = [relay EXCEPT ![r] = Idle(@.cursor)] /\ log' = log
    /\ UNCHANGED <<pending, restored, reported, failed, stale, faults, subVars>>

\* One event of POST /sync/push: refused for its hash, skipped when it is
\* present, or stored.
PushEvent(r) ==
    /\ relay[r].page # <<>>
    /\ LET row == Head(relay[r].page)
           h   == r[2]
       IN  /\ log' = [log EXCEPT ![h] =
                  IF HashMatches(row) /\ row.id \notin IdsOf(@) THEN Append(@, Ingested(row)) ELSE @]
           /\ relay' = [relay EXCEPT ![r].page = Tail(@),
                  ![r].errors = IF HashMatches(row) THEN @ ELSE @ \cup {row.id}]
    /\ UNCHANGED <<pending, restored, reported, failed, stale, faults, subVars>>

\* WriteBlob or IngestEvent fails; the next events are still processed.
PushEventFails(r) ==
    /\ relay[r].page # <<>>
    /\ Fault
    /\ relay' = [relay EXCEPT ![r].page = Tail(@),
                              ![r].errors = @ \cup {Head(relay[r].page).id}]
    /\ failed' = failed \cup {Head(relay[r].page).id}
    /\ UNCHANGED <<reported, stale, hubVars, subVars>>

\* 200 with the errors of single events in the body; the relay stores the
\* cursor of its pull.
PushAnswered(r) ==
    /\ relay[r].busy /\ relay[r].page = <<>>
    /\ reported' = reported \cup relay[r].errors
    /\ relay' = [relay EXCEPT ![r] = Idle(@.next)]
    /\ UNCHANGED <<failed, stale, faults, hubVars, subVars>>

\* The request is cut off: events not yet stored are not, the answer is lost.
PushCutOff(r) ==
    /\ relay[r].busy
    /\ Fault
    /\ relay' = [relay EXCEPT ![r] = Idle(@.cursor)]
    /\ UNCHANGED <<reported, failed, stale, hubVars, subVars>>

\* After a restore a relay is started again from the beginning: an empty cursor.
RelayRestarted(r) ==
    /\ r \in stale
    /\ relay' = [relay EXCEPT ![r] = Idle(0)]
    /\ stale' = stale \ {r}
    /\ UNCHANGED <<reported, failed, faults, hubVars, subVars>>

-----------------------------------------------------------------------------
(* The subscriber.                                                         *)

LastGot == IF got = <<>> THEN {} ELSE {Last(got)}

Subscribe ==
    /\ conn = {}
    /\ conn' = {[last |-> LastGot]}
    /\ UNCHANGED <<got, relay, reported, failed, stale, faults, hubVars>>

\* The page after an event, and the ids of a page as the client receives them.
Fresh(last)    == ReadStream(log[SubHub], SubStream, last, Limit)
Received(rows) == got' = got \o [i \in DOMAIN rows |-> rows[i].id]

\* A client that has no connection asks for the page after the last event it
\* has; an id the stream does not have is 404.
handleVaultRead ==
    /\ conn = {}
    /\ SinceKnown(log[SubHub], SubStream, LastGot)
    /\ Fresh(LastGot) # <<>>
    /\ Received(Fresh(LastGot))
    /\ UNCHANGED <<conn, relay, reported, failed, stale, faults, hubVars>>

\* A tick of the 500 ms ticker.  When lastEventID is unknown the error is
\* dropped and the connection goes on with nothing but heartbeats.
deliverNew ==
    \E c \in conn :
        /\ SinceKnown(log[SubHub], SubStream, c.last)
        /\ Fresh(c.last) # <<>>
        /\ Received(Fresh(c.last))
        /\ conn' = {[last |-> {Last(Fresh(c.last)).id}]}
        /\ UNCHANGED <<relay, reported, failed, stale, faults, hubVars>>

\* A write fails: of what was written, some arrived.
deliverBroken ==
    /\ Fault
    /\ \E c \in conn :
        /\ SinceKnown(log[SubHub], SubStream, c.last)
        /\ \E n \in 0..Len(Fresh(c.last)) : Received(SubSeq(Fresh(c.last), 1, n))
    /\ conn' = {}
    /\ UNCHANGED <<relay, reported, failed, stale, hubVars>>

RelayStep(r) ==
    \/ handleSyncPull(r)
    \/ PushEvent(r)
    \/ PushAnswered(r)

Next ==
    \/ \E e \in Events : AppendEvent(e)
    \/ \E h \in Hubs : Restore(h)
    \/ \E r \in Relays : RelayStep(r)
    \/ \E r \in Relays : PushEventFails(r)
    \/ \E r \in Relays : PushCutOff(r)
    \/ \E r \in Relays : RelayRestarted(r)
    \/ handleVaultRead
    \/ Subscribe
    \/ deliverNew
    \/ deliverBroken

\* Clients retry and the ticker ticks; nobody has to append, restore or fail.
Fairness ==
    /\ \A r \in Relays : WF_vars(RelayStep(r))
    /\ WF_vars(Subscribe)
    /\ WF_vars(deliverNew)

Spec == Init /\ [][Next]_vars /\ Fairness

-----------------------------------------------------------------------------
(* What replication keeps.                                                 *)

\* A relay never passes over an event in silence: what lies at or below its
\* cursor is stored at the destination or was named in an error the relay was
\* told, unless a hub went back in time since the cursor was started.
NothingSilentlySkipped ==
    \A r \in Relays \ stale : \A i \in 1..relay[r].cursor :
        log[r[1]][i].id \in IdsOf(log[r[2]]) \cup reported

\* Events one hub appended keep their order at every other, whatever pages
\* they came in and however often they were sent: the order a chain written
\* by one hub needs to verify elsewhere.  Only an event whose ingest failed
\* once may come in behind its successors.
OrderPreserved ==
    restored = {} =>
        \A h \in Hubs : \A i, j \in DOMAIN log[h] :
            /\ i < j
            /\ log[h][i].by = log[h][j].by
            => log[h][i].id < log[h][j].id \/ log[h][j].id \in failed

\* The subscriber has received the first events of its stream, each once and
\* in order, whatever its connections went through.
DeliveredIsPrefix ==
    SubHub \notin restored =>
        IsPrefix(got, [i \in DOMAIN StreamOf(log[SubHub], SubStream) |->
                           StreamOf(log[SubHub], SubStream)[i].id])

\* An event appended to the stream at any hub reaches the subscriber, unless
\* a push reported it as an error or a hub was restored.
AppendedReachesSubscriber ==
    \A e \in {f.id : f \in {g \in Events : g.stream = SubStream}} :
        (\E h \in Hubs : e \in IdsOf(StreamOf(log[h], SubStream)))
            ~> (e \in ToSet(got) \/ e \in reported \/ restored # {})
=============================================================================
