------------------------------ MODULE LogReads ------------------------------
(***************************************************************************)
(* The paged reads of a nakli-hub.  A hub's log is the table `events` in   *)
(* rowid order; no row is ever deleted, so the rowid is the position.  The *)
(* sequence number of a row is its position among the rows of its stream.  *)
(***************************************************************************)
EXTENDS Naturals, Sequences, SequencesExt, FiniteSetsExt

IdsOf(rows)       == {rows[i].id : i \in DOMAIN rows}
RowidOf(log, e)   == CHOOSE i \in DOMAIN log : log[i].id = e
Page(rows, limit) == SubSeq(rows, 1, Min({limit, Len(rows)}))

\* The rows of a stream, in the order of their sequence numbers.
StreamOf(log, s) ==
    LET rows[n \in 0..Len(log)] ==
            IF n = 0 THEN <<>>
            ELSE IF log[n].stream = s THEN Append(rows[n - 1], log[n]) ELSE rows[n - 1]
    IN  rows[Len(log)]

\* SyncPull: the rows after the cursor and, as the next cursor, the rowid of
\* the last one returned; the old cursor when there is none.
PullPage(log, since, limit) == Page(SubSeq(log, since + 1, Len(log)), limit)

\* Mutant: the cursor is not set back to the last row of the truncated page.
NextCursorUntruncated(log, since, limit) ==
    IF since >= Len(log) THEN since ELSE Min({since + limit + 1, Len(log)})

NextCursor(log, since, limit) ==
    LET page == PullPage(log, since, limit)
    IN  IF page = <<>> THEN since ELSE RowidOf(log, Last(page).id)

\* ReadStream: the rows of a stream after the event `since` (a set of at most
\* one id).  An id the stream does not have is ErrNotFound.
SinceKnown(log, s, since) == since \subseteq IdsOf(StreamOf(log, s))

\* Mutant: the event named by `since` is returned again.
ReadStreamFrom(log, s, since, limit) ==
    LET rows == StreamOf(log, s)
        seq  == IF since = {} THEN 1 ELSE RowidOf(rows, CHOOSE e \in since : TRUE)
    IN  Page(SubSeq(rows, seq, Len(rows)), limit)

ReadStream(log, s, since, limit) ==
    LET rows == StreamOf(log, s)
        seq  == IF since = {} THEN 0 ELSE RowidOf(rows, CHOOSE e \in since : TRUE)
    IN  Page(SubSeq(rows, seq + 1, Len(rows)), limit)

=============================================================================
