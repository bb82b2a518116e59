------------------------------ MODULE StreamLog ------------------------------
(***************************************************************************)
(* What a nakli-hub promises about its streams, with an append as a single *)
(* step: a stream only grows at its end, an event enters at most one       *)
(* stream once, an event appended to the chain of a history stream names   *)
(* the event it follows, and an answer tells the position the event really *)
(* has.  A vault event is in no chain, whichever stream it enters: it      *)
(* names no event, and the event chained after it names none either.       *)
(* Events of other hubs (Foreign) may name any parent.                     *)
(***************************************************************************)
EXTENDS Naturals, Sequences

CONSTANTS VaultStreams, HistoryStreams, LocalIds, Foreign, NoId

Streams == VaultStreams \cup HistoryStreams

VARIABLES
    log,     \* [Streams -> Seq([id, chained, parent])]
    acked    \* set of [id, stream, seq] answered to clients

vars == <<log, acked>>

Entry == [id : LocalIds \cup Foreign, chained : BOOLEAN,
          parent : LocalIds \cup Foreign \cup {NoId}]

TypeOK ==
    /\ log \in [Streams -> Seq(Entry)]
    /\ acked \subseteq [id : LocalIds \cup Foreign, stream : Streams, seq : Nat]

Init == log = [s \in Streams |-> <<>>] /\ acked = {}

InLog(id) == \E s \in Streams : \E i \in DOMAIN log[s] : log[s][i].id = id

\* The event a chained append names: the last one, unless it is in no chain.
HeadId(s) ==
    IF log[s] = <<>> THEN NoId
    ELSE LET last == log[s][Len(log[s])] IN IF last.chained THEN last.id ELSE NoId

Extend(s, id, chained, parent) ==
    /\ ~InLog(id)
    /\ log' = [log EXCEPT ![s] = Append(@, [id |-> id, chained |-> chained,
                                          parent |-> parent])]
    /\ UNCHANGED acked

\* A compare-and-append of this hub on a history stream.
AppendChained(s, id) == s \in HistoryStreams /\ Extend(s, id, TRUE, HeadId(s))

\* A vault append of this hub, to any stream.
AppendPlain(s, id) == Extend(s, id, FALSE, NoId)

\* An event of a peer: stored where it arrives, its parent as it names it.
Import(s, id) ==
    \E chained \in BOOLEAN : \E parent \in LocalIds \cup Foreign \cup {NoId} :
        Extend(s, id, chained, parent)

Acknowledge(s, n) ==
    /\ n \in DOMAIN log[s]
    /\ acked' = acked \cup {[id |-> log[s][n].id, stream |-> s, seq |-> n]}
    /\ UNCHANGED log

\* A step is an append or an answer (the first conjuncts are implied).
Next ==
    \/ /\ log' # log
       /\ \E s \in Streams :
            \/ \E id \in LocalIds : AppendChained(s, id) \/ AppendPlain(s, id)
            \/ \E id \in Foreign : Import(s, id)
    \/ /\ acked' # acked
       /\ \E s \in Streams : \E n \in DOMAIN log[s] : Acknowledge(s, n)

Spec == Init /\ [][Next]_vars

=============================================================================
