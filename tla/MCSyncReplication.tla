-------------------------- MODULE MCSyncReplication --------------------------
(* Two hubs that replicate into each other.  Clients of A append three      *)
(* events; the subscriber follows the history stream at B.                 *)
EXTENDS SyncReplication

MCRelays == {<<"A", "B">>, <<"B", "A">>}

Event(id, by, stream, meta) == [id |-> id, by |-> by, stream |-> stream, text |-> <<meta, "list">>]

MCEvents == {Event(1, "A", "h", "spaced"), Event(2, "A", "h", "compact"), Event(3, "A", "v", "none")}
=============================================================================
