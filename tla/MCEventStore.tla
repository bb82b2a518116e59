---------------------------- MODULE MCEventStore ----------------------------
(* EventStore on one vault stream and the history stream "revocations",    *)
(* which clients and peers append to as well.                              *)
EXTENDS EventStore, TLC

CONSTANTS v1, rev, r1, r2, i1, i2, p1

MCRequests == {r1, r2}

NoLists == {}

\* The violation run needs no peer.
NoPeerEvents == {}
\* What a peer may have minted under p1: an event of that chain or a vault
\* event of that stream.
PeerEvent ==
    {[id |-> p1, stream |-> rev, type |-> type, prev |-> <<>>, deps |-> "[]"] :
         type \in StreamTypes}

Symmetry == Permutations(MCRequests) \cup Permutations({i1, i2})

=============================================================================
