--------------------------- MODULE MCWorkerPairing ---------------------------
(* Three handlers at two edges.                                             *)
EXTENDS WorkerPairing, TLC

MCEdgeOf == [r \in Fetches |-> IF r = 1 THEN "e1" ELSE "e2"]
MCSymmetry == Permutations(EdgeDaemons)
=============================================================================
