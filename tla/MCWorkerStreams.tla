--------------------------- MODULE MCWorkerStreams ---------------------------
(* Two handlers, each at an edge of its own.                                *)
EXTENDS WorkerStreams

MCEdgeOf == [r \in Requests |-> IF r = 1 THEN "e1" ELSE "e2"]
=============================================================================
