---------------------------- MODULE MCIdempotency ----------------------------
(* Idempotency for a handful of keys, payloads and handlers.               *)
EXTENDS Idempotency, TLC

CONSTANTS k1, k2, a, b, r1, r2, r3

MCSymmetry == Permutations(Requests)

=============================================================================
