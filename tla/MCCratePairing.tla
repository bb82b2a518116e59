--------------------------- MODULE MCCratePairing ---------------------------
(* Crate pairing with one or two tokens, two daemons and three handlers.   *)
EXTENDS CratePairing

CONSTANTS t1, t2, d1, d2, c1, c2, c3, r1, r2, r3

=============================================================================
