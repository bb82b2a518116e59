-------------------------- MODULE MCGrantLifecycle --------------------------
(* GrantLifecycle with a grant from outside and one minted here.           *)
EXTENDS GrantLifecycle, TLC

CONSTANTS g1, g2, hub, user, r1, r2

MCSymmetry == Permutations(Requests)

=============================================================================
