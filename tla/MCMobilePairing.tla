--------------------------- MODULE MCMobilePairing --------------------------
(* An instance of MobilePairing for TLC: two devices of one user, and a      *)
(* second user who only creates and confirms.                                *)
EXTENDS MobilePairing, TLC

CONSTANTS d1, d2, u1, u2, c1, e1, r1, r2

BothOfOne == (d1 :> u1) @@ (d2 :> u1)

Interchangeable == Permutations({r1, r2})
=============================================================================
