------------------------------ MODULE MCIngest -------------------------------
(* Instances of Ingest for TLC.  Nothing tells two values of a set apart.    *)
EXTENDS Ingest, TLC

CONSTANTS e1, e2, a, b, k1, k2, h1, h2

TwoIds == {e1, e2}
TwoContents == {a, b}
TwoKeys == {k1, k2}
TwoHandlers == {h1, h2}

Interchangeable ==
  Permutations({e1, e2}) \cup Permutations({a, b}) \cup Permutations({k1, k2})
    \cup Permutations({h1, h2})
=============================================================================
