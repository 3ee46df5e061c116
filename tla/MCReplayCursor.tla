--------------------------- MODULE MCReplayCursor ---------------------------
(* Instances of ReplayCursor for TLC.  Handlers are interchangeable.         *)
EXTENDS ReplayCursor, TLC

CONSTANTS h1, h2, h3

ThreeHandlers == {h1, h2, h3}

Interchangeable == Permutations({h1, h2, h3})
=============================================================================
