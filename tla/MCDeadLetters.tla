--------------------------- MODULE MCDeadLetters ----------------------------
(* Instances of DeadLetters for TLC.  Handlers are interchangeable, and so   *)
(* are operators; the letters are not, one of them is anonymous.             *)
EXTENDS DeadLetters, TLC

CONSTANTS d1, d2, h1, h2, ann, bob

TwoLetters == {d1, d2}
SecondAnonymous == {d2}
TwoHandlers == {h1, h2}
TwoOperators == {ann, bob}

Interchangeable == Permutations({h1, h2}) \cup Permutations({ann, bob})
=============================================================================
