---------------------------- MODULE MCLiveStream -----------------------------
(* Instances of LiveStream for TLC: all four deployments.  Instances are     *)
(* interchangeable; only without a shared bus is a second object updated.    *)
EXTENDS LiveStream, TLC

CONSTANTS i1, i2, o1, o2, c1

TwoInstances == {i1, i2}
TwoObjects == {o1, o2}
OneClient == {c1}

AllDeployments == [shared : BOOLEAN, slow : BOOLEAN]

SecondObject == deployment.shared => latest[o2] = 0

Interchangeable == Permutations({i1, i2})
=============================================================================
