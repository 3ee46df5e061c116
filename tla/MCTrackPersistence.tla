------------------------- MODULE MCTrackPersistence --------------------------
(* Instances of TrackPersistence for TLC.                                    *)
EXTENDS TrackPersistence

CONSTANTS o1, o2

TwoObjects == {o1, o2}
TwoTimes == {1, 2}
=============================================================================
