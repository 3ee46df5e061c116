-------------------------- MODULE MCGroupMembership --------------------------
(* An instance of GroupMembership for TLC: a creator and another user.       *)
EXTENDS GroupMembership, TLC

CONSTANTS u1, u2, r1, r2

Interchangeable == Permutations({u1, u2}) \cup Permutations({r1, r2})
=============================================================================
