------------------------------ MODULE EventFeed ------------------------------
(***************************************************************************)
(* What the domain event log promises a follower that remembers nothing but *)
(* its last offset: every event gets one offset for good, above every       *)
(* offset given before, so reading on from the last offset misses nothing.  *)
(***************************************************************************)
EXTENDS Naturals

CONSTANT Events

VARIABLES
  offset,  \* offset of each published event, 0 before
  cursor,  \* last offset the follower has read up to
  received \* events the follower has received

feed == <<offset, cursor, received>>

Init ==
  /\ offset = [e \in Events |-> 0]
  /\ cursor = 0
  /\ received = {}

\* The offset is whatever the log assigns, above all it has assigned.
Publish(e) ==
  /\ offset[e] = 0
  /\ offset'[e] \in Nat
  /\ offset'[e] > cursor
  /\ \A d \in Events : offset'[e] > offset[d]
  /\ offset' = [offset EXCEPT ![e] = offset'[e]]
  /\ UNCHANGED <<cursor, received>>

\* The follower receives everything up to some event beyond its cursor.
ReadUpTo(e) ==
  /\ offset[e] > cursor
  /\ cursor' = offset[e]
  /\ received' = {d \in Events : offset[d] \in 1..offset[e]}
  /\ UNCHANGED offset

Next == \E e \in Events : Publish(e) \/ ReadUpTo(e)

Spec == Init /\ [][Next]_feed
=============================================================================
