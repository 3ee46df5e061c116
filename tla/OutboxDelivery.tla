--------------------------- MODULE OutboxDelivery ---------------------------
(***************************************************************************)
(* What an edge node promises the client that hands it a domain event:     *)
(* once an event is accepted it stays accepted until the central COP has    *)
(* either published it or recorded it as a dead letter, and neither outcome *)
(* is ever taken back.  Delivery may happen before the client sees the      *)
(* acceptance, because a synchronisation may flush the entry while its      *)
(* durable write is still running.                                          *)
(***************************************************************************)
EXTENDS Naturals

CONSTANT EdgeEvents \* identities of the events captured at the edge node

VARIABLE fate       \* what has become of each event

Fates == {"absent", "accepted", "published", "deadLettered"}

TypeOK == fate \in [EdgeEvents -> Fates]

Init == fate = [e \in EdgeEvents |-> "absent"]

\* One durable write may accept several events: those of the write itself and
\* those an earlier, failed write left in memory.
Accept(es) ==
  /\ \A e \in es : fate[e] = "absent"
  /\ fate' = [e \in EdgeEvents |-> IF e \in es THEN "accepted" ELSE fate[e]]

Publish(e) ==
  /\ fate[e] \in {"absent", "accepted"}
  /\ fate' = [fate EXCEPT ![e] = "published"]

DeadLetter(e) ==
  /\ fate[e] \in {"absent", "accepted"}
  /\ fate' = [fate EXCEPT ![e] = "deadLettered"]

Next ==
  \/ \E es \in SUBSET EdgeEvents : Accept(es)
  \/ \E e \in EdgeEvents : Publish(e) \/ DeadLetter(e)

Spec == Init /\ [][Next]_fate
=============================================================================
