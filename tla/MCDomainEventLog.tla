-------------------------- MODULE MCDomainEventLog --------------------------
(* Instances of DomainEventLog for TLC.  Event ids and handlers are model    *)
(* values; they are not declared interchangeable, which liveness forbids.    *)
EXTENDS DomainEventLog

CONSTANTS e1, e2, h1, h2

TwoEvents == {e1, e2}
TwoHandlers == {h1, h2}
=============================================================================
