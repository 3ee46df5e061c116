----------------------------- MODULE MCEdgeSync -----------------------------
(* Instances of EdgeSync for TLC.  Event identities are model values.        *)
EXTENDS EdgeSync

CONSTANTS e1, e2, bad, c1, hidden

\* A third event of the edge only serves to overflow its outbox: it is queued
\* when the outbox is full, before anything is published.
OverflowsFullOutbox ==
  e2 \in mem'.outbox \ mem.outbox =>
    {e1, bad} \subseteq mem.outbox /\ log = <<>> /\ faults = MaxFaults /\ pc = "idle"

\* Two writes overlap only early, before the fault: that of e1 and that of a
\* finished round, in either order.  While they do, one of them ends or the
\* process crashes; the write that is left then overlaps with whatever follows.
OverlapsEarly ==
  /\ Len(writers') > Len(writers) /\ writers # <<>> =>
       /\ mem'.outbox = {e1} /\ log = <<>> /\ pc \in {"idle", "finish"}
       /\ ~writers[1].late /\ faults = 0
  /\ Len(writers) > 1 => writers' # writers

\* A central event the release policy withholds is published before anything
\* else happens: the first page of the replay then delivers nothing.  What
\* follows is the one event of the edge it may see.
HiddenFirst ==
  /\ log' # log /\ log'[Len(log')] = hidden =>
       log = <<>> /\ mem = Fresh /\ pc = "idle" /\ faults = 0
  /\ hidden \in Published => mem'.outbox \subseteq {e1} /\ c1 \notin Published'

TwoEvents == {e1, e2}
TwoAndBad == {e1, e2, bad}
BadOnly == {bad}
NoEvents == {}
OneCentral == {c1}
OneHidden == {c1, hidden}
SeesBoth == {e1, c1}
=============================================================================
