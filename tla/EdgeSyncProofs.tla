--------------------------- MODULE EdgeSyncProofs ---------------------------
(***************************************************************************)
(* Proofs about the edge node: type correctness, completeness of the replay *)
(* cache behind the cursor, and the fate of accepted events.                *)
(***************************************************************************)
EXTENDS EdgeSync, FiniteSetTheorems, TLAPS

-----------------------------------------------------------------------------
(* Type correctness of the specification.                                    *)

LEMMA NextOffsetType ==
  ASSUME TypeOK PROVE NextOffset \in Nat
BY LimitAssumption DEF TypeOK, States, NextOffset

LEMMA LogType == TypeOK => log \in Seq(Events)
BY DEF TypeOK

LEMMA ProcessType ==
  ASSUME TypeOK, NEW e \in EdgeEvents, Process(e)
  PROVE  log' \in Seq(Events) /\ dlq' \subseteq Invalid
BY DEF TypeOK, Process, Events

\* The writes after one more has begun.
LEMMA WriteBegins ==
  ASSUME TypeOK, NEW by, NEW state, Persisting(by, state)
  PROVE  /\ Len(writers) \in Nat
         /\ DOMAIN writers = 1..Len(writers)
         /\ DOMAIN writers' = 1..(Len(writers) + 1)
         /\ \A k \in DOMAIN writers' :
              \/ k \in DOMAIN writers /\ writers'[k] = writers[k]
              \/ /\ k = Len(writers) + 1
                 /\ writers'[k] = [by |-> by, state |-> state, late |-> FALSE]
<1>1. writers \in Seq(Writer)
  BY DEF TypeOK
<1> QED BY <1>1 DEF Persisting

\* The place the i-th write had before the k-th ended.
Place(k, i) == IF i < k THEN i ELSE i + 1

\* The writes after the k-th has ended: the others, in the order they had.
LEMMA WriteEnds ==
  ASSUME TypeOK, NEW k \in DOMAIN writers, PersistDone(k) \/ PersistFails(k)
  PROVE  /\ writers' \in Seq(Writer)
         /\ \A i \in DOMAIN writers' :
              /\ Place(k, i) \in DOMAIN writers
              /\ writers'[i].by = writers[Place(k, i)].by
              /\ writers'[i].state = writers[Place(k, i)].state
              /\ PersistFails(k) => writers'[i].late = writers[Place(k, i)].late
              /\ PersistDone(k) => (writers'[i].late <=> (writers[Place(k, i)].late \/ i < k))
         /\ \A i, j \in DOMAIN writers' : i < j => Place(k, i) < Place(k, j)
         /\ \A i \in DOMAIN writers' : i \in Nat /\ k \in Nat
<1>1. writers \in Seq(Writer)
  BY DEF TypeOK
<1> DEFINE m == Len(writers) - 1
<1>2. /\ Len(writers) \in Nat /\ m \in Nat /\ k \in 1..Len(writers) /\ k \in Nat
      /\ DOMAIN writers = 1..Len(writers)
      /\ \A i \in 1..Len(writers) : writers[i] \in Writer
  BY <1>1
<1>3. \A i \in 1..m : i \in Nat /\ Place(k, i) \in 1..Len(writers)
  BY <1>2 DEF Place
<1>4. DOMAIN Others(k) = 1..m /\ \A i \in 1..m : Others(k)[i] = writers[Place(k, i)]
  BY DEF Others, Place
<1>5. \A i, j \in 1..m : i < j => Place(k, i) < Place(k, j)
  BY <1>2 DEF Place
<1> DEFINE w(i) == writers[Place(k, i)]
<1>6. \A i \in 1..m : w(i) \in Writer
  BY <1>2, <1>3
<1>7. /\ DOMAIN writers' = 1..m
      /\ \A i \in 1..m :
           /\ writers'[i] \in Writer
           /\ writers'[i].by = w(i).by
           /\ writers'[i].state = w(i).state
           /\ PersistFails(k) => writers'[i].late = w(i).late
           /\ PersistDone(k) => (writers'[i].late <=> (w(i).late \/ i < k))
  <2>1. CASE PersistDone(k)
    <3>1. writers' = [i \in 1..m |-> [w(i) EXCEPT !.late = @ \/ i < k]]
      BY <1>4, <2>1 DEF PersistDone
    <3>2. ASSUME NEW i \in 1..m, NEW v, v \in Writer
          PROVE  LET u == [v EXCEPT !.late = @ \/ i < k]
                 IN  /\ u \in Writer /\ u.by = v.by /\ u.state = v.state
                     /\ u.late <=> (v.late \/ i < k)
      BY <3>2 DEF Writer
    <3>3. ~PersistFails(k)
      BY <2>1 DEF PersistDone, PersistFails, TypeOK
    <3> HIDE DEF w, m
    <3> QED BY <1>6, <2>1, <3>1, <3>2, <3>3
  <2>2. CASE PersistFails(k)
    <3>1. writers' = [i \in 1..m |-> w(i)]
      BY <1>4, <2>2 DEF PersistFails, Others, Place
    <3>2. ~PersistDone(k)
      BY <2>2 DEF PersistDone, PersistFails, TypeOK
    <3> HIDE DEF w, m
    <3> QED BY <1>6, <2>2, <3>1, <3>2
  <2> QED BY <2>1, <2>2
<1>8. writers' \in Seq(Writer)
  <2>1. writers' = [i \in 1..m |-> writers'[i]]
    <3>1. CASE PersistDone(k)
      BY <1>4, <3>1 DEF PersistDone
    <3>2. CASE PersistFails(k)
      BY <1>4, <3>2 DEF PersistFails, Others
    <3> QED BY <3>1, <3>2
  <2> HIDE DEF m
  <2> QED BY <1>2, <1>7, <2>1
<1> HIDE DEF m
<1> QED BY <1>2, <1>3, <1>5, <1>7, <1>8

LEMMA TypeInit == Init => TypeOK
<1> SUFFICES ASSUME Init PROVE TypeOK
  OBVIOUS
<1>1. Fresh \in States
  BY DEF Fresh, States
<1>2. log \in Seq(Events) /\ writers \in Seq(Writer)
  BY DEF Init
<1> QED BY <1>1, <1>2 DEF Init, TypeOK, NoJob

LEMMA TypeStep == TypeOK /\ [Next]_vars => TypeOK'
<1> SUFFICES ASSUME TypeOK, [Next]_vars PROVE TypeOK'
  OBVIOUS
<1> USE DEF TypeOK
<1>1. ASSUME NEW e \in EdgeEvents, QueueOutboxEvent(e) PROVE TypeOK'
  <2>1. mem' \in States
    BY <1>1 DEF QueueOutboxEvent, States
  <2>2. writers' \in Seq(Writer)
    <3>1. [by |-> e, state |-> mem', late |-> FALSE] \in Writer
      BY <2>1 DEF Writer
    <3> QED BY <1>1, <3>1 DEF QueueOutboxEvent, Persisting
  <2> QED BY <1>1, <2>1, <2>2 DEF QueueOutboxEvent, round, wire, api, aux, file
<1>2. ASSUME NEW k \in DOMAIN writers, PersistDone(k) PROVE TypeOK'
  <2>1. writers' \in Seq(Writer) /\ writers[k] \in Writer
    BY <1>2, WriteEnds
  <2> QED BY <1>2, <2>1 DEF PersistDone, Writer, round, wire, api
<1>3. ASSUME NEW k \in DOMAIN writers, PersistFails(k) PROVE TypeOK'
  <2>1. writers' \in Seq(Writer)
    BY <1>3, WriteEnds
  <2> QED BY <1>3, <2>1 DEF PersistFails, round, wire, api, file
<1>4. CASE SyncOnce
  BY <1>4 DEF SyncOnce, edge, wire, api, aux, file
<1>5. CASE Heartbeat
  BY <1>5 DEF Heartbeat, edge, wire, api, aux, file
<1>6. CASE FlushNothing
  BY <1>6 DEF FlushNothing, edge, wire, api, aux, file
<1>7. CASE FlushOutbox
  BY <1>7 DEF FlushOutbox, edge, api, aux, file, States
<1>8. CASE FlushTooLarge
  <2>1. mem' \in States
    BY <1>8 DEF FlushTooLarge, Degraded, States
  <2> QED BY <1>8, <2>1 DEF FlushTooLarge, Degraded, wire, api, aux, file
<1>9. CASE FlushAnswered
  <2>1. mem' \in States
    <3>1. PICK dead \in SUBSET (mem.dead \cup job.rejected) :
            mem' = [mem EXCEPT !.outbox = @ \ batch, !.dead = dead]
      BY <1>9 DEF FlushAnswered
    <3>2. dead \in SUBSET Invalid
      BY DEF States
    <3> QED BY <3>1, <3>2 DEF States
  <2> QED BY <1>9, <2>1 DEF FlushAnswered, NoJob, api, aux, file
<1>10. CASE PullReplay
  <2>1. mem.inbound \cup Replayed \subseteq Nat
    BY DEF Replayed, Scanned, States
  <2>2. mem' \in States
    <3>1. PICK kept \in SUBSET (mem.inbound \cup Replayed) :
            mem' = [mem EXCEPT !.inbound = kept]
      BY <1>10 DEF PullReplay
    <3>2. kept \in SUBSET Nat
      BY <2>1
    <3> QED BY <3>1, <3>2 DEF States
  <2>3. NextOffset \in Nat
    BY NextOffsetType
  <2> QED BY <1>10, <2>2, <2>3 DEF PullReplay, api, aux, file
<1>11. CASE PullNothing
  <2>1. mem' \in States
    BY <1>11 DEF PullNothing, States
  <2> QED BY <1>11, <2>1 DEF PullNothing, Online, wire, api, aux, file
<1>12. CASE AckAnswered
  <2>1. mem' \in States
    BY <1>12 DEF AckAnswered, States
  <2> QED BY <1>12, <2>1 DEF AckAnswered, Online, wire, api, aux, file
<1>13. CASE FinishRound
  <2>1. writers' \in Seq(Writer)
    BY <1>13 DEF FinishRound, Persisting, Writer
  <2> QED BY <1>13, <2>1 DEF FinishRound, wire, api, aux, file
<1>14. CASE RequestFails
  <2>1. mem' \in States
    BY <1>14 DEF RequestFails, Degraded, States
  <2> QED BY <1>14, <2>1 DEF RequestFails, Degraded, NoJob, api, file
<1>15. CASE Crash
  <2>1. Fresh \in States
    BY DEF Fresh, States
  <2>2. /\ orphans' \subseteq EdgeEvents
        /\ job' \in [todo : SUBSET EdgeEvents, rejected : SUBSET Invalid]
        /\ faults' \in Nat
    BY <1>15 DEF Crash, NoJob
  <2>3. writers' \in Seq(Writer)
    BY <1>15 DEF Crash
  <2> QED BY <1>15, <2>1, <2>2, <2>3 DEF Crash, api
<1>16. CASE Restart
  BY <1>16 DEF Restart, round, wire, api, aux, file
<1>17. ASSUME NEW e \in job.todo, FlushEntry(e) PROVE TypeOK'
  BY <1>17, ProcessType DEF FlushEntry, edge, round, aux, file
<1>18. ASSUME NEW e \in orphans, OrphanEntry(e) PROVE TypeOK'
  BY <1>18, ProcessType DEF OrphanEntry, edge, round, aux, file
<1>19. ASSUME NEW n \in acks, AckArrives(n) PROVE TypeOK'
  BY <1>19 DEF AckArrives, edge, round, aux, file
<1>20. ASSUME NEW e \in CentralEvents, PublishCentral(e) PROVE TypeOK'
  BY <1>20 DEF PublishCentral, edge, round, wire, aux, file, Events
<1>21. CASE UNCHANGED vars
  BY <1>21 DEF vars, edge, round, wire, api, aux, file
<1> QED
  BY <1>1, <1>2, <1>3, <1>4, <1>5, <1>6, <1>7, <1>8, <1>9, <1>10, <1>11,
     <1>12, <1>13, <1>14, <1>15, <1>16, <1>17, <1>18, <1>19, <1>20, <1>21
     DEF Next, SyncStep, ApiStep

(* Every state the edge node and the central API reach has the types of      *)
(* TypeOK: the record in memory, on disk and in every running write.         *)
THEOREM TypeCorrect == Spec => []TypeOK
<1> QED BY TypeInit, TypeStep, PTL DEF Spec

-----------------------------------------------------------------------------
(* The replay cache.  CacheComplete is not inductive: the local cursor moves *)
(* to `next` only after the acknowledgement is answered, so the invariant    *)
(* also says that the cache already covers `next` while it is under way, and *)
(* that no round runs while the process is down.                             *)

CacheInv ==
  /\ CacheComplete
  /\ ~up => pc = "idle"
  /\ pc = "ack" => Complete([mem EXCEPT !.cursor = next], log)

\* A longer log takes nothing from what a cache covers.
LEMMA CompleteAppend ==
  ASSUME NEW s \in States, NEW l \in Seq(Events), NEW e \in Events, Complete(s, l)
  PROVE  Complete(s, Append(l, e))
<1> DEFINE m == Append(l, e)
<1>1. Len(m) = Len(l) + 1 /\ \A o \in 1..Len(l) : m[o] = l[o]
  OBVIOUS
<1>2. s.cursor <= Len(l) /\ s.cursor \in Nat /\ Len(l) \in Nat
  BY DEF Complete, States
<1>3. s.cursor <= Len(m)
  BY <1>1, <1>2
<1>4. \A o \in s.inbound : o \in DOMAIN m /\ m[o] \in Deliverable
  BY <1>1 DEF Complete
<1>5. \A o \in 1..s.cursor : o \in 1..Len(l)
  BY <1>2
<1>6. \A o \in 1..s.cursor : m[o] = l[o]
  BY <1>1, <1>5
<1> HIDE DEF m
<1>7. Complete(s, m)
  BY <1>3, <1>4, <1>6 DEF Complete
<1> QED BY <1>7 DEF m

\* What one replay answer does: the cache that keeps the newest of the old and
\* the replayed offsets covers the old cursor and the offset scanned up to.
LEMMA CompletePull ==
  ASSUME NEW s \in States, NEW l \in Seq(Events), Complete(s, l),
         NEW n \in Nat, s.cursor <= n, n <= Len(l),
         NEW items, items = {o \in DOMAIN l : o > s.cursor /\ o <= n /\ l[o] \in Deliverable},
         NEW kept, IsNewest(kept, s.inbound \cup items, CacheLimit),
         NEW t \in States, t.inbound = kept, t.cursor \in {s.cursor, n}
  PROVE  Complete(t, l)
<1> DEFINE all == s.inbound \cup items
<1>1. all \subseteq 1..Len(l) /\ \A o \in all : l[o] \in Deliverable
  BY DEF Complete
<1>2. IsFiniteSet(all) /\ IsFiniteSet(s.inbound) /\ IsFiniteSet(kept)
  <2>1. IsFiniteSet(1..Len(l))
    BY FS_Interval
  <2>2. kept \subseteq 1..Len(l)
    BY <1>1 DEF IsNewest
  <2> QED BY <1>1, <2>1, <2>2, FS_Subset
<1>3. Cardinality(all) \in Nat /\ Cardinality(kept) \in Nat
      /\ Cardinality(s.inbound) <= Cardinality(all) /\ Cardinality(s.inbound) \in Nat
  BY <1>2, FS_CardinalityType, FS_Subset
<1>4. t.cursor <= Len(l) /\ t.cursor \in Nat
  BY DEF States
<1>5. \A o \in t.inbound : o \in DOMAIN l /\ l[o] \in Deliverable
  BY <1>1 DEF IsNewest
<1>6. ASSUME NEW o \in 1..t.cursor, l[o] \in Deliverable, o \notin kept
      PROVE  Cardinality(kept) >= CacheLimit /\ \A p \in kept : o < p
  <2>1. o <= n /\ o \in 1..Len(l) /\ s.cursor \in Nat
    BY <1>4 DEF States
  <2>2. CASE o \in all
    <3>1. kept # all
      BY <1>6, <2>2
    <3>2. Cardinality(kept) = CacheLimit
      BY <3>1 DEF IsNewest
    <3>3. \A p \in kept : o < p
      BY <1>6, <2>2 DEF IsNewest
    <3> QED BY <3>2, <3>3, LimitAssumption
  <2>3. CASE o \notin all
    <3>1. o <= s.cursor /\ o \in 1..s.cursor /\ o \notin s.inbound
      BY <1>6, <2>1, <2>3
    <3>2. Cardinality(s.inbound) >= CacheLimit /\ \A p \in s.inbound : o < p
      BY <1>6, <3>1 DEF Complete
    <3>3. \A p \in all : o < p
      BY <2>1, <3>1, <3>2
    <3>4. \A p \in kept : o < p
      BY <3>3 DEF IsNewest
    <3>5. Cardinality(kept) >= CacheLimit
      <4>1. kept = all \/ Cardinality(kept) = CacheLimit
        BY DEF IsNewest
      <4>2. CacheLimit \in Nat
        BY LimitAssumption
      <4>3. CASE kept = all
        <5>1. Cardinality(kept) = Cardinality(all)
          BY <4>3
        <5> QED BY <1>3, <3>2, <4>2, <5>1
      <4> QED BY <4>1, <4>2, <4>3
    <3> QED BY <3>4, <3>5
  <2> QED BY <2>2, <2>3
<1> QED BY <1>4, <1>5, <1>6 DEF Complete

\* The log of the next state is the log or the log and one more event.
LEMMA LogStep ==
  ASSUME TypeOK, [Next]_vars
  PROVE  \/ log' = log
         \/ \E e \in Events : log' = Append(log, e)
<1>1. ASSUME NEW e \in EdgeEvents, Process(e)
      PROVE  log' = log \/ \E x \in Events : log' = Append(log, x)
  BY <1>1 DEF Process, Events
<1>2. ASSUME NEW e \in job.todo, FlushEntry(e) PROVE Process(e) /\ e \in EdgeEvents
  BY <1>2 DEF FlushEntry, TypeOK
<1>3. ASSUME NEW e \in orphans, OrphanEntry(e) PROVE Process(e) /\ e \in EdgeEvents
  BY <1>3 DEF OrphanEntry, TypeOK
<1>4. ASSUME NEW e \in CentralEvents, PublishCentral(e)
      PROVE  \E x \in Events : log' = Append(log, x)
  BY <1>4 DEF PublishCentral, Events
<1> QED
  BY <1>1, <1>2, <1>3, <1>4
  DEF Next, SyncStep, ApiStep, QueueOutboxEvent, PersistDone, PersistFails,
      SyncOnce, Heartbeat, FlushNothing, FlushOutbox, FlushTooLarge,
      FlushAnswered, PullReplay, PullNothing, AckAnswered, FinishRound,
      RequestFails, Crash, Restart, AckArrives, vars, api

\* What every step that leaves the log alone or extends it keeps.
LEMMA CompleteStep ==
  ASSUME TypeOK, [Next]_vars, NEW s \in States, Complete(s, log)
  PROVE  Complete(s, log')
<1>1. log \in Seq(Events)
  BY DEF TypeOK
<1> QED BY <1>1, LogStep, CompleteAppend

(* The edge never moves its cursor, in memory or on disk, past an event it   *)
(* may see and has not cached, whatever is lost, delayed, written out of     *)
(* order or restarted: TLC's CacheComplete for every value of the constants. *)
THEOREM CacheIsComplete == Spec => []CacheComplete
<1>1. Init => CacheInv
  <2> SUFFICES ASSUME Init PROVE CacheInv
    OBVIOUS
  <2>1. Complete(Fresh, <<>>)
    BY DEF Complete, Fresh
  <2> QED BY <2>1 DEF Init, CacheInv, CacheComplete
<1>2. TypeOK /\ CacheInv /\ [Next]_vars => CacheInv'
  <2> SUFFICES ASSUME TypeOK, CacheInv, [Next]_vars PROVE CacheInv'
    OBVIOUS
  <2> DEFINE acked == [mem EXCEPT !.cursor = next]
  <2>0. /\ mem \in States /\ disk \in States /\ acked \in States /\ Fresh \in States
        /\ \A k \in DOMAIN writers : writers[k].state \in States
    <3>1. \A k \in DOMAIN writers : writers[k] \in Writer
      BY DEF TypeOK
    <3>2. \A w \in Writer : w.state \in States
      BY DEF Writer
    <3> QED BY <3>1, <3>2 DEF TypeOK, States, Fresh
  <2>1. /\ Complete(mem, log') /\ Complete(disk, log') /\ Complete(Fresh, log')
        /\ \A k \in DOMAIN writers : Complete(writers[k].state, log')
        /\ pc = "ack" => Complete(acked, log')
    <3>1. Complete(Fresh, log)
      BY DEF Complete, Fresh, TypeOK
    <3>2. \A k \in DOMAIN writers : Complete(writers[k].state, log)
      BY DEF CacheInv, CacheComplete
    <3> HIDE DEF acked
    <3>3. \A s \in States : Complete(s, log) => Complete(s, log')
      BY CompleteStep
    <3>4. pc = "ack" => Complete(acked, log)
      BY DEF CacheInv, acked
    <3> QED BY <2>0, <3>1, <3>2, <3>3, <3>4 DEF CacheInv, CacheComplete
  \* Two states with the same cache and cursor are complete together.
  <2>2. ASSUME NEW s, NEW t, t.inbound = s.inbound, t.cursor = s.cursor,
               Complete(s, log')
        PROVE  Complete(t, log')
    BY <2>2 DEF Complete
  \* Steps that leave the cache and the cursor of the memory alone.
  <2> DEFINE Quiet ==
        /\ mem'.inbound = mem.inbound /\ mem'.cursor = mem.cursor
        /\ pc' = "ack" => pc = "ack" /\ next' = next
        /\ disk' = disk \/ \E k \in DOMAIN writers : disk' = writers[k].state
        /\ \A k \in DOMAIN writers' :
             \/ writers'[k].state = mem'
             \/ \E j \in DOMAIN writers : writers'[k].state = writers[j].state
        /\ ~up' => pc' = "idle"
  <2>3. TypeOK'
    BY TypeStep
  <2>4. ASSUME Quiet PROVE CacheInv'
    <3>1. Complete(mem', log')
      BY <2>1, <2>2, <2>4
    <3>2. Complete(disk', log')
      BY <2>1, <2>4
    <3>3. \A k \in DOMAIN writers' : Complete(writers'[k].state, log')
      BY <2>1, <2>4, <3>1
    <3>4. ASSUME pc' = "ack" PROVE Complete([mem' EXCEPT !.cursor = next'], log')
      <4> DEFINE new == [mem' EXCEPT !.cursor = next']
      <4>1. new.inbound = acked.inbound /\ new.cursor = acked.cursor
        BY <2>0, <2>3, <2>4, <3>4 DEF TypeOK, States
      <4>2. Complete(acked, log')
        BY <2>1, <2>4, <3>4
      <4> HIDE DEF new, acked
      <4>3. Complete(new, log')
        BY <2>2, <4>1, <4>2
      <4> QED BY <4>3 DEF new
    <3> QED BY <2>4, <3>1, <3>2, <3>3, <3>4 DEF CacheInv, CacheComplete
  <2>5. ASSUME NEW e \in EdgeEvents, QueueOutboxEvent(e) PROVE Quiet
    <3>1. mem'.inbound = mem.inbound /\ mem'.cursor = mem.cursor
      BY <2>0, <2>5 DEF QueueOutboxEvent, States
    <3>2. \A k \in DOMAIN writers' :
            \/ writers'[k].state = mem'
            \/ k \in DOMAIN writers /\ writers'[k].state = writers[k].state
      BY <2>5, WriteBegins DEF QueueOutboxEvent
    <3> QED BY <2>5, <3>1, <3>2 DEF QueueOutboxEvent, round, CacheInv
  <2>6. ASSUME NEW k \in DOMAIN writers, PersistDone(k) \/ PersistFails(k) PROVE Quiet
    <3>1. \A i \in DOMAIN writers' :
            \E j \in DOMAIN writers : writers'[i].state = writers[j].state
      BY <2>6, WriteEnds
    <3>2. disk' = disk \/ disk' = writers[k].state
      BY <2>6 DEF PersistDone, PersistFails
    <3>3. up' = up /\ mem' = mem /\ pc' = pc /\ next' = next
      BY <2>6 DEF PersistDone, PersistFails, round
    <3> QED BY <3>1, <3>2, <3>3 DEF CacheInv
  <2>7. ASSUME SyncOnce \/ Heartbeat \/ FlushNothing \/ FlushOutbox PROVE Quiet
    BY <2>7 DEF SyncOnce, Heartbeat, FlushNothing, FlushOutbox, edge, CacheInv
  <2>8. ASSUME FlushTooLarge \/ RequestFails PROVE Quiet
    BY <2>0, <2>8 DEF FlushTooLarge, RequestFails, Degraded, States, CacheInv
  <2>9. ASSUME FlushAnswered \/ PullNothing \/ FinishRound PROVE Quiet
    <3>1. CASE FlushAnswered
      BY <2>0, <3>1 DEF FlushAnswered, States, CacheInv
    <3>2. CASE PullNothing
      BY <2>0, <3>2 DEF PullNothing, Online, States, CacheInv
    <3>3. CASE FinishRound
      <4>1. \A k \in DOMAIN writers' :
              \/ writers'[k].state = mem
              \/ k \in DOMAIN writers /\ writers'[k].state = writers[k].state
        BY <3>3, WriteBegins DEF FinishRound
      <4> QED BY <3>3, <4>1 DEF FinishRound, CacheInv
    <3> QED BY <2>9, <3>1, <3>2, <3>3
  <2>10. ASSUME ApiStep \/ \E e \in orphans : OrphanEntry(e) PROVE Quiet
    BY <2>10 DEF ApiStep, FlushEntry, OrphanEntry, AckArrives, edge, round, CacheInv
  <2>11. ASSUME (\E e \in CentralEvents : PublishCentral(e)) \/ UNCHANGED vars PROVE Quiet
    BY <2>11 DEF PublishCentral, vars, edge, round, CacheInv
  <2>12. CASE PullReplay
    <3>1. PICK kept \in SUBSET (mem.inbound \cup Replayed) :
            /\ IsNewest(kept, mem.inbound \cup Replayed, CacheLimit)
            /\ mem' = [mem EXCEPT !.inbound = kept]
      BY <2>12 DEF PullReplay
    <3>2. /\ next' = NextOffset /\ up' = up /\ up /\ log' = log /\ disk' = disk /\ writers' = writers
      BY <2>12 DEF PullReplay, api, CacheInv
    <3>3. log \in Seq(Events) /\ Len(log) \in Nat /\ mem.cursor \in Nat /\ ReplayLimit \in Nat
      BY <2>0, LimitAssumption DEF TypeOK, States
    <3>4. mem.cursor <= Len(log) /\ Complete(mem, log)
      BY DEF CacheInv, CacheComplete, Complete
    <3>5. NextOffset \in Nat /\ mem.cursor <= NextOffset /\ NextOffset <= Len(log)
      BY <3>3, <3>4 DEF NextOffset
    <3>6. Replayed = {o \in DOMAIN log : o > mem.cursor /\ o <= NextOffset /\ log[o] \in Deliverable}
      BY <3>3 DEF Replayed, Scanned, NextOffset
    <3> DEFINE new == [mem' EXCEPT !.cursor = next']
    <3>7. /\ mem' \in States /\ mem'.inbound = kept /\ mem'.cursor = mem.cursor
          /\ new \in States /\ new.inbound = kept /\ new.cursor = NextOffset
      BY <2>0, <2>3, <3>1, <3>2, <3>5 DEF TypeOK, States
    <3> HIDE DEF new
    <3>8. \A t \in States : t.inbound = kept /\ t.cursor \in {mem.cursor, NextOffset}
                              => Complete(t, log)
      BY <2>0, <3>1, <3>3, <3>4, <3>5, <3>6, CompletePull
    <3>9. Complete(mem', log') /\ Complete(new, log')
      BY <3>2, <3>7, <3>8
    <3> QED BY <2>1, <3>2, <3>9 DEF CacheInv, CacheComplete, new
  <2>13. CASE AckAnswered
    <3>1. /\ mem'.inbound = mem.inbound /\ mem'.cursor \in {mem.cursor, next}
          /\ pc' # "ack" /\ pc = "ack" /\ up' /\ disk' = disk /\ writers' = writers
      BY <2>0, <2>13 DEF AckAnswered, Online, States, CacheInv
    <3>2. Complete(mem', log')
      <4>1. acked.inbound = mem.inbound /\ acked.cursor = next
        BY <2>0 DEF States
      <4> HIDE DEF acked
      <4> QED BY <2>1, <2>2, <3>1, <4>1
    <3> QED BY <2>1, <3>1, <3>2 DEF CacheInv, CacheComplete
  <2>14. CASE Crash
    BY <2>1, <2>14 DEF Crash, CacheInv, CacheComplete
  <2>15. CASE Restart
    <3>1. mem' = disk /\ disk' = disk /\ writers' = writers
      BY <2>15 DEF Restart
    <3>2. pc' # "ack" /\ up'
      BY <2>15 DEF Restart, round, CacheInv
    <3> QED BY <2>1, <3>1, <3>2 DEF CacheInv, CacheComplete
  <2> QED
    BY <2>4, <2>5, <2>6, <2>7, <2>8, <2>9, <2>10, <2>11, <2>12, <2>13, <2>14, <2>15
       DEF Next, SyncStep
<1>3. CacheInv => CacheComplete
  BY DEF CacheInv
<1> QED BY <1>1, <1>2, <1>3, TypeCorrect, PTL DEF Spec

-----------------------------------------------------------------------------
(* The central log and dead letter queue only grow.                          *)

LEMMA PublishedAppend ==
  ASSUME NEW l \in Seq(Events), NEW e
  PROVE  {Append(l, e)[o] : o \in DOMAIN Append(l, e)} = {l[o] : o \in DOMAIN l} \cup {e}
<1> DEFINE m == Append(l, e)
<1>1. DOMAIN m = DOMAIN l \cup {Len(l) + 1} /\ m[Len(l) + 1] = e
      /\ \A o \in DOMAIN l : m[o] = l[o]
  OBVIOUS
<1> HIDE DEF m
<1>2. {m[o] : o \in DOMAIN m} = {l[o] : o \in DOMAIN l} \cup {e}
  BY <1>1
<1> QED BY <1>2 DEF m

LEMMA ProcessSettles ==
  ASSUME TypeOK, NEW e \in EdgeEvents, Process(e)
  PROVE  /\ Published' \in {Published, Published \cup {e}}
         /\ e \in Settled'
         /\ e \in Invalid => Published' = Published /\ dlq' = dlq \cup {e}
         /\ e \notin Invalid => Published' = Published \cup {e} /\ dlq' = dlq
<1>1. CASE e \in Invalid
  BY <1>1 DEF Process, Settled, Published
<1>2. CASE e \notin Invalid /\ e \in Published
  <2>1. log' = log /\ dlq' = dlq
    BY <1>2 DEF Process
  <2> QED BY <1>2, <2>1 DEF Settled, Published
<1>3. CASE e \notin Invalid /\ e \notin Published
  <2>1. log' = Append(log, e) /\ dlq' = dlq
    BY <1>3 DEF Process
  <2>2. Published' = Published \cup {e}
    BY <2>1, PublishedAppend DEF Published, TypeOK
  <2> QED BY <1>3, <2>1, <2>2 DEF Settled
<1> QED BY <1>1, <1>2, <1>3

LEMMA SettledGrows ==
  ASSUME TypeOK, [Next]_vars
  PROVE  Settled \subseteq Settled'
<1>1. Published \subseteq Published'
  <2>1. CASE log' = log
    BY <2>1 DEF Published
  <2>2. ASSUME NEW e \in Events, log' = Append(log, e) PROVE Published \subseteq Published'
    BY <2>2, PublishedAppend DEF Published, TypeOK
  <2> QED BY <2>1, <2>2, LogStep
<1>2. dlq \subseteq dlq'
  <2>1. ASSUME NEW e \in EdgeEvents, Process(e) PROVE dlq \subseteq dlq'
    BY <2>1 DEF Process
  <2> QED
    BY <2>1
    DEF Next, SyncStep, ApiStep, QueueOutboxEvent, PersistDone, PersistFails,
        SyncOnce, Heartbeat, FlushNothing, FlushOutbox, FlushTooLarge,
        FlushAnswered, PullReplay, PullNothing, AckAnswered, FinishRound,
        RequestFails, Crash, Restart, AckArrives, FlushEntry, OrphanEntry,
        PublishCentral, vars, api, TypeOK
<1> QED BY <1>1, <1>2 DEF Settled

-----------------------------------------------------------------------------
(* Accepted events.  The invariant follows an entry through the round: what  *)
(* the flush sent is settled once its answer has arrived, so removing it     *)
(* from the outbox loses nothing.                                            *)

KeptInv ==
  /\ ~up => pc = "idle" /\ writers = <<>> /\ crashed
  /\ pc \in {"idle", "heartbeat", "flush", "finish"} => batch = {}
  /\ pc = "flushing" => batch \subseteq job.todo \cup Settled
  /\ pc \in {"pull", "ack"} => batch \subseteq Settled
  /\ \A k \in DOMAIN writers :
       {writers[k].by} \cap EdgeEvents \subseteq mem.outbox \cup Settled
  /\ AcceptedKept

\* Every step keeps in the outbox what is not settled, except a crash.
LEMMA OutboxStep ==
  ASSUME TypeOK, KeptInv, [Next]_vars, up, up'
  PROVE  mem.outbox \subseteq mem'.outbox \cup Settled'
<1>0. mem \in States /\ Settled \subseteq Settled'
  BY SettledGrows DEF TypeOK
<1>1. ASSUME NEW e \in EdgeEvents, QueueOutboxEvent(e) PROVE mem.outbox \subseteq mem'.outbox
  BY <1>0, <1>1 DEF QueueOutboxEvent, States
<1>2. ASSUME FlushAnswered PROVE mem.outbox \subseteq mem'.outbox \cup Settled
  <2>1. mem'.outbox = mem.outbox \ batch
    BY <1>0, <1>2 DEF FlushAnswered, States
  <2>2. batch \subseteq Settled
    BY <1>2 DEF FlushAnswered, KeptInv
  <2> QED BY <2>1, <2>2
<1>3. ASSUME FlushTooLarge \/ RequestFails PROVE mem'.outbox = mem.outbox
  BY <1>0, <1>3 DEF FlushTooLarge, RequestFails, Degraded, States
<1>4. ASSUME PullReplay PROVE mem'.outbox = mem.outbox
  BY <1>0, <1>4 DEF PullReplay, States
<1>5. ASSUME PullNothing PROVE mem'.outbox = mem.outbox
  BY <1>0, <1>5 DEF PullNothing, States
<1>6. ASSUME AckAnswered PROVE mem'.outbox = mem.outbox
  BY <1>0, <1>6 DEF AckAnswered, States
<1> QED
  BY <1>0, <1>1, <1>2, <1>3, <1>4, <1>5, <1>6
  DEF Next, SyncStep, ApiStep, PersistDone, PersistFails, SyncOnce, Heartbeat,
      FlushNothing, FlushOutbox, FinishRound, Crash, Restart, AckArrives,
      FlushEntry, OrphanEntry, PublishCentral, vars, edge

LEMMA KeptInit == Init => KeptInv
BY DEF Init, KeptInv, AcceptedKept

\* The parts of KeptInv about the round.
LEMMA RoundStep ==
  ASSUME TypeOK, KeptInv, [Next]_vars
  PROVE  /\ pc' \in {"idle", "heartbeat", "flush", "finish"} => batch' = {}
         /\ pc' = "flushing" => batch' \subseteq job'.todo \cup Settled'
         /\ pc' \in {"pull", "ack"} => batch' \subseteq Settled'
<1> USE SettledGrows
<1>1. ASSUME UNCHANGED <<pc, batch, job>>
      PROVE  /\ pc' \in {"idle", "heartbeat", "flush", "finish"} => batch' = {}
             /\ pc' = "flushing" => batch' \subseteq job'.todo \cup Settled'
             /\ pc' \in {"pull", "ack"} => batch' \subseteq Settled'
  BY <1>1 DEF KeptInv
<1>2. ASSUME SyncOnce \/ Heartbeat \/ FlushNothing
      PROVE  batch' = {} /\ pc' # "flushing"
  BY <1>2 DEF SyncOnce, Heartbeat, FlushNothing, KeptInv
<1>3. ASSUME FlushOutbox PROVE pc' = "flushing" /\ batch' \subseteq job'.todo
  BY <1>3 DEF FlushOutbox
<1>4. ASSUME FlushTooLarge \/ RequestFails \/ Crash \/ PullNothing \/ AckAnswered
      PROVE  batch' = {} /\ pc' # "flushing"
  BY <1>4 DEF FlushTooLarge, RequestFails, Crash, PullNothing, AckAnswered, Degraded, Online
<1>5. ASSUME FlushAnswered PROVE pc' = "pull" /\ batch' \subseteq Settled'
  BY <1>5 DEF FlushAnswered, KeptInv
<1>6. ASSUME PullReplay PROVE pc' = "ack" /\ batch' \subseteq Settled'
  BY <1>6 DEF PullReplay, KeptInv
<1>7. ASSUME FinishRound PROVE pc' = "idle" /\ batch' = {}
  BY <1>7 DEF FinishRound, KeptInv
<1>8. ASSUME NEW e \in job.todo, FlushEntry(e)
      PROVE  /\ pc' \in {"idle", "heartbeat", "flush", "finish"} => batch' = {}
             /\ pc' = "flushing" => batch' \subseteq job'.todo \cup Settled'
             /\ pc' \in {"pull", "ack"} => batch' \subseteq Settled'
  <2>1. e \in Settled'
    BY <1>8, ProcessSettles DEF FlushEntry, TypeOK
  <2>2. job'.todo = job.todo \ {e} /\ batch' = batch /\ pc' = pc
    BY <1>8 DEF FlushEntry, round
  <2> QED BY <2>1, <2>2 DEF KeptInv
<1>9. ASSUME \/ \E e \in EdgeEvents : QueueOutboxEvent(e)
             \/ \E k \in DOMAIN writers : PersistDone(k) \/ PersistFails(k)
             \/ \E n \in acks : AckArrives(n)
             \/ \E e \in orphans : OrphanEntry(e)
             \/ \E e \in CentralEvents : PublishCentral(e)
             \/ Restart \/ UNCHANGED vars
      PROVE  UNCHANGED <<pc, batch, job>>
  BY <1>9 DEF QueueOutboxEvent, PersistDone, PersistFails, AckArrives, OrphanEntry,
              PublishCentral, Restart, vars, round, wire
<1> QED
  BY <1>1, <1>2, <1>3, <1>4, <1>5, <1>6, <1>7, <1>8, <1>9 DEF Next, SyncStep, ApiStep

\* The parts of KeptInv about the process and its writes.
LEMMA WriterStep ==
  ASSUME TypeOK, KeptInv, [Next]_vars
  PROVE  /\ ~up' => pc' = "idle" /\ writers' = <<>> /\ crashed'
         /\ \A k \in DOMAIN writers' :
              {writers'[k].by} \cap EdgeEvents \subseteq mem'.outbox \cup Settled'
         /\ AcceptedKept'
<1> DEFINE Kept == \A k \in DOMAIN writers' :
                      {writers'[k].by} \cap EdgeEvents \subseteq mem'.outbox \cup Settled'
<1>1. CASE up /\ up'
  <2>1. mem.outbox \cup Settled \subseteq mem'.outbox \cup Settled'
    BY <1>1, OutboxStep, SettledGrows
  <2> DEFINE Fewer == \A k \in DOMAIN writers' :
                        \E j \in DOMAIN writers : writers'[k].by = writers[j].by
             Quiet == Fewer /\ accepted' = accepted /\ crashed' = crashed
  <2>2. ASSUME Quiet PROVE Kept /\ AcceptedKept'
    BY <2>1, <2>2 DEF KeptInv, AcceptedKept
  <2>3. ASSUME NEW e \in EdgeEvents, QueueOutboxEvent(e) PROVE Kept /\ AcceptedKept'
    <3>1. e \in mem'.outbox
      BY <2>3 DEF QueueOutboxEvent, TypeOK, States
    <3>2. /\ \A k \in DOMAIN writers' :
               (k \in DOMAIN writers /\ writers'[k] = writers[k]) \/ writers'[k].by = e
          /\ accepted' = accepted /\ crashed' = crashed
      BY <2>3, WriteBegins DEF QueueOutboxEvent, aux
    <3> QED BY <2>1, <3>1, <3>2 DEF KeptInv, AcceptedKept
  <2>4. ASSUME NEW k \in DOMAIN writers, PersistDone(k) PROVE Kept /\ AcceptedKept'
    <3>1. Fewer
      BY <2>4, WriteEnds
    <3>2. crashed' = crashed /\ accepted' = accepted \cup ({writers[k].by} \cap EdgeEvents)
      BY <2>4 DEF PersistDone
    <3> QED BY <2>1, <3>1, <3>2 DEF KeptInv, AcceptedKept
  <2>5. ASSUME FinishRound PROVE Kept /\ AcceptedKept'
    <3>1. FinishRound => UNCHANGED <<mem, log, dlq, accepted, crashed>>
      BY DEF FinishRound, api, aux
    <3>2. \A k \in DOMAIN writers' :
            (k \in DOMAIN writers /\ writers'[k] = writers[k]) \/ writers'[k].by = "sync"
      BY <2>5, WriteBegins DEF FinishRound
    <3>3. "sync" \notin EdgeEvents
      BY EventAssumption
    <3> QED BY <2>1, <2>5, <3>1, <3>2, <3>3 DEF KeptInv, AcceptedKept
  <2>6. ASSUME \/ SyncOnce \/ Heartbeat \/ FlushNothing \/ FlushOutbox \/ FlushTooLarge
               \/ FlushAnswered \/ PullReplay \/ PullNothing \/ AckAnswered \/ RequestFails
               \/ ApiStep \/ UNCHANGED vars
               \/ \E e \in orphans : OrphanEntry(e)
               \/ \E e \in CentralEvents : PublishCentral(e)
        PROVE  Quiet
    BY <2>6 DEF SyncOnce, Heartbeat, FlushNothing, FlushOutbox, FlushTooLarge,
        FlushAnswered, PullReplay, PullNothing, AckAnswered, RequestFails, ApiStep,
        OrphanEntry, PublishCentral, FlushEntry, AckArrives, vars, edge, aux
  <2>7. ASSUME NEW k \in DOMAIN writers, PersistFails(k) PROVE Quiet
    BY <2>7, WriteEnds DEF PersistFails
  <2> QED
    BY <1>1, <2>2, <2>3, <2>4, <2>5, <2>6, <2>7 DEF Next, SyncStep, Crash, Restart
<1>2. CASE up /\ ~up'
  <2>1. Crash
    BY <1>2 DEF Next, SyncStep, ApiStep, QueueOutboxEvent, PersistDone, PersistFails,
        SyncOnce, Heartbeat, FlushNothing, FlushOutbox, FlushTooLarge,
        FlushAnswered, PullReplay, PullNothing, AckAnswered, FinishRound,
        RequestFails, Restart, AckArrives, FlushEntry, OrphanEntry,
        PublishCentral, vars, edge
  <2> QED BY <2>1 DEF Crash, AcceptedKept
<1>3. CASE ~up
  <2>1. crashed /\ pc = "idle" /\ writers = <<>>
    BY <1>3 DEF KeptInv
  <2>2. DOMAIN writers = {}
    BY <2>1
  <2>3. crashed' /\ writers' = <<>> /\ (~up' => pc' = "idle")
    BY <1>3, <2>1, <2>2 DEF Next, SyncStep, ApiStep, QueueOutboxEvent, PersistDone, PersistFails,
        SyncOnce, Heartbeat, FlushNothing, FlushOutbox, FlushTooLarge,
        FlushAnswered, PullReplay, PullNothing, AckAnswered, FinishRound,
        RequestFails, Crash, Restart, AckArrives, FlushEntry, OrphanEntry,
        PublishCentral, vars, edge, round, aux, file
  <2> QED BY <2>2, <2>3 DEF AcceptedKept
<1> QED
  <2>1. up' => ~(~up')
    OBVIOUS
  <2> QED BY <1>1, <1>2, <1>3

LEMMA KeptStep == TypeOK /\ KeptInv /\ [Next]_vars => KeptInv'
BY RoundStep, WriterStep DEF KeptInv

(* While the process has not crashed, no event whose client got a 202 leaves *)
(* the outbox unsettled, however file writes overlap and requests fail.      *)
THEOREM AcceptedStaysKept == Spec => []AcceptedKept
<1>1. KeptInv => AcceptedKept
  BY DEF KeptInv
<1> QED BY <1>1, KeptInit, KeptStep, TypeCorrect, PTL DEF Spec

(* A round ends ONLINE only when everything it flushed is settled.           *)
THEOREM OnlineIsFlushed == Spec => OnlineMeansFlushed
<1>1. TypeOK /\ KeptInv /\ [Next]_vars
        => [pc # "finish" /\ pc' = "finish" /\ mem'.mode = "ONLINE" => batch \subseteq Settled]_vars
  <2> SUFFICES ASSUME TypeOK, KeptInv, Next, pc # "finish", pc' = "finish", mem'.mode = "ONLINE"
               PROVE  batch \subseteq Settled
    BY DEF vars
  <2>1. CASE PullNothing \/ AckAnswered
    BY <2>1 DEF PullNothing, AckAnswered, KeptInv
  <2>2. CASE FlushTooLarge \/ RequestFails
    <3>1. mem'.mode \in {"DEGRADED", "OFFLINE"}
      BY <2>2 DEF FlushTooLarge, RequestFails, Degraded, TypeOK, States
    <3> QED BY <3>1
  <2> QED
    BY <2>1, <2>2 DEF Next, SyncStep, ApiStep, QueueOutboxEvent, PersistDone, PersistFails,
        SyncOnce, Heartbeat, FlushNothing, FlushOutbox, FlushAnswered, PullReplay,
        FinishRound, Crash, Restart, AckArrives, FlushEntry, OrphanEntry,
        PublishCentral, round
<1> QED BY <1>1, TypeCorrect, KeptInit, KeptStep, PTL DEF Spec, OnlineMeansFlushed

-----------------------------------------------------------------------------
(* Accepted events and the file.  Writes that began before one that has      *)
(* ended are late; what any other carries on its way to the file holds all   *)
(* that the file holds and every accepted event, up to what is settled, and  *)
(* the memory holds what each of them holds.                                 *)

Open(k) == writers[k].state.outbox \cup Settled

OrderInv ==
  \A j, k \in DOMAIN writers : j < k =>
    /\ writers[k].late => writers[j].late
    /\ writers[j].state.outbox \subseteq Open(k)
    /\ {writers[j].by} \cap EdgeEvents \subseteq Open(k)

SnapshotInv ==
  \A k \in DOMAIN writers :
    /\ {writers[k].by} \cap EdgeEvents \subseteq Open(k)
    /\ writers[k].state.outbox \subseteq mem.outbox \cup Settled
    /\ ~writers[k].late =>
         /\ disk.outbox \subseteq Open(k)
         /\ ~lost => accepted \subseteq Open(k)

MemoryInv ==
  IF up THEN /\ disk.outbox \subseteq mem.outbox \cup Settled
             /\ ~lost => accepted \subseteq mem.outbox \cup Settled
        ELSE lost \/ ~stale

DurableInv == OrderInv /\ SnapshotInv /\ MemoryInv /\ AcceptedSurvives

LEMMA DurableInit == Init => DurableInv
BY DEF Init, DurableInv, OrderInv, SnapshotInv, MemoryInv, AcceptedSurvives, AcceptedDurable

\* A write begins: it carries the memory.
LEMMA DurableBegins ==
  ASSUME TypeOK, KeptInv, DurableInv, Settled \subseteq Settled', NEW by, Persisting(by, mem'),
         up, up', mem.outbox \subseteq mem'.outbox, {by} \cap EdgeEvents \subseteq mem'.outbox,
         UNCHANGED <<disk, accepted, stale, lost>>
  PROVE  DurableInv'
<1>1. /\ Len(writers) \in Nat
      /\ DOMAIN writers = 1..Len(writers)
      /\ DOMAIN writers' = 1..(Len(writers) + 1)
      /\ \A k \in DOMAIN writers' :
           \/ k \in DOMAIN writers /\ writers'[k] = writers[k]
           \/ /\ k = Len(writers) + 1
              /\ writers'[k] = [by |-> by, state |-> mem', late |-> FALSE]
  BY WriteBegins
<1>2. /\ disk.outbox \subseteq mem.outbox \cup Settled
      /\ ~lost => accepted \subseteq mem.outbox \cup Settled
  BY DEF DurableInv, MemoryInv
<1>3. OrderInv'
  <2> SUFFICES ASSUME NEW j \in DOMAIN writers', NEW k \in DOMAIN writers', j < k
               PROVE  /\ writers'[k].late => writers'[j].late
                      /\ writers'[j].state.outbox \subseteq writers'[k].state.outbox \cup Settled'
                      /\ {writers'[j].by} \cap EdgeEvents \subseteq writers'[k].state.outbox \cup Settled'
    BY DEF OrderInv, Open
  <2>1. j \in DOMAIN writers /\ writers'[j] = writers[j]
    BY <1>1
  <2>2. CASE k \in DOMAIN writers /\ writers'[k] = writers[k]
    BY <2>1, <2>2 DEF DurableInv, OrderInv, Open
  <2>3. CASE writers'[k] = [by |-> by, state |-> mem', late |-> FALSE]
    <3>1. writers[j].state.outbox \subseteq mem.outbox \cup Settled
      BY <2>1 DEF DurableInv, SnapshotInv
    <3>2. {writers[j].by} \cap EdgeEvents \subseteq mem.outbox \cup Settled
      BY <2>1 DEF KeptInv
    <3> QED BY <2>1, <2>3, <3>1, <3>2
  <2> QED BY <1>1, <2>2, <2>3
<1>4. SnapshotInv'
  <2> SUFFICES ASSUME NEW k \in DOMAIN writers'
               PROVE  /\ {writers'[k].by} \cap EdgeEvents \subseteq writers'[k].state.outbox \cup Settled'
                      /\ writers'[k].state.outbox \subseteq mem'.outbox \cup Settled'
                      /\ ~writers'[k].late =>
                           /\ disk'.outbox \subseteq writers'[k].state.outbox \cup Settled'
                           /\ ~lost' => accepted' \subseteq writers'[k].state.outbox \cup Settled'
    BY DEF SnapshotInv, Open
  <2>1. CASE k \in DOMAIN writers /\ writers'[k] = writers[k]
    BY <2>1 DEF DurableInv, SnapshotInv, Open
  <2>2. CASE writers'[k] = [by |-> by, state |-> mem', late |-> FALSE]
    BY <1>2, <2>2
  <2> QED BY <1>1, <2>1, <2>2
<1>5. MemoryInv' /\ AcceptedSurvives'
  BY <1>2 DEF DurableInv, MemoryInv, AcceptedSurvives, AcceptedDurable
<1> QED BY <1>3, <1>4, <1>5 DEF DurableInv

\* A write ends: those that began before it are late, those that began after it
\* carry all it carried.
LEMMA DurableEnds ==
  ASSUME TypeOK, KeptInv, DurableInv, NEW k \in DOMAIN writers, PersistDone(k) \/ PersistFails(k)
  PROVE  DurableInv'
<1> DEFINE f(i) == Place(k, i)
<1>1. /\ up /\ UNCHANGED <<up, mem, log, dlq, lost>> /\ Settled' = Settled
      /\ \A i \in DOMAIN writers' :
           /\ f(i) \in DOMAIN writers
           /\ writers'[i].by = writers[f(i)].by
           /\ writers'[i].state = writers[f(i)].state
           /\ PersistFails(k) => writers'[i].late = writers[f(i)].late
           /\ PersistDone(k) => (writers'[i].late <=> (writers[f(i)].late \/ i < k))
      /\ \A i, j \in DOMAIN writers' : i < j => f(i) < f(j)
  <2>1. up /\ UNCHANGED <<up, mem, log, dlq, lost>>
    BY DEF PersistDone, PersistFails, KeptInv, api, file
  <2>2. Settled' = Settled
    BY <2>1 DEF Settled, Published
  <2> QED BY <2>1, <2>2, WriteEnds
<1>2. \A i, j \in DOMAIN writers' : i < j /\ j < k => i < k
  <2>1. \A i \in DOMAIN writers' : i \in Nat /\ k \in Nat
    BY WriteEnds
  <2> QED BY <2>1
<1>3. OrderInv'
  <2> SUFFICES ASSUME NEW j \in DOMAIN writers', NEW i \in DOMAIN writers', j < i
               PROVE  /\ writers'[i].late => writers'[j].late
                      /\ writers'[j].state.outbox \subseteq writers'[i].state.outbox \cup Settled'
                      /\ {writers'[j].by} \cap EdgeEvents \subseteq writers'[i].state.outbox \cup Settled'
    BY DEF OrderInv, Open
  <2>1. f(j) \in DOMAIN writers /\ f(i) \in DOMAIN writers /\ f(j) < f(i)
    BY <1>1
  <2> HIDE DEF f
  <2> QED BY <1>1, <1>2, <2>1 DEF DurableInv, OrderInv, Open
<1>4. MemoryInv'
  <2>1. CASE PersistFails(k)
    BY <1>1, <2>1 DEF PersistFails, DurableInv, MemoryInv
  <2>2. CASE PersistDone(k)
    <3>1. /\ disk' = writers[k].state
          /\ accepted' = accepted \cup ({writers[k].by} \cap EdgeEvents)
      BY <2>2 DEF PersistDone
    <3>2. writers[k].state.outbox \subseteq mem.outbox \cup Settled
      BY DEF DurableInv, SnapshotInv
    <3>3. {writers[k].by} \cap EdgeEvents \subseteq mem.outbox \cup Settled
      BY DEF KeptInv
    <3> QED BY <1>1, <3>1, <3>2, <3>3 DEF DurableInv, MemoryInv
  <2> QED BY <2>1, <2>2
<1>5. SnapshotInv'
  <2> SUFFICES ASSUME NEW i \in DOMAIN writers'
               PROVE  /\ {writers'[i].by} \cap EdgeEvents \subseteq writers'[i].state.outbox \cup Settled'
                      /\ writers'[i].state.outbox \subseteq mem'.outbox \cup Settled'
                      /\ ~writers'[i].late =>
                           /\ disk'.outbox \subseteq writers'[i].state.outbox \cup Settled'
                           /\ ~lost' => accepted' \subseteq writers'[i].state.outbox \cup Settled'
    BY DEF SnapshotInv, Open
  <2> DEFINE j == f(i)
  <2>1. j \in DOMAIN writers
    BY <1>1
  <2>2. /\ {writers[j].by} \cap EdgeEvents \subseteq Open(j)
        /\ writers[j].state.outbox \subseteq mem.outbox \cup Settled
        /\ ~writers[j].late =>
             /\ disk.outbox \subseteq Open(j)
             /\ ~lost => accepted \subseteq Open(j)
    BY <2>1 DEF DurableInv, SnapshotInv
  <2>3. Open(j) = writers'[i].state.outbox \cup Settled'
    BY <1>1 DEF Open
  <2>4. CASE PersistFails(k)
    <3>1. disk' = disk /\ accepted' = accepted /\ lost' = lost /\ mem' = mem
      BY <2>4 DEF PersistFails, file
    <3>2. writers'[i].by = writers[j].by /\ writers'[i].late = writers[j].late
      BY <1>1, <2>4
    <3> HIDE DEF j
    <3> QED BY <1>1, <2>2, <2>3, <3>1, <3>2 DEF Open
  <2>5. CASE PersistDone(k)
    <3>1. /\ disk' = writers[k].state
          /\ accepted' = accepted \cup ({writers[k].by} \cap EdgeEvents)
      BY <2>5 DEF PersistDone
    <3>2. ASSUME ~writers'[i].late
          PROVE  ~writers[j].late /\ k < j
      <4>1. ~writers[j].late /\ ~(i < k)
        BY <1>1, <2>5, <3>2
      <4>2. i \in Nat /\ k \in Nat
        BY WriteEnds
      <4> QED BY <4>1, <4>2 DEF Place
    <3>3. ASSUME k < j
          PROVE  /\ writers[k].state.outbox \subseteq Open(j)
                 /\ {writers[k].by} \cap EdgeEvents \subseteq Open(j)
      BY <2>1, <3>3 DEF DurableInv, OrderInv
    <3>4. writers'[i].by = writers[j].by /\ mem' = mem /\ lost' = lost
      BY <1>1
    <3> HIDE DEF j
    <3> QED BY <1>1, <2>2, <2>3, <3>1, <3>2, <3>3, <3>4 DEF Open
  <2> QED BY <2>4, <2>5
<1>6. AcceptedSurvives'
  <2>1. CASE PersistFails(k)
    BY <1>1, <2>1 DEF PersistFails, file, DurableInv, AcceptedSurvives, AcceptedDurable
  <2>2. CASE PersistDone(k)
    <3>1. /\ disk' = writers[k].state /\ stale' = writers[k].late
          /\ accepted' = accepted \cup ({writers[k].by} \cap EdgeEvents)
      BY <2>2 DEF PersistDone
    <3> QED BY <1>1, <3>1 DEF DurableInv, SnapshotInv, Open, AcceptedSurvives, AcceptedDurable
  <2> QED BY <2>1, <2>2
<1> QED BY <1>3, <1>4, <1>5, <1>6 DEF DurableInv

LEMMA DurableStep == TypeOK /\ KeptInv /\ DurableInv /\ [Next]_vars => DurableInv'
<1> SUFFICES ASSUME TypeOK, KeptInv, DurableInv, [Next]_vars PROVE DurableInv'
  OBVIOUS
<1>0. Settled \subseteq Settled'
  BY SettledGrows
<1>1. ASSUME up, up' PROVE mem.outbox \cup Settled \subseteq mem'.outbox \cup Settled'
  BY <1>0, <1>1, OutboxStep
<1>2. ASSUME NEW e \in EdgeEvents, QueueOutboxEvent(e) PROVE DurableInv'
  <2>1. /\ up /\ up' /\ UNCHANGED <<disk, accepted, stale, lost>> /\ Persisting(e, mem')
    BY <1>2 DEF QueueOutboxEvent, aux, file
  <2>2. mem'.outbox = mem.outbox \cup {e}
    BY <1>2 DEF QueueOutboxEvent, TypeOK, States
  <2> QED BY <1>0, <2>1, <2>2, DurableBegins
<1>3. ASSUME FinishRound PROVE DurableInv'
  <2>1. /\ mem' = mem /\ up' = up /\ up /\ UNCHANGED <<disk, accepted, stale, lost>>
        /\ Persisting("sync", mem')
    BY <1>3 DEF FinishRound, aux, file, KeptInv
  <2>2. "sync" \notin EdgeEvents
    BY EventAssumption
  <2> QED BY <1>0, <2>1, <2>2, DurableBegins
<1>4. ASSUME NEW k \in DOMAIN writers, PersistDone(k) \/ PersistFails(k) PROVE DurableInv'
  BY <1>4, DurableEnds
<1>5. ASSUME Restart PROVE DurableInv'
  <2>1. writers' = <<>> /\ mem' = disk /\ UNCHANGED <<disk, accepted, stale, lost>> /\ ~up /\ up'
    BY <1>5 DEF Restart, KeptInv, aux, file
  <2> QED
    BY <1>0, <2>1
    DEF DurableInv, OrderInv, SnapshotInv, MemoryInv, AcceptedSurvives, AcceptedDurable
<1>6. ASSUME Crash PROVE DurableInv'
  <2>1. /\ writers' = <<>> /\ ~up' /\ UNCHANGED <<disk, accepted, stale>>
        /\ lost' = (lost \/ stale)
    BY <1>6 DEF Crash
  <2>2. OrderInv' /\ SnapshotInv' /\ MemoryInv'
    <3>1. DOMAIN writers' = {}
      BY <2>1
    <3> QED BY <2>1, <3>1 DEF OrderInv, SnapshotInv, MemoryInv
  <2>3. AcceptedSurvives'
    BY <1>0, <2>1 DEF DurableInv, AcceptedSurvives, AcceptedDurable
  <2> QED BY <2>2, <2>3 DEF DurableInv
<1> DEFINE Quiet == UNCHANGED <<up, writers, disk, accepted, stale, lost>>
<1>7. ASSUME Quiet PROVE DurableInv'
  <2>1. OrderInv'
    BY <1>0, <1>7 DEF DurableInv, OrderInv, Open
  <2>2. SnapshotInv'
    <3>1. CASE up
      BY <1>0, <1>1, <1>7, <3>1 DEF DurableInv, SnapshotInv, Open
    <3>2. CASE ~up
      BY <1>7, <3>2 DEF KeptInv, SnapshotInv
    <3> QED BY <3>1, <3>2
  <2>3. MemoryInv'
    BY <1>1, <1>7 DEF DurableInv, MemoryInv
  <2>4. AcceptedSurvives'
    BY <1>0, <1>7 DEF DurableInv, AcceptedSurvives, AcceptedDurable
  <2> QED BY <2>1, <2>2, <2>3, <2>4 DEF DurableInv
<1>8. ASSUME \/ SyncOnce \/ Heartbeat \/ FlushNothing \/ FlushOutbox \/ FlushTooLarge
             \/ FlushAnswered \/ PullReplay \/ PullNothing \/ AckAnswered \/ RequestFails
             \/ ApiStep \/ UNCHANGED vars
             \/ \E e \in orphans : OrphanEntry(e)
             \/ \E e \in CentralEvents : PublishCentral(e)
      PROVE  Quiet
  BY <1>8 DEF SyncOnce, Heartbeat, FlushNothing, FlushOutbox, FlushTooLarge,
      FlushAnswered, PullReplay, PullNothing, AckAnswered, RequestFails, ApiStep,
      OrphanEntry, PublishCentral, FlushEntry, AckArrives, vars, edge, aux, file
<1> QED
  BY <1>2, <1>3, <1>4, <1>5, <1>6, <1>7, <1>8 DEF Next, SyncStep

(* However file writes overlap, fail or are cut by a crash, an event whose   *)
(* client got a 202 is in state.json until the central COP has published or  *)
(* dead-lettered it, except while a state serialised earlier has replaced a  *)
(* later one and after the process ended at such a moment.                   *)
THEOREM AcceptedOutlivesCrashes == Spec => []AcceptedSurvives
<1>1. DurableInv => AcceptedSurvives
  BY DEF DurableInv
<1> QED BY <1>1, DurableInit, DurableStep, KeptInit, KeptStep, TypeCorrect, PTL DEF Spec

-----------------------------------------------------------------------------
(* The state file and the central API implement OutboxDelivery.              *)

ParserInv == Published \cap Invalid = {}

LEMMA ParserStep == TypeOK /\ ParserInv /\ [Next]_vars => ParserInv'
<1> SUFFICES ASSUME TypeOK, ParserInv, [Next]_vars PROVE ParserInv'
  OBVIOUS
<1>1. ASSUME NEW e \in EdgeEvents, Process(e) PROVE ParserInv'
  BY <1>1, ProcessSettles DEF ParserInv
<1>2. ASSUME NEW e \in CentralEvents, PublishCentral(e) PROVE ParserInv'
  <2>1. Published' = Published \cup {e}
    BY <1>2, PublishedAppend, LogType DEF PublishCentral, Published
  <2> QED BY <2>1, EventAssumption DEF ParserInv
<1>3. CASE log' = log
  BY <1>3 DEF ParserInv, Published
<1> QED
  BY <1>1, <1>2, <1>3
  DEF Next, SyncStep, ApiStep, QueueOutboxEvent, PersistDone, PersistFails,
      SyncOnce, Heartbeat, FlushNothing, FlushOutbox, FlushTooLarge,
      FlushAnswered, PullReplay, PullNothing, AckAnswered, FinishRound,
      RequestFails, Crash, Restart, AckArrives, FlushEntry, OrphanEntry,
      vars, api, TypeOK

LEMMA FateInit == Init => Delivery!Init
BY DEF Init, Delivery!Init, Fate, Published, Fresh

LEMMA FateProcess ==
  ASSUME TypeOK, ParserInv, NEW e \in EdgeEvents, Process(e), disk' = disk
  PROVE  Delivery!Publish(e) \/ Delivery!DeadLetter(e) \/ Fate' = Fate
<1>1. CASE e \in Invalid
  <2>1. Published' = Published /\ dlq' = dlq \cup {e} /\ e \notin Published
    BY <1>1, ProcessSettles DEF ParserInv
  <2>2. CASE e \in dlq
    BY <2>1, <2>2 DEF Fate
  <2>3. CASE e \notin dlq
    <3>1. Fate[e] \in {"absent", "accepted"}
      BY <2>1, <2>3 DEF Fate
    <3>2. Fate' = [Fate EXCEPT ![e] = "deadLettered"]
      BY <2>1 DEF Fate
    <3> QED BY <3>1, <3>2 DEF Delivery!DeadLetter
  <2> QED BY <2>2, <2>3
<1>2. CASE e \notin Invalid
  <2>1. Published' = Published \cup {e} /\ dlq' = dlq /\ e \notin dlq
    BY <1>2, ProcessSettles DEF TypeOK
  <2>2. CASE e \in Published
    BY <2>1, <2>2 DEF Fate
  <2>3. CASE e \notin Published
    <3>1. Fate[e] \in {"absent", "accepted"}
      BY <2>1, <2>3 DEF Fate
    <3>2. Fate' = [Fate EXCEPT ![e] = "published"]
      BY <2>1 DEF Fate
    <3> QED BY <3>1, <3>2 DEF Delivery!Publish
  <2> QED BY <2>2, <2>3
<1> QED BY <1>1, <1>2

LEMMA FatePersist ==
  ASSUME DurableInv, NEW k \in DOMAIN writers, PersistDone(k), ~stale'
  PROVE  \E es \in SUBSET EdgeEvents : Delivery!Accept(es)
<1> DEFINE es == {e \in EdgeEvents : Fate[e] = "absent" /\ e \in writers[k].state.outbox}
<1>1. disk' = writers[k].state /\ ~writers[k].late /\ log' = log /\ dlq' = dlq
  BY DEF PersistDone, api
<1>2. Published' = Published
  BY <1>1 DEF Published
<1>3. disk.outbox \subseteq writers[k].state.outbox \cup Settled
  BY <1>1 DEF DurableInv, SnapshotInv, Open
<1>4. ASSUME NEW e \in EdgeEvents
      PROVE  Fate'[e] = IF e \in es THEN "accepted" ELSE Fate[e]
  BY <1>1, <1>2, <1>3 DEF Fate, Settled
<1>5. Fate' = [e \in EdgeEvents |-> IF e \in es THEN "accepted" ELSE Fate[e]]
  BY <1>4 DEF Fate
<1>6. \A e \in es : Fate[e] = "absent"
  OBVIOUS
<1> HIDE DEF es
<1>7. es \in SUBSET EdgeEvents
  BY DEF es
<1> QED BY <1>5, <1>6, <1>7 DEF Delivery!Accept

(* The edge node and the central API implement OutboxDelivery, but for the   *)
(* renames that put an older state over a later one: an event once in        *)
(* state.json stays accepted until it is published or dead-lettered, and     *)
(* neither outcome is taken back.                                            *)
THEOREM EdgeImplementsDelivery == Spec => ImplementsDelivery
<1>1. Init => ParserInv
  BY DEF Init, ParserInv, Published
<1>2. TypeOK /\ DurableInv /\ ParserInv /\ [Next]_vars
        => [Delivery!Next \/ StaleRename]_Fate
  <2> SUFFICES ASSUME TypeOK, DurableInv, ParserInv, [Next]_vars
               PROVE  Delivery!Next \/ StaleRename \/ Fate' = Fate
    OBVIOUS
  <2>1. ASSUME NEW e \in EdgeEvents, Process(e), disk' = disk
        PROVE  Delivery!Next \/ Fate' = Fate
    BY <2>1, FateProcess DEF Delivery!Next
  <2>2. ASSUME NEW k \in DOMAIN writers, PersistDone(k)
        PROVE  Delivery!Next \/ StaleRename \/ Fate' = Fate
    <3>1. CASE ~stale'
      BY <2>2, <3>1, FatePersist DEF Delivery!Next
    <3>2. CASE stale' /\ disk' = disk
      BY <2>2, <3>2 DEF PersistDone, api, Fate, Published
    <3> QED BY <3>1, <3>2 DEF StaleRename
  <2>3. ASSUME NEW e \in CentralEvents, PublishCentral(e) PROVE Fate' = Fate
    <3>1. Published' = Published \cup {e} /\ dlq' = dlq /\ disk' = disk
      BY <2>3, PublishedAppend, LogType DEF PublishCentral, Published, edge
    <3> QED BY <3>1, EventAssumption DEF Fate
  <2>4. CASE UNCHANGED <<log, dlq, disk>>
    BY <2>4 DEF Fate, Published
  <2> QED
    BY <2>1, <2>2, <2>3, <2>4
    DEF Next, SyncStep, ApiStep, QueueOutboxEvent, PersistFails,
        SyncOnce, Heartbeat, FlushNothing, FlushOutbox, FlushTooLarge,
        FlushAnswered, PullReplay, PullNothing, AckAnswered, FinishRound,
        RequestFails, Crash, Restart, AckArrives, FlushEntry, OrphanEntry,
        vars, edge, api, TypeOK
<1> QED
  BY <1>1, <1>2, FateInit, ParserStep, DurableInit, DurableStep, KeptInit, KeptStep,
     TypeCorrect, PTL DEF Spec, ImplementsDelivery
=============================================================================
