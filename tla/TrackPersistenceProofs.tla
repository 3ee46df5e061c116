----------------------- MODULE TrackPersistenceProofs ------------------------
(***************************************************************************)
(* Proofs about TrackPersistence, for any tracks and times, any batch and    *)
(* queue size, and any number of events, store errors and restarts.         *)
(***************************************************************************)
EXTENDS TrackPersistence, FiniteSetTheorems, TLAPS

USE PersistenceAssumption

Statement == [kind : {"current", "history"}, event : Event]

-----------------------------------------------------------------------------
(* Facts about the data.                                                     *)

LEMMA NoneIsNoEvent == None \notin Event
<1>1. None.id = 0
  BY DEF None
<1> QED BY <1>1 DEF Event

\* The points of a queue are in the order of their acceptance.
Increasing(s) == \A i, j \in 1..Len(s) : i < j => s[i].id < s[j].id

LEMMA SetOf ==
  ASSUME NEW s \in Seq(Event)
  PROVE  ToSet(s) = {s[i] : i \in 1..Len(s)} /\ ToSet(s) \subseteq Event
BY DEF ToSet

\* Cutting a queue after n points.
LEMMA CutQueue ==
  ASSUME NEW s \in Seq(Event), NEW n \in 0..Len(s), Increasing(s)
  PROVE  LET p == SubSeq(s, 1, n)
             q == SubSeq(s, n + 1, Len(s))
         IN /\ p \in Seq(Event) /\ q \in Seq(Event) /\ Len(q) = Len(s) - n
            /\ ToSet(s) = ToSet(p) \cup ToSet(q)
            /\ ToSet(p) \cap ToSet(q) = {}
            /\ Increasing(q)
<1> DEFINE p == SubSeq(s, 1, n)
           q == SubSeq(s, n + 1, Len(s))
<1>1. p \in Seq(Event) /\ Len(p) = n /\ \A i \in 1..n : p[i] = s[i]
  OBVIOUS
<1>2. q \in Seq(Event) /\ Len(q) = Len(s) - n /\ \A i \in 1..Len(s) - n : q[i] = s[n + i]
  OBVIOUS
<1>3. \A i \in 1..Len(s) : s[i].id \in Nat
  <2>1. \A e \in Event : e.id \in Nat
    BY DEF Event
  <2>2. \A i \in 1..Len(s) : s[i] \in Event
    OBVIOUS
  <2> QED BY <2>1, <2>2
<1> HIDE DEF p, q
<1>4. ToSet(s) = {s[i] : i \in 1..Len(s)} /\ ToSet(p) = {p[i] : i \in 1..n} /\ ToSet(q) = {q[i] : i \in 1..Len(s) - n}
  BY <1>1, <1>2, SetOf
<1>5. ToSet(s) = ToSet(p) \cup ToSet(q)
  <2>1. ASSUME NEW i \in 1..Len(s) PROVE s[i] \in ToSet(p) \cup ToSet(q)
    <3>1. CASE i \in 1..n
      BY <1>1, <1>4, <3>1
    <3>2. CASE i \notin 1..n
      <4>1. i - n \in 1..Len(s) - n /\ n + (i - n) = i
        BY <3>2
      <4> QED BY <1>2, <1>4, <4>1
    <3> QED BY <3>1, <3>2
  <2>2. \A i \in 1..n : p[i] \in ToSet(s)
    BY <1>1, <1>4
  <2>3. ASSUME NEW i \in 1..Len(s) - n PROVE q[i] \in ToSet(s)
    <3>1. n + i \in 1..Len(s) /\ q[i] = s[n + i]
      BY <1>2
    <3> QED BY <1>4, <3>1
  <2> QED BY <1>4, <2>1, <2>2, <2>3
<1>6. ToSet(p) \cap ToSet(q) = {}
  <2> SUFFICES ASSUME NEW i \in 1..n, NEW j \in 1..Len(s) - n, p[i] = q[j] PROVE FALSE
    BY <1>4
  <2>1. i \in 1..Len(s) /\ n + j \in 1..Len(s) /\ i < n + j
    OBVIOUS
  <2>2. s[i].id < s[n + j].id
    BY <2>1 DEF Increasing
  <2> QED BY <1>1, <1>2, <1>3, <2>1, <2>2
<1>7. Increasing(q)
  <2> SUFFICES ASSUME NEW i \in 1..Len(s) - n, NEW j \in 1..Len(s) - n, i < j PROVE q[i].id < q[j].id
    BY <1>2 DEF Increasing
  <2>1. n + i \in 1..Len(s) /\ n + j \in 1..Len(s) /\ n + i < n + j
    OBVIOUS
  <2>2. s[n + i].id < s[n + j].id
    BY <2>1 DEF Increasing
  <2> QED BY <1>2, <2>2
<1> QED BY <1>1, <1>2, <1>5, <1>6, <1>7 DEF p, q

\* A later point at the end of a queue.
LEMMA ExtendQueue ==
  ASSUME NEW s \in Seq(Event), Increasing(s), NEW e \in Event, \A d \in ToSet(s) : d.id < e.id
  PROVE  LET q == Append(s, e)
         IN q \in Seq(Event) /\ Len(q) = Len(s) + 1 /\ ToSet(q) = ToSet(s) \cup {e} /\ Increasing(q)
<1> DEFINE q == Append(s, e)
<1>1. q \in Seq(Event) /\ Len(q) = Len(s) + 1 /\ q[Len(s) + 1] = e /\ \A i \in 1..Len(s) : q[i] = s[i]
  OBVIOUS
<1> HIDE DEF q
<1>2. ToSet(s) = {s[i] : i \in 1..Len(s)} /\ ToSet(q) = {q[i] : i \in 1..Len(s) + 1}
  BY <1>1, SetOf
<1>3. \A i \in 1..Len(s) + 1 : i \in 1..Len(s) \/ i = Len(s) + 1
  OBVIOUS
<1>4. ToSet(q) = ToSet(s) \cup {e}
  BY <1>1, <1>2, <1>3
<1>5. Increasing(q)
  <2> SUFFICES ASSUME NEW i \in 1..Len(s) + 1, NEW j \in 1..Len(s) + 1, i < j PROVE q[i].id < q[j].id
    BY <1>1 DEF Increasing
  <2>1. i \in 1..Len(s) /\ q[i] = s[i] /\ s[i] \in ToSet(s)
    BY <1>1, <1>2
  <2>2. CASE j = Len(s) + 1
    BY <1>1, <2>1, <2>2
  <2>3. CASE j \in 1..Len(s)
    BY <1>1, <2>1, <2>3 DEF Increasing
  <2> QED BY <1>3, <2>2, <2>3
<1> QED BY <1>1, <1>4, <1>5 DEF q

LEMMA LesserFields ==
  ASSUME NEW m \in Nat, NEW n \in Nat
  PROVE  Lesser(m, n) \in 0..n
BY DEF Lesser

-----------------------------------------------------------------------------
(* What the steps do to the queues and tables.                               *)

\* No statement is under way when no flush is.
Settled == flushing \/ inFlight = {}

InOrder == Increasing(pendingHistory)

\* Every event has been numbered when it was accepted.
NumberedSet(es) == \A e \in es : e.id \in 1..accepted

Numbered ==
  /\ NumberedSet(history) /\ NumberedSet(rows) /\ NumberedSet(ToSet(pendingHistory))
  /\ NumberedSet(Writing("history"))

BaseInv == TypeOK /\ Settled /\ InOrder

LEMMA AcceptFields ==
  ASSUME BaseInv, Numbered, NEW o \in Objects, NEW t \in Times, AcceptEvent(o, t)
  PROVE  \E e \in Event :
           /\ e.id = accepted + 1 /\ e.object = o /\ e.time = t /\ accepted' = accepted + 1
           /\ objects' = [objects EXCEPT ![o] = e] /\ history' = history \cup {e}
           /\ status = "ok" =>
                /\ pendingCurrent' = {q \in pendingCurrent : q.object # o} \cup {e}
                /\ timer' = TRUE
                /\ LET queue == Append(pendingHistory, e)
                   IN \/ /\ pendingHistory' = queue /\ dropped' = dropped /\ Len(queue) <= MaxQueue
                      \/ /\ pendingHistory' = SubSeq(queue, 2, Len(queue)) /\ dropped' = dropped + 1
                         /\ Len(queue) = MaxQueue + 1
           /\ status # "ok" => UNCHANGED <<pendingCurrent, pendingHistory, dropped, timer>>
<1> DEFINE e == [id |-> accepted + 1, object |-> o, time |-> t]
<1>1. accepted' = accepted + 1 /\ accepted + 1 \in 1..MaxEvents
  BY DEF AcceptEvent, BaseInv, TypeOK
<1>2. e \in Event /\ e.id = accepted + 1 /\ e.object = o /\ e.time = t
  BY <1>1 DEF Event
<1>3. /\ objects' = [objects EXCEPT ![o] = e] /\ history' = history \cup {e}
      /\ IF status = "ok"
         THEN /\ pendingCurrent' = {q \in pendingCurrent : q.object # o} \cup {e}
              /\ Enqueue(e)
              /\ timer' = TRUE
         ELSE UNCHANGED <<pendingCurrent, pendingHistory, dropped, timer>>
  BY <1>1 DEF AcceptEvent
<1> HIDE DEF e
<1>4. ASSUME Enqueue(e)
      PROVE  LET queue == Append(pendingHistory, e)
             IN \/ /\ pendingHistory' = queue /\ dropped' = dropped /\ Len(queue) <= MaxQueue
                \/ /\ pendingHistory' = SubSeq(queue, 2, Len(queue)) /\ dropped' = dropped + 1
                   /\ Len(queue) = MaxQueue + 1
  <2> DEFINE queue == Append(pendingHistory, e)
             overflow == IF Len(queue) > MaxQueue THEN Len(queue) - MaxQueue ELSE 0
  <2>1. queue \in Seq(Event) /\ Len(queue) = Len(pendingHistory) + 1 /\ Len(pendingHistory) \in 0..MaxQueue
        /\ dropped \in Nat
    BY <1>2 DEF BaseInv, TypeOK
  <2>2. pendingHistory' = SubSeq(queue, overflow + 1, Len(queue)) /\ dropped' = dropped + overflow
    BY <1>4 DEF Enqueue
  <2> HIDE DEF queue, overflow
  <2>3. CASE Len(queue) <= MaxQueue
    <3>1. overflow = 0
      BY <2>1, <2>3 DEF overflow
    <3>2. SubSeq(queue, 1, Len(queue)) = queue
      BY <2>1
    <3>3. pendingHistory' = queue /\ dropped' = dropped
      BY <2>1, <2>2, <3>1, <3>2
    <3> QED BY <2>3, <3>3 DEF queue
  <2>4. CASE Len(queue) > MaxQueue
    <3>1. overflow = 1 /\ Len(queue) = MaxQueue + 1
      BY <2>1, <2>4 DEF overflow
    <3>2. pendingHistory' = SubSeq(queue, 2, Len(queue)) /\ dropped' = dropped + 1
      BY <2>2, <3>1
    <3> QED BY <3>1, <3>2 DEF queue
  <2> QED BY <2>1, <2>3, <2>4
<1> QED BY <1>1, <1>2, <1>3, <1>4

\* The history queue after an event, and what it has dropped.
LEMMA EnqueueFields ==
  ASSUME BaseInv, Numbered, NEW e \in Event, e.id = accepted + 1,
         LET queue == Append(pendingHistory, e)
         IN \/ /\ pendingHistory' = queue /\ dropped' = dropped /\ Len(queue) <= MaxQueue
            \/ /\ pendingHistory' = SubSeq(queue, 2, Len(queue)) /\ dropped' = dropped + 1
               /\ Len(queue) = MaxQueue + 1
  PROVE  /\ pendingHistory' \in Seq(Event) /\ Len(pendingHistory') <= MaxQueue
         /\ Increasing(pendingHistory') /\ dropped' \in Nat
         /\ \/ dropped' = dropped /\ ToSet(pendingHistory') = ToSet(pendingHistory) \cup {e}
            \/ /\ dropped' = dropped + 1
               /\ \E d \in ToSet(pendingHistory) : ToSet(pendingHistory') = (ToSet(pendingHistory) \ {d}) \cup {e}
<1> DEFINE queue == Append(pendingHistory, e)
<1>0. pendingHistory \in Seq(Event) /\ Increasing(pendingHistory) /\ dropped \in Nat /\ accepted \in Nat
  BY DEF BaseInv, TypeOK, InOrder
<1>1. \A d \in ToSet(pendingHistory) : d.id < e.id
  <2>1. \A d \in ToSet(pendingHistory) : d.id \in 1..accepted
    BY DEF Numbered, NumberedSet
  <2> QED BY <1>0, <2>1
<1>2. /\ queue \in Seq(Event) /\ Len(queue) = Len(pendingHistory) + 1
      /\ ToSet(queue) = ToSet(pendingHistory) \cup {e} /\ Increasing(queue)
  BY <1>0, <1>1, ExtendQueue
<1>3. CASE pendingHistory' = queue /\ dropped' = dropped /\ Len(queue) <= MaxQueue
  BY <1>0, <1>2, <1>3
<1>4. CASE pendingHistory' = SubSeq(queue, 2, Len(queue)) /\ dropped' = dropped + 1 /\ Len(queue) = MaxQueue + 1
  <2> DEFINE p == SubSeq(queue, 1, 1)
  <2>1. Len(queue) \in Nat /\ 1 \in 0..Len(queue) /\ Len(pendingHistory) \in Nat /\ Len(pendingHistory) >= 1
    BY <1>0, <1>2, <1>4
  <2>2. queue[1] = pendingHistory[1] /\ pendingHistory[1] \in Event
    BY <1>0, <2>1
  <2> HIDE DEF queue
  <2>a. p \in Seq(Event) /\ Len(p) = 1 /\ p[1] = queue[1]
    BY <1>2, <2>1
  <2> HIDE DEF p
  <2>3. /\ pendingHistory' \in Seq(Event) /\ Len(pendingHistory') = Len(queue) - 1 /\ Increasing(pendingHistory')
        /\ ToSet(queue) = ToSet(p) \cup ToSet(pendingHistory') /\ ToSet(p) \cap ToSet(pendingHistory') = {}
    BY <1>2, <1>4, <2>1, CutQueue DEF p
  <2>4. ToSet(p) = {pendingHistory[1]}
    <3>1. ToSet(p) = {p[i] : i \in 1..1}
      BY <2>a, SetOf
    <3> QED BY <2>2, <2>a, <3>1
  <2>5. pendingHistory[1] \in ToSet(pendingHistory)
    BY <1>0, <2>1, SetOf
  <2>6. pendingHistory[1] # e
    BY <1>0, <1>1, <2>5
  <2>7. ToSet(pendingHistory') = (ToSet(pendingHistory) \ {pendingHistory[1]}) \cup {e}
    BY <1>2, <2>3, <2>4, <2>6
  <2>8. Len(pendingHistory') <= MaxQueue /\ dropped' \in Nat
    BY <1>0, <1>4, <2>1, <2>3
  <2> QED BY <1>4, <2>3, <2>5, <2>7, <2>8
<1> QED BY <1>3, <1>4

\* The statements of a batch.
Sent(statements, kind) == {w.event : w \in {v \in statements : v.kind = kind}}

BatchOf(objs, points) == [kind : {"current"}, event : objs] \cup [kind : {"history"}, event : points]

LEMMA StatementsOf ==
  ASSUME NEW objs, NEW points
  PROVE  Sent(BatchOf(objs, points), "current") = objs /\ Sent(BatchOf(objs, points), "history") = points
<1> DEFINE sent == BatchOf(objs, points)
<1> USE DEF BatchOf
<1>1. /\ \A x \in objs : [kind |-> "current", event |-> x] \in sent
      /\ \A x \in points : [kind |-> "history", event |-> x] \in sent
  OBVIOUS
<1>2. /\ \A v \in sent : v.kind = "current" => v.event \in objs
      /\ \A v \in sent : v.kind = "history" => v.event \in points
  OBVIOUS
<1>3. /\ \A x \in objs : \E v \in sent : v.kind = "current" /\ v.event = x
      /\ \A x \in points : \E v \in sent : v.kind = "history" /\ v.event = x
  <2>1. ASSUME NEW x \in objs PROVE \E v \in sent : v.kind = "current" /\ v.event = x
    BY <1>1
  <2>2. ASSUME NEW x \in points PROVE \E v \in sent : v.kind = "history" /\ v.event = x
    BY <1>1
  <2> QED BY <2>1, <2>2
<1>4. Sent(sent, "current") = objs
  BY <1>2, <1>3 DEF Sent
<1>5. Sent(sent, "history") = points
  BY <1>2, <1>3 DEF Sent
<1> QED BY <1>4, <1>5

\* A batch: every point leaves the queue for its statement, in order.
LEMMA BatchFields ==
  ASSUME BaseInv, TakeBatch
  PROVE  /\ flushing' = TRUE
         /\ pendingHistory' \in Seq(Event) /\ Len(pendingHistory') <= MaxQueue /\ Increasing(pendingHistory')
         /\ pendingCurrent' \subseteq pendingCurrent
         /\ inFlight' \subseteq Statement
         /\ ToSet(pendingHistory') \subseteq ToSet(pendingHistory)
         /\ Writing("history")' \subseteq ToSet(pendingHistory)
         /\ status = "ok" =>
              /\ pendingCurrent = pendingCurrent' \cup Writing("current")'
              /\ pendingCurrent' \cap Writing("current")' = {}
              /\ ToSet(pendingHistory) = ToSet(pendingHistory') \cup Writing("history")'
              /\ ToSet(pendingHistory') \cap Writing("history")' = {}
<1> DEFINE n == Lesser(BatchSize, Len(pendingHistory))
           points == SubSeq(pendingHistory, 1, n)
<1>0. pendingHistory \in Seq(Event) /\ Increasing(pendingHistory) /\ Len(pendingHistory) \in 0..MaxQueue
      /\ pendingCurrent \subseteq Event
  BY DEF BaseInv, TypeOK, InOrder
<1>1. PICK objs \in SUBSET pendingCurrent :
        /\ pendingCurrent' = pendingCurrent \ objs
        /\ pendingHistory' = SubSeq(pendingHistory, n + 1, Len(pendingHistory))
        /\ inFlight' = IF status = "ok"
                       THEN [kind : {"current"}, event : objs] \cup [kind : {"history"}, event : ToSet(points)]
                       ELSE {}
  BY DEF TakeBatch
<1>2. n \in 0..Len(pendingHistory)
  <2>1. BatchSize \in Nat /\ Len(pendingHistory) \in Nat
    BY <1>0
  <2> QED BY <2>1, LesserFields
<1> HIDE DEF n
<1>3. /\ points \in Seq(Event) /\ pendingHistory' \in Seq(Event)
      /\ Len(pendingHistory') = Len(pendingHistory) - n
      /\ ToSet(pendingHistory) = ToSet(points) \cup ToSet(pendingHistory')
      /\ ToSet(points) \cap ToSet(pendingHistory') = {}
      /\ Increasing(pendingHistory')
  BY <1>0, <1>1, <1>2, CutQueue
<1> HIDE DEF points
<1>4. ToSet(points) \subseteq Event
  BY <1>3, SetOf
<1>5. CASE status = "ok"
  <2>1. inFlight' = [kind : {"current"}, event : objs] \cup [kind : {"history"}, event : ToSet(points)]
    BY <1>1, <1>5
  <2>2. Writing("current")' = objs /\ Writing("history")' = ToSet(points)
    <3>0. inFlight' = BatchOf(objs, ToSet(points))
      BY <2>1 DEF BatchOf
    <3>1. Sent(inFlight', "current") = objs /\ Sent(inFlight', "history") = ToSet(points)
      BY <3>0, StatementsOf
    <3>2. Writing("current")' = Sent(inFlight', "current") /\ Writing("history")' = Sent(inFlight', "history")
      BY DEF Writing, Sent
    <3> QED BY <3>1, <3>2
  <2>4. inFlight' \subseteq Statement
    BY <1>0, <1>4, <2>1 DEF Statement
  <2>5. flushing' = TRUE
    BY DEF TakeBatch
  <2> QED BY <1>0, <1>1, <1>2, <1>3, <2>2, <2>4, <2>5
<1>6. CASE status # "ok"
  <2>1. inFlight' = {} /\ flushing' = TRUE
    BY <1>1, <1>6 DEF TakeBatch
  <2>2. Writing("history")' = {}
    BY <2>1 DEF Writing
  <2> QED BY <1>0, <1>1, <1>2, <1>3, <1>6, <2>1, <2>2
<1> QED BY <1>5, <1>6

\* The steps of a flush: the next batch is taken when nothing is under way, or
\* the queues stay as they are.
LEMMA FlushFields ==
  ASSUME BaseInv, TimerFires \/ BatchDone \/ ReadTrackHistory
  PROVE  /\ UNCHANGED <<accepted, disordered, objects, history, status, dropped, rows, current,
                        missed, faults, restarts>>
         /\ timer' \in BOOLEAN /\ flushing' \in BOOLEAN
         /\ reader' \in {Idle} \cup [at : {"flush", "query"}, knows : SUBSET Event, joined : BOOLEAN]
         /\ \/ TakeBatch /\ inFlight = {}
            \/ /\ UNCHANGED <<pendingCurrent, pendingHistory, inFlight>>
               /\ flushing' \/ inFlight = {}
<1> USE DEF arrivals, memory, queues, tables
<1>0. /\ timer \in BOOLEAN /\ flushing \in BOOLEAN /\ history \subseteq Event
      /\ reader \in {Idle} \cup [at : {"flush", "query"}, knows : SUBSET Event, joined : BOOLEAN]
      /\ flushing \/ inFlight = {}
  BY DEF BaseInv, TypeOK, Settled
<1>1. CASE TimerFires
  <2>1. UNCHANGED <<accepted, disordered, objects, history, status, dropped, rows, current,
                    missed, faults, restarts, reader>>
    BY <1>1 DEF TimerFires, reading
  <2>2. CASE ~flushing /\ Queued
    BY <1>0, <1>1, <2>1, <2>2 DEF TimerFires, TakeBatch
  <2>3. CASE ~(~flushing /\ Queued)
    BY <1>0, <1>1, <2>1, <2>3 DEF TimerFires
  <2> QED BY <2>2, <2>3
<1>2. CASE BatchDone
  <2>1. UNCHANGED <<accepted, disordered, objects, history, status, dropped, rows, current,
                    missed, faults, restarts, timer>> /\ inFlight = {}
    BY <1>2 DEF BatchDone
  <2>2. CASE Queued
    BY <1>0, <1>2, <2>1, <2>2 DEF BatchDone, TakeBatch
  <2>3. CASE ~Queued
    <3>1. UNCHANGED <<pendingCurrent, pendingHistory, inFlight>> /\ flushing' = FALSE
      BY <1>2, <2>3 DEF BatchDone
    <3>2. reader' \in {Idle} \cup [at : {"flush", "query"}, knows : SUBSET Event, joined : BOOLEAN]
      BY <1>0, <1>2, <2>3 DEF BatchDone, Idle
    <3> QED BY <1>0, <2>1, <3>1, <3>2
  <2> QED BY <2>2, <2>3
<1>3. CASE ReadTrackHistory
  <2>1. UNCHANGED <<accepted, disordered, objects, history, status, dropped, rows, current,
                    missed, faults, restarts>>
    BY <1>3 DEF ReadTrackHistory
  <2>2. CASE flushing
    <3>1. /\ reader' = [at |-> "query", knows |-> history, joined |-> TRUE]
          /\ timer' = TRUE /\ UNCHANGED <<pendingCurrent, pendingHistory, inFlight, flushing>>
      BY <1>3, <2>2 DEF ReadTrackHistory
    <3> QED BY <1>0, <2>1, <2>2, <3>1
  <2>3. CASE ~flushing /\ Queued
    <3>1. TakeBatch /\ reader' = [at |-> "flush", knows |-> history, joined |-> FALSE] /\ timer' = timer /\ flushing' = TRUE
      BY <1>3, <2>3 DEF ReadTrackHistory, TakeBatch
    <3> QED BY <1>0, <2>1, <2>3, <3>1
  <2>4. CASE ~flushing /\ ~Queued
    <3>1. /\ reader' = [at |-> "query", knows |-> history, joined |-> FALSE]
          /\ timer' = timer /\ UNCHANGED <<pendingCurrent, pendingHistory, inFlight, flushing>>
      BY <1>3, <2>4 DEF ReadTrackHistory
    <3> QED BY <1>0, <2>1, <3>1
  <2> QED BY <2>2, <2>3, <2>4
<1> QED BY <1>1, <1>2, <1>3

\* A statement adds its point, or replaces a row that is not newer.
LEMMA WriteFields ==
  ASSUME TypeOK, NEW w \in inFlight, Write(w)
  PROVE  /\ w.event \in Event /\ w.kind \in {"current", "history"}
         /\ rows' = rows \cup (IF w.kind = "history" THEN {w.event} ELSE {})
         /\ current' \in [Objects -> Event \cup {None}]
         /\ w.kind = "history" => current' = current
         /\ \A o \in Objects :
              \/ current'[o] = current[o]
              \/ /\ w.kind = "current" /\ w.event.object = o /\ current'[o] = w.event
                 /\ current[o] = None \/ current[o].time <= w.event.time
         /\ w.kind = "current" =>
              \/ current'[w.event.object] = w.event
              \/ /\ current[w.event.object] # None /\ ~(current[w.event.object].time <= w.event.time)
                 /\ current'[w.event.object] = current[w.event.object]
<1>0. w \in [kind : {"current", "history"}, event : Event] /\ current \in [Objects -> Event \cup {None}]
  BY DEF TypeOK
<1>1. w.event \in Event /\ w.kind \in {"current", "history"}
  BY <1>0
<1>2. CASE w.kind = "history"
  BY <1>0, <1>1, <1>2 DEF Write
<1>3. CASE w.kind = "current"
  <2>1. PICK o \in Objects : o = w.event.object
    BY <1>1 DEF Event
  <2>2. PICK v : v = IF current[o] = None \/ current[o].time <= w.event.time THEN w.event ELSE current[o]
    OBVIOUS
  <2>3. current' = [current EXCEPT ![o] = v] /\ rows' = rows
    BY <1>3, <2>1, <2>2 DEF Write
  <2>4. v \in Event \cup {None}
    BY <1>0, <1>1, <2>2
  <2>5. current'[o] = v /\ \A p \in Objects \ {o} : current'[p] = current[p]
    BY <1>0, <2>3
  <2>6. current' \in [Objects -> Event \cup {None}]
    BY <1>0, <2>3, <2>4
  <2> QED BY <1>1, <1>3, <2>1, <2>2, <2>3, <2>5, <2>6
<1> QED BY <1>1, <1>2, <1>3

\* What a restart leaves in the tables.
LEMMA RestartFields ==
  ASSUME TypeOK, Restart
  PROVE  /\ rows \subseteq rows' /\ rows' \subseteq rows \cup Writing("history")
         /\ current' \in [Objects -> Event \cup {None}]
         /\ \A o \in Objects :
              \/ current'[o] = current[o]
              \/ \E w \in inFlight :
                   /\ w.kind = "current" /\ w.event.object = o /\ current'[o] = w.event
                   /\ current[o] = None \/ current[o].time <= w.event.time
         /\ status' \in {"ok", "degraded"} /\ faults' \in Nat
         /\ objects' \in {current', [o \in Objects |-> None]} /\ (status' = "ok" => objects' = current')
<1>0. /\ \A w \in inFlight : w.event \in Event
      /\ current \in [Objects -> Event \cup {None}]
  BY DEF TypeOK
<1>1. PICK done \in SUBSET inFlight :
       /\ rows' = rows \cup {w.event : w \in {v \in done : v.kind = "history"}}
       /\ current' = [o \in Objects |->
            LET new == {w \in done : w.kind = "current" /\ w.event.object = o}
            IN IF new = {} THEN current[o]
               ELSE LET e == (CHOOSE w \in new : TRUE).event
                    IN IF current[o] = None \/ current[o].time <= e.time THEN e ELSE current[o]]
  BY DEF Restart
<1>2. rows \subseteq rows' /\ rows' \subseteq rows \cup Writing("history")
  BY <1>1 DEF Writing
<1>3. ASSUME NEW o \in Objects
      PROVE  \/ current'[o] = current[o]
             \/ \E w \in inFlight :
                  /\ w.kind = "current" /\ w.event.object = o /\ current'[o] = w.event
                  /\ current[o] = None \/ current[o].time <= w.event.time
  <2> DEFINE new == {w \in done : w.kind = "current" /\ w.event.object = o}
             x == CHOOSE w \in new : TRUE
  <2>1. current'[o] = IF new = {} THEN current[o]
                      ELSE IF current[o] = None \/ current[o].time <= x.event.time THEN x.event ELSE current[o]
    BY <1>1
  <2>2. new # {} => x \in new
    OBVIOUS
  <2>3. \A w \in new : w \in inFlight /\ w.kind = "current" /\ w.event.object = o
    OBVIOUS
  <2> HIDE DEF new, x
  <2> QED BY <2>1, <2>2, <2>3
<1>4. \A o \in Objects : current'[o] \in Event \cup {None}
  BY <1>0, <1>3
<1>5. current' \in [Objects -> Event \cup {None}]
  <2>1. PICK f : current' = [o \in Objects |-> f[o]]
    <3> DEFINE v(o) == LET new == {w \in done : w.kind = "current" /\ w.event.object = o}
            IN IF new = {} THEN current[o]
               ELSE LET e == (CHOOSE w \in new : TRUE).event
                    IN IF current[o] = None \/ current[o].time <= e.time THEN e ELSE current[o]
    <3>1. current' = [o \in Objects |-> v(o)]
      BY <1>1
    <3> HIDE DEF v
    <3>2. current' = [o \in Objects |-> current'[o]]
      BY <3>1
    <3> QED BY <3>2
  <2>2. \A o \in Objects : f[o] \in Event \cup {None}
    BY <1>4, <2>1
  <2> QED BY <2>1, <2>2
<1>6. status' \in {"ok", "degraded"} /\ faults' \in Nat
  BY DEF Restart, TypeOK
<1>7. objects' \in {current', [o \in Objects |-> None]} /\ (status' = "ok" => objects' = current')
  BY DEF Restart
<1> QED BY <1>2, <1>3, <1>5, <1>6, <1>7

\* The answer to a history request.
LEMMA ReadFields ==
  ASSUME TypeOK, ReadAnswered \/ QueryFails
  PROVE  /\ UNCHANGED <<accepted, disordered, objects, history, pendingCurrent, pendingHistory, inFlight,
                        dropped, timer, flushing, rows, current, restarts>>
         /\ missed' \subseteq Event /\ reader' = Idle /\ faults' \in Nat
         /\ status' = status \/ status' = "degraded"
<1> USE DEF arrivals, memory, queues, tables
<1>1. reader.at = "query"
  BY DEF ReadAnswered, QueryFails
<1>2. reader.knows \subseteq Event
  BY <1>1 DEF TypeOK, Idle
<1>3. missed' \subseteq Event
  BY <1>2 DEF ReadAnswered, QueryFails
<1> QED BY <1>3 DEF ReadAnswered, QueryFails, TypeOK

-----------------------------------------------------------------------------
(* The type invariant, with what the queues hold.                            *)

QueueInv == BaseInv /\ Numbered

LEMMA QueueInit == Init => QueueInv
<1> SUFFICES ASSUME Init PROVE QueueInv
  OBVIOUS
<1>1. Len(<< >>) = 0 /\ ToSet(<< >>) = {} /\ << >> \in Seq(Event)
  BY DEF ToSet
<1>a. pendingHistory \in Seq(Event) /\ Len(pendingHistory) <= MaxQueue
  BY <1>1 DEF Init
<1>2. TypeOK
  <2>1. accepted \in 0..MaxEvents /\ dropped \in Nat /\ faults \in Nat /\ restarts \in Nat
    BY DEF Init
  <2>2. objects \in [Objects -> Event \cup {None}] /\ current \in [Objects -> Event \cup {None}]
    BY DEF Init
  <2>3. /\ disordered = {} /\ history = {} /\ status = "ok" /\ pendingCurrent = {} /\ timer = FALSE
        /\ flushing = FALSE /\ inFlight = {} /\ rows = {} /\ reader = Idle /\ missed = {}
    BY DEF Init
  <2> QED BY <1>a, <2>1, <2>2, <2>3 DEF TypeOK
<1>3. Settled /\ InOrder
  BY <1>1 DEF Init, Settled, InOrder, Increasing
<1>4. Numbered
  BY <1>1 DEF Init, Numbered, NumberedSet, Writing
<1> QED BY <1>2, <1>3, <1>4 DEF QueueInv, BaseInv

\* Points that leave a queue or a statement are still numbered.
LEMMA NumberedAlone ==
  ASSUME Numbered, accepted \in Nat, accepted' \in Nat, accepted' >= accepted,
         history' \subseteq history,
         rows' \subseteq rows \cup Writing("history"),
         ToSet(pendingHistory') \subseteq ToSet(pendingHistory),
         Writing("history")' \subseteq Writing("history") \cup ToSet(pendingHistory)
  PROVE  Numbered'
<1>1. \A e \in history' \cup rows' \cup ToSet(pendingHistory') \cup Writing("history")' : e.id \in 1..accepted
  BY DEF Numbered, NumberedSet
<1>2. \A e \in history' \cup rows' \cup ToSet(pendingHistory') \cup Writing("history")' : e.id \in 1..accepted'
  BY <1>1
<1>3. /\ \A e \in history' : e.id \in 1..accepted'
      /\ \A e \in rows' : e.id \in 1..accepted'
      /\ \A e \in ToSet(pendingHistory') : e.id \in 1..accepted'
      /\ \A e \in Writing("history")' : e.id \in 1..accepted'
  BY <1>2
<1> QED BY <1>3 DEF Numbered, NumberedSet

LEMMA WritingShrinks ==
  ASSUME inFlight' \subseteq inFlight
  PROVE  Writing("history")' \subseteq Writing("history") /\ Writing("current")' \subseteq Writing("current")
BY DEF Writing

LEMMA QueueStep == QueueInv /\ [Next]_vars => QueueInv'
<1> SUFFICES ASSUME QueueInv, [Next]_vars PROVE QueueInv'
  OBVIOUS
<1> USE DEF arrivals, memory, queues, tables, reading
<1>0. TypeOK /\ Settled /\ InOrder /\ Numbered /\ BaseInv /\ accepted \in Nat
  BY DEF QueueInv, BaseInv, TypeOK
<1>1. ASSUME NEW o \in Objects, NEW t \in Times, AcceptEvent(o, t) PROVE QueueInv'
  <2>1. PICK e \in Event :
           /\ e.id = accepted + 1 /\ e.object = o /\ e.time = t /\ accepted' = accepted + 1
           /\ objects' = [objects EXCEPT ![o] = e] /\ history' = history \cup {e}
           /\ status = "ok" =>
                /\ pendingCurrent' = {q \in pendingCurrent : q.object # o} \cup {e}
                /\ timer' = TRUE
                /\ LET queue == Append(pendingHistory, e)
                   IN \/ /\ pendingHistory' = queue /\ dropped' = dropped /\ Len(queue) <= MaxQueue
                      \/ /\ pendingHistory' = SubSeq(queue, 2, Len(queue)) /\ dropped' = dropped + 1
                         /\ Len(queue) = MaxQueue + 1
           /\ status # "ok" => UNCHANGED <<pendingCurrent, pendingHistory, dropped, timer>>
    BY <1>0, <1>1, AcceptFields
  <2>2. UNCHANGED <<status, flushing, inFlight, rows, current, reader, missed, faults, restarts>>
        /\ disordered' \subseteq Objects /\ accepted' \in 0..MaxEvents
    BY <1>0, <1>1 DEF AcceptEvent, TypeOK
  <2>3. /\ pendingHistory' \in Seq(Event) /\ Len(pendingHistory') <= MaxQueue
        /\ Increasing(pendingHistory') /\ dropped' \in Nat
        /\ ToSet(pendingHistory') \subseteq ToSet(pendingHistory) \cup {e}
    <3>1. CASE status = "ok"
      BY <1>0, <2>1, <3>1, EnqueueFields
    <3>2. CASE status # "ok"
      BY <1>0, <2>1, <3>2 DEF TypeOK, InOrder
    <3> QED BY <3>1, <3>2
  <2>4. pendingCurrent' \subseteq Event /\ timer' \in BOOLEAN
    BY <1>0, <2>1 DEF TypeOK
  <2>5. objects' \in [Objects -> Event \cup {None}] /\ history' \subseteq Event
    BY <1>0, <2>1 DEF TypeOK
  <2>6. TypeOK'
    BY <1>0, <2>2, <2>3, <2>4, <2>5 DEF TypeOK
  <2>7. Settled' /\ InOrder'
    BY <1>0, <2>2, <2>3 DEF Settled, InOrder
  <2>8. Writing("history")' = Writing("history")
    BY <2>2 DEF Writing
  <2>9. \A d \in history' \cup rows' \cup ToSet(pendingHistory') \cup Writing("history")' : d.id \in 1..accepted'
    <3>1. \A d \in history \cup rows \cup ToSet(pendingHistory) \cup Writing("history") : d.id \in 1..accepted
      BY <1>0 DEF Numbered, NumberedSet
    <3>2. \A d \in history \cup rows \cup ToSet(pendingHistory) \cup Writing("history") : d.id \in 1..accepted'
      BY <1>0, <2>1, <3>1
    <3>3. e.id \in 1..accepted'
      BY <1>0, <2>1
    <3> QED BY <2>1, <2>2, <2>3, <2>8, <3>2, <3>3
  <2>10. Numbered'
    <3>1. /\ \A d \in history' : d.id \in 1..accepted'
          /\ \A d \in rows' : d.id \in 1..accepted'
          /\ \A d \in ToSet(pendingHistory') : d.id \in 1..accepted'
          /\ \A d \in Writing("history")' : d.id \in 1..accepted'
      BY <2>9
    <3> QED BY <3>1 DEF Numbered, NumberedSet
  <2> QED BY <2>6, <2>7, <2>10 DEF QueueInv, BaseInv
<1>2. CASE TimerFires \/ BatchDone \/ ReadTrackHistory
  <2>1. /\ UNCHANGED <<accepted, disordered, objects, history, status, dropped, rows, current,
                       missed, faults, restarts>>
        /\ timer' \in BOOLEAN /\ flushing' \in BOOLEAN
        /\ reader' \in {Idle} \cup [at : {"flush", "query"}, knows : SUBSET Event, joined : BOOLEAN]
        /\ \/ TakeBatch /\ inFlight = {}
           \/ /\ UNCHANGED <<pendingCurrent, pendingHistory, inFlight>>
              /\ flushing' \/ inFlight = {}
    BY <1>0, <1>2, FlushFields
  <2>2. /\ pendingHistory' \in Seq(Event) /\ Len(pendingHistory') <= MaxQueue /\ Increasing(pendingHistory')
        /\ pendingCurrent' \subseteq pendingCurrent /\ inFlight' \subseteq Statement
        /\ ToSet(pendingHistory') \subseteq ToSet(pendingHistory)
        /\ Writing("history")' \subseteq Writing("history") \cup ToSet(pendingHistory)
        /\ flushing' \/ inFlight' = {}
    <3>1. CASE TakeBatch /\ inFlight = {}
      BY <1>0, <3>1, BatchFields
    <3>2. CASE UNCHANGED <<pendingCurrent, pendingHistory, inFlight>> /\ (flushing' \/ inFlight = {})
      BY <1>0, <3>2, WritingShrinks DEF TypeOK, Statement, InOrder
    <3> QED BY <2>1, <3>1, <3>2
  <2>3. TypeOK'
    BY <1>0, <2>1, <2>2 DEF TypeOK, Statement
  <2>4. Settled' /\ InOrder'
    BY <2>2 DEF Settled, InOrder
  <2>5. Numbered'
    BY <1>0, <2>1, <2>2, NumberedAlone
  <2> QED BY <2>3, <2>4, <2>5 DEF QueueInv, BaseInv
<1>3. ASSUME NEW w \in inFlight, WriteDone(w) \/ WriteFails(w) PROVE QueueInv'
  <2>1. /\ UNCHANGED <<accepted, disordered, objects, history, pendingCurrent, pendingHistory, dropped, timer,
                       flushing, reader, missed, restarts>>
        /\ inFlight' = inFlight \ {w} /\ status' \in {"ok", "degraded"} /\ faults' \in Nat
        /\ Write(w) \/ UNCHANGED <<rows, current>>
    BY <1>0, <1>3 DEF WriteDone, WriteFails, TypeOK
  <2>2. /\ rows' \subseteq rows \cup Writing("history") /\ rows' \subseteq Event
        /\ current' \in [Objects -> Event \cup {None}]
    <3>1. CASE Write(w)
      <4>1. /\ w.event \in Event /\ rows' = rows \cup (IF w.kind = "history" THEN {w.event} ELSE {})
            /\ current' \in [Objects -> Event \cup {None}]
        BY <1>0, <3>1, WriteFields
      <4>2. w.kind = "history" => w.event \in Writing("history")
        BY DEF Writing
      <4> QED BY <1>0, <4>1, <4>2 DEF TypeOK
    <3>2. CASE UNCHANGED <<rows, current>>
      BY <1>0, <3>2 DEF TypeOK
    <3> QED BY <2>1, <3>1, <3>2
  <2>3. TypeOK'
    BY <1>0, <2>1, <2>2 DEF TypeOK
  <2>4. Settled' /\ InOrder'
    BY <1>0, <2>1 DEF Settled, InOrder
  <2>5. Numbered'
    BY <1>0, <2>1, <2>2, NumberedAlone, WritingShrinks
  <2> QED BY <2>3, <2>4, <2>5 DEF QueueInv, BaseInv
<1>4. CASE ReadAnswered \/ QueryFails
  <2>1. /\ UNCHANGED <<accepted, disordered, objects, history, pendingCurrent, pendingHistory, inFlight,
                       dropped, timer, flushing, rows, current, restarts>>
        /\ missed' \subseteq Event /\ reader' = Idle /\ faults' \in Nat
        /\ status' = status \/ status' = "degraded"
    BY <1>0, <1>4, ReadFields
  <2>2. TypeOK'
    BY <1>0, <2>1 DEF TypeOK
  <2>3. Settled' /\ InOrder' /\ Numbered'
    BY <1>0, <2>1 DEF Settled, InOrder, Numbered, NumberedSet, Writing
  <2> QED BY <2>2, <2>3 DEF QueueInv, BaseInv
<1>5. CASE Restart
  <2>1. /\ rows' \subseteq rows \cup Writing("history")
        /\ current' \in [Objects -> Event \cup {None}]
        /\ status' \in {"ok", "degraded"} /\ faults' \in Nat
        /\ objects' \in {current', [o \in Objects |-> None]}
    BY <1>0, <1>5, RestartFields
  <2>2. /\ history' = {} /\ pendingCurrent' = {} /\ pendingHistory' = << >> /\ inFlight' = {} /\ dropped' = 0
        /\ timer' = FALSE /\ flushing' = FALSE /\ reader' = Idle /\ missed' = {}
        /\ UNCHANGED <<accepted, disordered>> /\ restarts' \in Nat
    BY <1>0, <1>5 DEF Restart, TypeOK
  <2>3. Len(<< >>) = 0 /\ ToSet(<< >>) = {} /\ << >> \in Seq(Event)
    BY DEF ToSet
  <2>4. Writing("history") \subseteq Event /\ Writing("history")' = {}
    BY <1>0, <2>2 DEF Writing, TypeOK
  <2>a. pendingHistory' \in Seq(Event) /\ Len(pendingHistory') <= MaxQueue
    BY <2>2, <2>3
  <2>b. rows' \subseteq Event /\ objects' \in [Objects -> Event \cup {None}]
    BY <1>0, <2>1, <2>4 DEF TypeOK
  <2>5. TypeOK'
    BY <1>0, <2>1, <2>2, <2>a, <2>b DEF TypeOK
  <2>6. Settled' /\ InOrder'
    BY <2>2, <2>3 DEF Settled, InOrder, Increasing
  <2>7. Numbered'
    BY <1>0, <2>1, <2>2, <2>3, <2>4, NumberedAlone
  <2> QED BY <2>5, <2>6, <2>7 DEF QueueInv, BaseInv
<1>6. CASE UNCHANGED vars
  BY <1>0, <1>6 DEF vars, QueueInv, BaseInv, TypeOK, Settled, InOrder, Numbered, NumberedSet, Writing
<1> QED BY <1>1, <1>2, <1>3, <1>4, <1>5, <1>6 DEF Next

LEMMA QueueAlways == Spec => []QueueInv
BY QueueInit, QueueStep, PTL DEF Spec

(* Every variable has its type, and the history queue keeps its bound.       *)
THEOREM PersistenceTypeCorrect == Spec => []TypeOK
<1>1. QueueInv => TypeOK
  BY DEF QueueInv, BaseInv
<1> QED BY <1>1, QueueAlways, PTL

-----------------------------------------------------------------------------
(* What becomes of a history point.                                          *)

\* The points of this process that are nowhere any more.
Lost == history \ (rows \cup Writing("history") \cup ToSet(pendingHistory))

\* A queued point is one of this process, and nowhere else.
LossInv ==
  /\ IsFiniteSet(history)
  /\ status = "ok" =>
       /\ Cardinality(Lost) = dropped
       /\ ToSet(pendingHistory) \subseteq history
       /\ ToSet(pendingHistory) \cap (rows \cup Writing("history")) = {}

LEMMA LossInit == Init => LossInv
<1> SUFFICES ASSUME Init PROVE LossInv
  OBVIOUS
<1>1. ToSet(<< >>) = {}
  BY DEF ToSet
<1>2. Lost = {} /\ history = {} /\ pendingHistory = << >> /\ dropped = 0
  BY DEF Init, Lost
<1>3. IsFiniteSet({}) /\ Cardinality({}) = 0
  BY FS_EmptySet
<1> QED BY <1>1, <1>2, <1>3 DEF LossInv

LEMMA LossStep == QueueInv /\ LossInv /\ [Next]_vars => LossInv'
<1> SUFFICES ASSUME QueueInv, LossInv, [Next]_vars PROVE LossInv'
  OBVIOUS
<1> USE DEF arrivals, memory, queues, tables, reading
<1>0. TypeOK /\ Settled /\ Numbered /\ BaseInv
  BY DEF QueueInv, BaseInv
<1>1. ASSUME NEW o \in Objects, NEW t \in Times, AcceptEvent(o, t) PROVE LossInv'
  <2>1. PICK e \in Event :
           /\ e.id = accepted + 1 /\ history' = history \cup {e}
           /\ status = "ok" =>
                LET queue == Append(pendingHistory, e)
                IN \/ /\ pendingHistory' = queue /\ dropped' = dropped /\ Len(queue) <= MaxQueue
                   \/ /\ pendingHistory' = SubSeq(queue, 2, Len(queue)) /\ dropped' = dropped + 1
                      /\ Len(queue) = MaxQueue + 1
    BY <1>0, <1>1, AcceptFields
  <2>2. UNCHANGED <<status, inFlight, rows>> /\ Writing("history")' = Writing("history")
    BY <1>1 DEF AcceptEvent, Writing
  <2>3. IsFiniteSet(history')
    BY <2>1, FS_AddElement DEF LossInv
  <2>4. e \notin history /\ e \notin rows /\ e \notin Writing("history") /\ e \notin ToSet(pendingHistory)
    <3>1. e.id \notin 1..accepted
      BY <1>0, <2>1 DEF TypeOK
    <3> QED BY <1>0, <3>1 DEF Numbered, NumberedSet
  <2>5. CASE status = "ok"
    <3>1. /\ Cardinality(Lost) = dropped /\ dropped \in Nat
          /\ ToSet(pendingHistory) \subseteq history
          /\ ToSet(pendingHistory) \cap (rows \cup Writing("history")) = {}
      BY <1>0, <2>5 DEF LossInv, TypeOK
    <3>2. \/ dropped' = dropped /\ ToSet(pendingHistory') = ToSet(pendingHistory) \cup {e}
          \/ /\ dropped' = dropped + 1
             /\ \E d \in ToSet(pendingHistory) : ToSet(pendingHistory') = (ToSet(pendingHistory) \ {d}) \cup {e}
      BY <1>0, <2>1, <2>5, EnqueueFields
    <3>3. /\ ToSet(pendingHistory') \subseteq history'
          /\ ToSet(pendingHistory') \cap (rows' \cup Writing("history")') = {}
      BY <2>1, <2>2, <2>4, <3>1, <3>2
    <3>4. Cardinality(Lost') = dropped'
      <4>1. CASE dropped' = dropped /\ ToSet(pendingHistory') = ToSet(pendingHistory) \cup {e}
        <5>1. Lost' = Lost
          BY <2>1, <2>2, <2>4, <4>1 DEF Lost
        <5> QED BY <3>1, <4>1, <5>1
      <4>2. ASSUME dropped' = dropped + 1, NEW d \in ToSet(pendingHistory),
                   ToSet(pendingHistory') = (ToSet(pendingHistory) \ {d}) \cup {e}
            PROVE  Cardinality(Lost') = dropped'
        <5>1. Lost' = Lost \cup {d}
          BY <2>1, <2>2, <2>4, <3>1, <4>2 DEF Lost
        <5>2. d \notin Lost
          BY DEF Lost
        <5>3. IsFiniteSet(Lost)
          <6>1. Lost \in SUBSET history
            BY DEF Lost
          <6> QED BY <6>1, FS_Subset DEF LossInv
        <5>4. Cardinality(Lost \cup {d}) = Cardinality(Lost) + 1
          BY <5>2, <5>3, FS_AddElement
        <5> QED BY <3>1, <4>2, <5>1, <5>4
      <4> QED BY <3>2, <4>1, <4>2
    <3> QED BY <2>3, <3>3, <3>4 DEF LossInv
  <2>6. CASE status # "ok"
    BY <2>2, <2>3, <2>6 DEF LossInv
  <2> QED BY <2>5, <2>6
<1>2. CASE TimerFires \/ BatchDone \/ ReadTrackHistory
  <2>1. /\ UNCHANGED <<history, status, dropped, rows>>
        /\ \/ TakeBatch /\ inFlight = {}
           \/ UNCHANGED <<pendingHistory, inFlight>>
    BY <1>0, <1>2, FlushFields
  <2>2. CASE TakeBatch /\ inFlight = {} /\ status = "ok"
    <3>1. Writing("history") = {}
      BY <2>2 DEF Writing
    <3>2. /\ ToSet(pendingHistory) = ToSet(pendingHistory') \cup Writing("history")'
          /\ ToSet(pendingHistory') \cap Writing("history")' = {}
      BY <1>0, <2>2, BatchFields
    <3>3. Lost' = Lost
      BY <2>1, <3>1, <3>2 DEF Lost
    <3>4. /\ ToSet(pendingHistory') \subseteq history'
          /\ ToSet(pendingHistory') \cap (rows' \cup Writing("history")') = {}
      BY <2>1, <2>2, <3>2 DEF LossInv
    <3> QED BY <2>1, <2>2, <3>3, <3>4 DEF LossInv
  <2>3. CASE UNCHANGED <<pendingHistory, inFlight>>
    <3>1. Writing("history")' = Writing("history") /\ Lost' = Lost
      BY <2>1, <2>3 DEF Writing, Lost
    <3> QED BY <2>1, <2>3, <3>1 DEF LossInv
  <2>4. CASE status # "ok"
    BY <2>1, <2>4 DEF LossInv
  <2> QED BY <2>1, <2>2, <2>3, <2>4
<1>3. ASSUME NEW w \in inFlight, WriteDone(w) PROVE LossInv'
  <2>1. /\ UNCHANGED <<history, status, dropped, pendingHistory>>
        /\ inFlight' = inFlight \ {w} /\ Write(w)
    BY <1>3 DEF WriteDone
  <2>2. /\ w.kind \in {"current", "history"} /\ w.event \in Event
        /\ rows' = rows \cup (IF w.kind = "history" THEN {w.event} ELSE {})
    BY <1>0, <2>1, WriteFields
  <2>3. rows' \cup Writing("history")' = rows \cup Writing("history")
    <3>1. CASE w.kind = "history"
      <4>1. Writing("history")' = Writing("history") \ {w.event}
        <5>1. \A v \in inFlight : v.kind = "history" /\ v.event = w.event => v = w
          BY <1>0, <3>1 DEF TypeOK
        <5>2. \A x \in Writing("history") : x # w.event => x \in Writing("history")'
          BY <2>1 DEF Writing
        <5>3. Writing("history")' \subseteq Writing("history")
          BY <2>1, WritingShrinks
        <5>4. w.event \notin Writing("history")'
          BY <2>1, <5>1 DEF Writing
        <5> QED BY <5>2, <5>3, <5>4
      <4>2. w.event \in Writing("history")
        BY <3>1 DEF Writing
      <4>3. rows' = rows \cup {w.event}
        BY <2>2, <3>1
      <4> QED BY <4>1, <4>2, <4>3
    <3>2. CASE w.kind = "current"
      <4>1. Writing("history")' = Writing("history")
        BY <2>1, <3>2 DEF Writing
      <4>2. rows' = rows
        BY <2>2, <3>2
      <4> QED BY <4>1, <4>2
    <3> QED BY <2>2, <3>1, <3>2
  <2>4. Lost' = Lost
    BY <2>1, <2>3 DEF Lost
  <2> QED BY <2>1, <2>3, <2>4 DEF LossInv
<1>4. ASSUME status' # "ok", history' = history PROVE LossInv'
  BY <1>4 DEF LossInv
<1>5. ASSUME NEW w \in inFlight, WriteFails(w) PROVE LossInv'
  BY <1>4, <1>5 DEF WriteFails
<1>6. CASE ReadAnswered \/ QueryFails
  <2>1. UNCHANGED <<history, pendingHistory, inFlight, dropped, rows>> /\ (status' = status \/ status' = "degraded")
    BY <1>0, <1>6, ReadFields
  <2>2. Lost' = Lost /\ Writing("history")' = Writing("history")
    BY <2>1 DEF Lost, Writing
  <2> QED BY <2>1, <2>2 DEF LossInv
<1>7. CASE Restart
  <2>1. history' = {} /\ pendingHistory' = << >> /\ dropped' = 0
    BY <1>7 DEF Restart
  <2>2. ToSet(<< >>) = {}
    BY DEF ToSet
  <2>3. Lost' = {} /\ IsFiniteSet({}) /\ Cardinality({}) = 0
    BY <2>1, FS_EmptySet DEF Lost
  <2> QED BY <2>1, <2>2, <2>3 DEF LossInv
<1>8. CASE UNCHANGED vars
  BY <1>8 DEF vars, LossInv, Lost, Writing
<1> QED BY <1>1, <1>2, <1>3, <1>5, <1>6, <1>7, <1>8 DEF Next

(* While the store is in use, every point of this process is stored, being   *)
(* written, queued, or one of those the drop counter reports.                *)
THEOREM LossesAreCounted == Spec => []LossIsCounted
<1>1. LossInv => LossIsCounted
  BY DEF LossInv, LossIsCounted, Lost
<1> QED BY <1>1, LossInit, LossStep, QueueAlways, PTL DEF Spec

-----------------------------------------------------------------------------
(* What a history request is answered with.  A request that has run its own  *)
(* flush found the queues and the statements empty; what is queued after it  *)
(* are later points, so none it knows of is on its way any more.             *)

OnTheWay == ToSet(pendingHistory) \cup Writing("history")

ReadInv ==
  /\ reader.at # "idle" => reader.knows \subseteq history
  /\ reader.at = "query" /\ ~reader.joined => reader.knows \cap OnTheWay = {}

LEMMA ReadInit == Init => ReadInv
BY DEF Init, ReadInv, Idle

LEMMA ReadStep == QueueInv /\ ReadInv /\ [Next]_vars => ReadInv'
<1> SUFFICES ASSUME QueueInv, ReadInv, [Next]_vars PROVE ReadInv'
  OBVIOUS
<1> USE DEF arrivals, memory, queues, tables, reading
<1>0. TypeOK /\ Settled /\ Numbered /\ BaseInv
  BY DEF QueueInv, BaseInv
<1>1. ASSUME NEW o \in Objects, NEW t \in Times, AcceptEvent(o, t) PROVE ReadInv'
  <2>1. PICK e \in Event :
           /\ e.id = accepted + 1 /\ history' = history \cup {e}
           /\ status = "ok" =>
                LET queue == Append(pendingHistory, e)
                IN \/ /\ pendingHistory' = queue /\ dropped' = dropped /\ Len(queue) <= MaxQueue
                   \/ /\ pendingHistory' = SubSeq(queue, 2, Len(queue)) /\ dropped' = dropped + 1
                      /\ Len(queue) = MaxQueue + 1
           /\ status # "ok" => UNCHANGED <<pendingCurrent, pendingHistory, dropped, timer>>
    BY <1>0, <1>1, AcceptFields
  <2>2. reader' = reader /\ Writing("history")' = Writing("history")
    BY <1>1 DEF AcceptEvent, Writing
  <2>3. e \notin history
    <3>1. e.id \notin 1..accepted
      BY <1>0, <2>1 DEF TypeOK
    <3> QED BY <1>0, <3>1 DEF Numbered, NumberedSet
  <2>4. ToSet(pendingHistory') \subseteq ToSet(pendingHistory) \cup {e}
    <3>1. CASE status = "ok"
      BY <1>0, <2>1, <3>1, EnqueueFields
    <3>2. CASE status # "ok"
      BY <2>1, <3>2
    <3> QED BY <3>1, <3>2
  <2>5. OnTheWay' \subseteq OnTheWay \cup {e}
    BY <2>2, <2>4 DEF OnTheWay
  <2> QED BY <2>1, <2>2, <2>3, <2>5 DEF ReadInv
<1>2. CASE TimerFires \/ BatchDone \/ ReadTrackHistory
  <2>1. /\ history' = history
        /\ \/ TakeBatch /\ inFlight = {}
           \/ UNCHANGED <<pendingCurrent, pendingHistory, inFlight>>
    BY <1>0, <1>2, FlushFields
  <2>2. OnTheWay' \subseteq OnTheWay
    <3>1. CASE TakeBatch
      BY <1>0, <3>1, BatchFields DEF OnTheWay
    <3>2. CASE UNCHANGED <<pendingHistory, inFlight>>
      BY <3>2 DEF OnTheWay, Writing
    <3> QED BY <2>1, <3>1, <3>2
  <2>3. CASE reader' = reader
    BY <2>1, <2>2, <2>3 DEF ReadInv
  <2>4. ASSUME ~Queued, inFlight = {}, pendingHistory' = pendingHistory, inFlight' = inFlight
        PROVE  OnTheWay' = {}
    <3>1. pendingHistory' = << >> /\ inFlight' = {} /\ ToSet(<< >>) = {}
      BY <2>4 DEF Queued, ToSet
    <3> QED BY <3>1 DEF OnTheWay, Writing
  <2>5. CASE TimerFires
    BY <2>3, <2>5 DEF TimerFires
  <2>6. CASE BatchDone
    <3>1. CASE Queued \/ reader.at # "flush"
      BY <2>3, <2>6, <3>1 DEF BatchDone
    <3>2. CASE ~Queued /\ reader.at = "flush"
      <4>1. /\ reader' = [reader EXCEPT !.at = "query"] /\ inFlight = {}
            /\ UNCHANGED <<pendingHistory, inFlight>>
        BY <2>6, <3>2 DEF BatchDone
      <4>2. reader'.knows = reader.knows
        BY <1>0, <3>2, <4>1 DEF TypeOK, Idle
      <4> QED BY <2>1, <2>4, <3>2, <4>1, <4>2 DEF ReadInv
    <3> QED BY <3>1, <3>2
  <2>7. CASE ReadTrackHistory
    <3>1. CASE flushing
      BY <2>1, <2>7, <3>1 DEF ReadTrackHistory, ReadInv
    <3>2. CASE ~flushing /\ Queued
      BY <2>1, <2>7, <3>2 DEF ReadTrackHistory, ReadInv
    <3>3. CASE ~flushing /\ ~Queued
      <4>1. /\ reader' = [at |-> "query", knows |-> history, joined |-> FALSE]
            /\ UNCHANGED <<pendingHistory, inFlight>> /\ inFlight = {}
        BY <1>0, <2>7, <3>3 DEF ReadTrackHistory, Settled
      <4> QED BY <2>1, <2>4, <3>3, <4>1 DEF ReadInv
    <3> QED BY <3>1, <3>2, <3>3
  <2> QED BY <1>2, <2>5, <2>6, <2>7
<1>3. ASSUME NEW w \in inFlight, WriteDone(w) \/ WriteFails(w) PROVE ReadInv'
  <2>1. UNCHANGED <<history, pendingHistory, reader>> /\ inFlight' \subseteq inFlight
    BY <1>3 DEF WriteDone, WriteFails
  <2>2. OnTheWay' \subseteq OnTheWay
    BY <2>1, WritingShrinks DEF OnTheWay
  <2> QED BY <2>1, <2>2 DEF ReadInv
<1>4. CASE ReadAnswered \/ QueryFails \/ Restart
  <2>1. reader' = Idle
    BY <1>4 DEF ReadAnswered, QueryFails, Restart
  <2> QED BY <2>1 DEF ReadInv, Idle
<1>5. CASE UNCHANGED vars
  BY <1>5 DEF vars, ReadInv, OnTheWay, Writing
<1> QED BY <1>1, <1>2, <1>3, <1>4, <1>5 DEF Next

(* A history request that runs its own flush is answered with every point    *)
(* accepted before it came but those the drop counter reports: statements    *)
(* and events in any order while it waits, and a store that fails.           *)
THEOREM ReadsAreComplete == Spec => ReadsComplete
<1>1. QueueInv /\ LossInv /\ ReadInv /\ [Next]_vars =>
        [reader.at = "query" /\ reader' = Idle /\ ~reader.joined
           => Cardinality(missed') <= dropped]_vars
  <2> SUFFICES ASSUME QueueInv, LossInv, ReadInv, Next,
                      reader.at = "query", reader' = Idle, ~reader.joined
               PROVE  Cardinality(missed') <= dropped
    BY DEF vars
  <2> USE DEF arrivals, memory, queues, tables, reading
  <2>0. TypeOK /\ dropped \in Nat /\ reader # Idle
    BY DEF QueueInv, BaseInv, TypeOK, Idle
  <2>1. ASSUME missed' = {} PROVE Cardinality(missed') <= dropped
    BY <2>0, <2>1, FS_EmptySet
  <2>2. CASE ReadAnswered /\ status = "ok"
    <3>1. missed' = reader.knows \ rows
      BY <2>2 DEF ReadAnswered
    <3>2. missed' \subseteq Lost
      BY <3>1 DEF ReadInv, OnTheWay, Lost
    <3>3. IsFiniteSet(Lost) /\ Cardinality(Lost) = dropped
      <4>1. Lost \in SUBSET history
        BY DEF Lost
      <4> QED BY <2>2, <4>1, FS_Subset DEF LossInv
    <3> QED BY <3>2, <3>3, FS_Subset
  <2>3. CASE ReadAnswered /\ status # "ok"
    BY <2>1, <2>3 DEF ReadAnswered, ReadInv
  <2>4. CASE QueryFails
    BY <2>1, <2>4 DEF QueryFails, ReadInv
  <2>5. CASE Restart
    BY <2>1, <2>5 DEF Restart
  <2>6. ASSUME \/ \E o \in Objects, t \in Times : AcceptEvent(o, t)
               \/ TimerFires \/ BatchDone \/ ReadTrackHistory
               \/ \E w \in inFlight : WriteDone(w) \/ WriteFails(w)
        PROVE  FALSE
    <3>1. CASE ReadTrackHistory
      BY <2>0, <3>1 DEF ReadTrackHistory
    <3>2. CASE BatchDone
      BY <2>0, <3>2 DEF BatchDone
    <3>3. ASSUME reader' = reader PROVE FALSE
      BY <2>0, <3>3
    <3> QED BY <2>6, <3>1, <3>2, <3>3 DEF AcceptEvent, TimerFires, WriteDone, WriteFails
  <2> QED BY <2>2, <2>3, <2>4, <2>5, <2>6 DEF Next
<1> QED BY <1>1, LossInit, LossStep, ReadInit, ReadStep, QueueAlways, PTL DEF Spec, ReadsComplete

-----------------------------------------------------------------------------
(* The way of an object's latest event.                                      *)

Owned ==
  \A o \in Objects : /\ objects[o] # None => objects[o].object = o
                     /\ current[o] # None => current[o].object = o

\* What is queued for an object is the event it was made from.
Latest == \A e \in pendingCurrent : e = objects[e.object]

\* No event of an object is newer, unless they came out of order.
NoneNewer ==
  \A o \in Objects \ disordered :
    \A e \in pendingCurrent \cup Writing("current") \cup {current[o]} :
      e # None /\ e.object = o => objects[o] # None /\ e.time <= objects[o].time

\* An older event that is being written has the latest one queued behind it.
Superseded ==
  \A e \in Writing("current") :
    e.object \notin disordered => e = objects[e.object] \/ objects[e.object] \in pendingCurrent

CurrentInv == Owned /\ (status = "ok" => Latest /\ NoneNewer /\ Superseded /\ CurrentOnItsWay)

LEMMA EventFields ==
  /\ \A e \in Event : e # None /\ e.object \in Objects /\ e.time \in Times /\ e.time \in Nat
BY NoneIsNoEvent DEF Event

LEMMA CurrentFields ==
  ASSUME TypeOK
  PROVE  /\ pendingCurrent \subseteq Event /\ Writing("current") \subseteq Event
         /\ \A o \in Objects : current[o] \in Event \cup {None} /\ objects[o] \in Event \cup {None}
         /\ \A w \in inFlight : w.kind \in {"current", "history"} /\ w.event \in Event
BY DEF TypeOK, Writing

LEMMA OwnedStep == QueueInv /\ Owned /\ [Next]_vars => Owned'
<1> SUFFICES ASSUME QueueInv, Owned, [Next]_vars PROVE Owned'
  OBVIOUS
<1> USE DEF arrivals, memory, queues, tables, reading
<1>0. TypeOK /\ BaseInv /\ Numbered
  BY DEF QueueInv, BaseInv
<1>1. ASSUME NEW o \in Objects, NEW t \in Times, AcceptEvent(o, t) PROVE Owned'
  <2>1. PICK e \in Event : e.object = o /\ objects' = [objects EXCEPT ![o] = e]
    BY <1>0, <1>1, AcceptFields
  <2>2. current' = current
    BY <1>1 DEF AcceptEvent
  <2> QED BY <1>0, <2>1, <2>2 DEF Owned, TypeOK
<1>2. ASSUME objects' = objects \/ objects' = current' \/ objects' = [o \in Objects |-> None],
             \A o \in Objects : current'[o] = current[o] \/ current'[o] = None \/ current'[o].object = o
      PROVE  Owned'
  BY <1>2 DEF Owned
<1>3. ASSUME NEW w \in inFlight, WriteDone(w) \/ WriteFails(w) PROVE Owned'
  <2>1. objects' = objects /\ (Write(w) \/ current' = current)
    BY <1>3 DEF WriteDone, WriteFails
  <2>2. \A o \in Objects : current'[o] = current[o] \/ current'[o].object = o
    BY <1>0, <2>1, WriteFields
  <2> QED BY <1>2, <2>1, <2>2
<1>4. CASE Restart
  BY <1>0, <1>2, <1>4, RestartFields
<1>5. CASE TimerFires \/ BatchDone \/ ReadTrackHistory
  BY <1>0, <1>2, <1>5, FlushFields
<1>6. CASE ReadAnswered \/ QueryFails
  BY <1>0, <1>2, <1>6, ReadFields
<1>7. CASE UNCHANGED vars
  BY <1>2, <1>7 DEF vars
<1> QED BY <1>1, <1>3, <1>4, <1>5, <1>6, <1>7 DEF Next

\* The invariant while the store stays in use.
LEMMA CurrentStep == QueueInv /\ CurrentInv /\ [Next]_vars => CurrentInv'
<1> SUFFICES ASSUME QueueInv, CurrentInv, [Next]_vars, status' = "ok"
             PROVE  Latest' /\ NoneNewer' /\ Superseded' /\ CurrentOnItsWay'
  BY OwnedStep DEF CurrentInv
<1> USE DEF arrivals, memory, queues, tables, reading
<1> DEFINE Goal == Latest' /\ NoneNewer' /\ Superseded' /\ CurrentOnItsWay'
<1>0. TypeOK /\ BaseInv /\ Numbered /\ Owned /\ Settled
  BY DEF QueueInv, BaseInv, CurrentInv
<1>1. status = "ok" => Latest /\ NoneNewer /\ Superseded /\ CurrentOnItsWay
  BY DEF CurrentInv
<1>a. /\ pendingCurrent \subseteq Event /\ Writing("current") \subseteq Event
      /\ \A o \in Objects : current[o] \in Event \cup {None} /\ objects[o] \in Event \cup {None}
      /\ \A e \in Event : e # None /\ e.object \in Objects /\ e.time \in Nat
  BY <1>0, CurrentFields, EventFields
<1>2. ASSUME NEW o \in Objects, NEW t \in Times, AcceptEvent(o, t) PROVE Goal
  <2>0. status = "ok"
    BY <1>2 DEF AcceptEvent
  <2>1. PICK e \in Event :
           /\ e.object = o /\ e.time = t /\ objects' = [objects EXCEPT ![o] = e]
           /\ pendingCurrent' = {q \in pendingCurrent : q.object # o} \cup {e}
    BY <1>0, <1>2, <2>0, AcceptFields
  <2>2. /\ UNCHANGED <<inFlight, current>> /\ disordered \subseteq disordered'
        /\ objects[o] # None /\ t < objects[o].time => o \in disordered'
        /\ \A p \in Objects \ {o} : p \in disordered' => p \in disordered
    BY <1>2 DEF AcceptEvent
  <2>3. Writing("current")' = Writing("current")
    BY <2>2 DEF Writing
  <2>4. objects'[o] = e /\ \A p \in Objects \ {o} : objects'[p] = objects[p]
    BY <1>0, <2>1 DEF TypeOK
  <2>5. Latest'
    BY <1>1, <1>a, <2>0, <2>1, <2>4 DEF Latest
  <2>6. NoneNewer'
    <3> SUFFICES ASSUME NEW p \in Objects \ disordered',
                        NEW d \in pendingCurrent' \cup Writing("current")' \cup {current'[p]},
                        d # None, d.object = p
                 PROVE  objects'[p] # None /\ d.time <= objects'[p].time
      BY DEF NoneNewer
    <3>1. p \in Objects \ disordered
      BY <2>2
    <3>2. CASE d = e
      BY <1>a, <2>1, <2>4, <3>2
    <3>3. CASE d # e
      <4>1. d \in pendingCurrent \cup Writing("current") \cup {current[p]}
        BY <2>1, <2>2, <2>3, <3>3
      <4>2. objects[p] # None /\ d.time <= objects[p].time /\ objects[p] \in Event /\ d \in Event
        BY <1>1, <1>a, <2>0, <3>1, <4>1 DEF NoneNewer
      <4>3. CASE p = o
        <5>1. ~(t < objects[p].time) /\ objects'[p] = e /\ e # None
          BY <1>a, <2>1, <2>2, <2>4, <4>2, <4>3
        <5>2. t \in Nat /\ objects[p].time \in Nat /\ d.time \in Nat
          BY <1>a, <2>1, <4>2
        <5> QED BY <2>1, <4>2, <5>1, <5>2
      <4>4. CASE p # o
        BY <2>4, <4>2, <4>4
      <4> QED BY <4>3, <4>4
    <3> QED BY <3>2, <3>3
  <2>7. Superseded'
    <3> SUFFICES ASSUME NEW d \in Writing("current"), d.object \notin disordered'
                 PROVE  d = objects'[d.object] \/ objects'[d.object] \in pendingCurrent'
      BY <2>3 DEF Superseded
    <3>1. CASE d.object = o
      BY <2>1, <2>4, <3>1
    <3>2. CASE d.object # o
      <4>1. PICK p \in Objects \ {o} : p = d.object
        BY <1>a, <3>2
      <4>2. d = objects[p] \/ objects[p] \in pendingCurrent
        BY <1>1, <2>0, <2>2, <4>1 DEF Superseded
      <4>3. objects'[p] = objects[p]
        BY <2>4, <4>1
      <4>4. objects[p] \in pendingCurrent => objects[p] \in pendingCurrent'
        <5>1. objects[p] \in pendingCurrent => objects[p].object = p
          BY <1>0, <1>a, <4>1 DEF Owned
        <5> QED BY <2>1, <4>1, <5>1
      <4> QED BY <4>1, <4>2, <4>3, <4>4
    <3> QED BY <3>1, <3>2
  <2>8. CurrentOnItsWay'
    <3> SUFFICES ASSUME NEW p \in Objects \ disordered'
                 PROVE  objects'[p] = current'[p] \/ objects'[p] \in pendingCurrent' \cup Writing("current")'
      BY DEF CurrentOnItsWay
    <3>1. CASE p = o
      BY <2>1, <2>4, <3>1
    <3>2. CASE p # o
      <4>1. objects[p] = current[p] \/ objects[p] \in pendingCurrent \cup Writing("current")
        BY <1>1, <2>0, <2>2 DEF CurrentOnItsWay
      <4>2. objects[p] \in pendingCurrent => objects[p].object = p
        BY <1>0, <1>a DEF Owned
      <4> QED BY <2>1, <2>2, <2>3, <2>4, <3>2, <4>1, <4>2
    <3> QED BY <3>1, <3>2
  <2> QED BY <2>5, <2>6, <2>7, <2>8
<1>3. CASE UNCHANGED <<objects, disordered, status, current, pendingCurrent, inFlight>>
  <2>1. Writing("current")' = Writing("current")
    BY <1>3 DEF Writing
  <2> QED BY <1>1, <1>3, <2>1 DEF Latest, NoneNewer, Superseded, CurrentOnItsWay
<1>4. CASE TimerFires \/ BatchDone \/ ReadTrackHistory
  <2>1. /\ UNCHANGED <<disordered, objects, status, current>>
        /\ \/ TakeBatch /\ inFlight = {}
           \/ UNCHANGED <<pendingCurrent, inFlight>>
    BY <1>0, <1>4, FlushFields
  <2>2. CASE TakeBatch /\ inFlight = {}
    <3>0. status = "ok" /\ Latest /\ NoneNewer /\ CurrentOnItsWay
      BY <1>1, <2>1
    <3>1. Writing("current") = {}
      BY <2>2 DEF Writing
    <3>2. pendingCurrent = pendingCurrent' \cup Writing("current")'
      BY <1>0, <2>2, <3>0, BatchFields
    <3>3. Latest'
      BY <2>1, <3>0, <3>2 DEF Latest
    <3>4. NoneNewer'
      BY <2>1, <3>0, <3>2 DEF NoneNewer
    <3>5. Superseded'
      BY <2>1, <3>0, <3>2 DEF Superseded, Latest
    <3>6. CurrentOnItsWay'
      BY <2>1, <3>0, <3>1, <3>2 DEF CurrentOnItsWay
    <3> QED BY <3>3, <3>4, <3>5, <3>6
  <2> QED BY <1>3, <2>1, <2>2
<1>5. ASSUME NEW w \in inFlight, WriteDone(w) PROVE Goal
  <2>1. /\ UNCHANGED <<objects, disordered, status, pendingCurrent>>
        /\ inFlight' = inFlight \ {w} /\ Write(w)
    BY <1>5 DEF WriteDone
  <2>0. Latest /\ NoneNewer /\ Superseded /\ CurrentOnItsWay
    BY <1>1, <2>1
  <2>2. Writing("current")' \subseteq Writing("current")
    BY <2>1, WritingShrinks
  <2>3. /\ w.event \in Event
        /\ \A o \in Objects :
             \/ current'[o] = current[o]
             \/ w.kind = "current" /\ w.event.object = o /\ current'[o] = w.event
        /\ w.kind = "current" =>
             \/ current'[w.event.object] = w.event
             \/ /\ current[w.event.object] # None /\ ~(current[w.event.object].time <= w.event.time)
                /\ current'[w.event.object] = current[w.event.object]
    BY <1>0, <2>1, WriteFields
  <2>4. w.kind = "current" => w.event \in Writing("current")
    BY DEF Writing
  <2>5. \A x \in Writing("current") : x # w.event \/ w.kind # "current" => x \in Writing("current")'
    BY <2>1 DEF Writing
  <2>6. Latest' /\ Superseded'
    BY <2>0, <2>1, <2>2 DEF Latest, Superseded
  <2>7. NoneNewer'
    BY <2>0, <2>1, <2>2, <2>3, <2>4 DEF NoneNewer
  <2>8. CurrentOnItsWay'
    <3> SUFFICES ASSUME NEW o \in Objects \ disordered
                 PROVE  objects[o] = current'[o] \/ objects[o] \in pendingCurrent \cup Writing("current")'
      BY <2>1 DEF CurrentOnItsWay
    <3>1. objects[o] = current[o] \/ objects[o] \in pendingCurrent \cup Writing("current")
      BY <1>1, <2>1 DEF CurrentOnItsWay
    <3>2. CASE w.kind = "current" /\ w.event.object = o
      <4>1. w.event = objects[o] \/ objects[o] \in pendingCurrent
        BY <2>0, <2>4, <3>2 DEF Superseded
      <4>2. current[o] # None => current[o].time <= objects[o].time
        BY <1>0, <2>0, <3>2 DEF NoneNewer, Owned
      <4>3. w.event = objects[o] => current'[o] = w.event
        BY <2>3, <3>2, <4>2
      <4> QED BY <4>1, <4>3
    <3>3. CASE w.kind # "current" \/ w.event.object # o
      <4>1. current'[o] = current[o]
        BY <2>3, <3>3
      <4>2. CASE objects[o] \in Writing("current")
        <5>1. objects[o].object = o
          BY <1>0, <1>a, <4>2 DEF Owned
        <5> QED BY <2>5, <3>3, <4>2, <5>1
      <4> QED BY <3>1, <4>1, <4>2
    <3> QED BY <3>2, <3>3
  <2> QED BY <2>6, <2>7, <2>8
<1>6. ASSUME NEW w \in inFlight, WriteFails(w) PROVE FALSE
  BY <1>6 DEF WriteFails
<1>7. CASE ReadAnswered \/ QueryFails
  <2>1. UNCHANGED <<objects, disordered, current, pendingCurrent, inFlight>>
        /\ (status' = status \/ status' = "degraded")
    BY <1>0, <1>7, ReadFields
  <2> QED BY <1>3, <2>1
<1>8. CASE Restart
  <2>1. objects' = current' /\ pendingCurrent' = {} /\ inFlight' = {}
    BY <1>0, <1>8, RestartFields DEF Restart
  <2>2. Writing("current")' = {}
    BY <2>1 DEF Writing
  <2>3. \A o \in Objects : current'[o] \in Event \cup {None}
    BY <1>0, <1>8, RestartFields
  <2>4. NoneNewer'
    <3> SUFFICES ASSUME NEW o \in Objects, current'[o] # None PROVE current'[o].time <= current'[o].time
      BY <2>1, <2>2 DEF NoneNewer
    <3>1. current'[o].time \in Nat
      BY <1>a, <2>3
    <3> QED BY <3>1
  <2> QED BY <2>1, <2>2, <2>4 DEF Latest, Superseded, CurrentOnItsWay
<1>9. CASE UNCHANGED vars
  BY <1>3, <1>9 DEF vars
<1> QED BY <1>2, <1>4, <1>5, <1>6, <1>7, <1>8, <1>9 DEF Next

(* While the store is in use the event each object was made from is in the   *)
(* table of current tracks or on its way there, unless events of the object  *)
(* came out of order.                                                        *)
THEOREM CurrentArrives == Spec => []CurrentOnItsWay
<1>1. Init => CurrentInv
  <2> SUFFICES ASSUME Init PROVE CurrentInv
    OBVIOUS
  <2>1. pendingCurrent = {} /\ Writing("current") = {} /\ \A o \in Objects : objects[o] = None /\ current[o] = None
    BY DEF Init, Writing
  <2>2. Owned /\ Latest /\ Superseded /\ CurrentOnItsWay
    BY <2>1 DEF Owned, Latest, Superseded, CurrentOnItsWay
  <2>3. NoneNewer
    BY <2>1 DEF NoneNewer
  <2> QED BY <2>2, <2>3 DEF CurrentInv
<1>2. CurrentInv => CurrentOnItsWay
  BY DEF CurrentInv, CurrentOnItsWay
<1> QED BY <1>1, <1>2, CurrentStep, QueueAlways, PTL DEF Spec
=============================================================================
