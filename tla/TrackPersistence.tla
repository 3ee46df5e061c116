--------------------------- MODULE TrackPersistence --------------------------
(***************************************************************************)
(* How accepted track events reach PostgreSQL.  The COP API keeps objects   *)
(* and history in memory and queues both for the store: the latest event of *)
(* each object, and every history point in a bounded queue.  One flush at a *)
(* time writes the queues in batches, started by a timer or by a reader.    *)
(* The first store error ends persistence until the next start.             *)
(***************************************************************************)
EXTENDS Naturals, Sequences, SequencesExt, FiniteSets

CONSTANTS
  Objects,    \* tracks
  Times,      \* timestamps of events
  BatchSize,  \* COP_INGEST_PERSISTENCE_BATCH_SIZE
  MaxQueue,   \* COP_INGEST_PERSISTENCE_MAX_HISTORY_QUEUE
  MaxEvents,  \* bound on accepted events
  MaxFaults,  \* bound on store errors
  MaxRestarts \* bound on restarts

ASSUME PersistenceAssumption ==
  /\ Times \subseteq Nat
  /\ BatchSize \in Nat \ {0}
  /\ MaxQueue \in Nat \ {0}
  /\ MaxEvents \in Nat
  /\ MaxFaults \in Nat
  /\ MaxRestarts \in Nat

VARIABLES
  accepted,       \* number of events accepted so far
  disordered,     \* objects that got an event older than the one they had
  objects,        \* state.objects: the event each object was made from
  history,        \* state.trackHistory: the events of this process
  status,         \* trackHistoryStoreStatus
  pendingCurrent, \* events queued for cop_current_tracks, one per object
  pendingHistory, \* events queued for cop_track_history
  dropped,        \* droppedTrackHistoryPoints
  timer,          \* a flush is scheduled
  flushing,       \* a flush is in progress
  inFlight,       \* statements of the current batch
  rows,           \* cop_track_history
  current,        \* cop_current_tracks
  reader,         \* a history request: it joins a flush in progress, or runs its own
  missed,         \* events accepted before the last request that its answer lacks
  faults, restarts

arrivals == <<accepted, disordered>>
memory == <<objects, history, status>>
queues == <<pendingCurrent, pendingHistory, inFlight>>
tables == <<rows, current>>
reading == <<reader, missed>>
vars == <<arrivals, memory, queues, dropped, timer, flushing, tables, reading, faults, restarts>>

None == [id |-> 0]
Idle == [at |-> "idle"]

Init ==
  /\ accepted = 0
  /\ disordered = {}
  /\ objects = [o \in Objects |-> None]
  /\ history = {}
  /\ status = "ok"
  /\ pendingCurrent = {}
  /\ pendingHistory = <<>>
  /\ dropped = 0
  /\ timer = FALSE
  /\ flushing = FALSE
  /\ inFlight = {}
  /\ rows = {}
  /\ current = [o \in Objects |-> None]
  /\ reader = Idle
  /\ missed = {}
  /\ faults = 0
  /\ restarts = 0

Lesser(m, n) == IF m < n THEN m ELSE n

-----------------------------------------------------------------------------
(* acceptEvent() and queueTrackPersistence(), one synchronous step.          *)

\* The history queue drops its oldest point when it is full.
Enqueue(e) ==
  LET queue == Append(pendingHistory, e)
      overflow == IF Len(queue) > MaxQueue THEN Len(queue) - MaxQueue ELSE 0
  IN /\ pendingHistory' = SubSeq(queue, overflow + 1, Len(queue))
     /\ dropped' = dropped + overflow

AcceptEvent(o, t) ==
  /\ accepted < MaxEvents
  /\ accepted' = accepted + 1
  /\ disordered' = IF objects[o] # None /\ t < objects[o].time
                   THEN disordered \cup {o} ELSE disordered
  /\ LET e == [id |-> accepted', object |-> o, time |-> t]
     IN /\ objects' = [objects EXCEPT ![o] = e]
        /\ history' = history \cup {e}
        /\ IF status = "ok"
           THEN /\ pendingCurrent' = {q \in pendingCurrent : q.object # o} \cup {e}
                /\ Enqueue(e)
                /\ timer' = TRUE
           ELSE UNCHANGED <<pendingCurrent, pendingHistory, dropped, timer>>
  /\ UNCHANGED <<status, flushing, inFlight, tables, reading, faults, restarts>>

-----------------------------------------------------------------------------
(* flushQueuedTrackPersistence().                                            *)

Queued == pendingCurrent # {} \/ pendingHistory # <<>>

\* Mutant: the batch is bounded, the queue is cleared.
TakeBatchClears ==
  /\ LET points == SubSeq(pendingHistory, 1, Lesser(BatchSize, Len(pendingHistory)))
     IN inFlight' = IF status = "ok"
                    THEN [kind : {"current"}, event : pendingCurrent]
                           \cup [kind : {"history"}, event : ToSet(points)]
                    ELSE {}
  /\ pendingCurrent' = {}
  /\ pendingHistory' = <<>>
  /\ flushing' = TRUE

\* Takes the next batch from the queues and starts its statements; without
\* the store the batch is taken all the same, and nothing is written.
TakeBatch ==
  /\ \E objs \in SUBSET pendingCurrent :
       /\ Cardinality(objs) = Lesser(BatchSize, Cardinality(pendingCurrent))
       /\ LET n == Lesser(BatchSize, Len(pendingHistory))
              points == SubSeq(pendingHistory, 1, n)
          IN /\ pendingCurrent' = pendingCurrent \ objs
             /\ pendingHistory' = SubSeq(pendingHistory, n + 1, Len(pendingHistory))
             /\ inFlight' = IF status = "ok"
                            THEN [kind : {"current"}, event : objs]
                                   \cup [kind : {"history"}, event : ToSet(points)]
                            ELSE {}
  /\ flushing' = TRUE

TimerFires ==
  /\ timer
  /\ IF ~flushing /\ Queued
     THEN TakeBatch /\ timer' = FALSE
     ELSE timer' = flushing /\ UNCHANGED <<queues, flushing>>
  /\ UNCHANGED <<arrivals, memory, dropped, tables, reading, faults, restarts>>

\* Mutant: a row gives way to newer events only.
WriteStrict(w) ==
  IF w.kind = "history"
  THEN rows' = rows \cup {w.event} /\ UNCHANGED current
  ELSE /\ current' = [current EXCEPT ![w.event.object] =
                        IF @ = None \/ @.time < w.event.time THEN w.event ELSE @]
       /\ UNCHANGED rows

\* INSERT ... ON CONFLICT DO NOTHING; ON CONFLICT DO UPDATE ... WHERE
\* last_updated_at <= EXCLUDED.last_updated_at.
Write(w) ==
  IF w.kind = "history"
  THEN rows' = rows \cup {w.event} /\ UNCHANGED current
  ELSE /\ current' = [current EXCEPT ![w.event.object] =
                        IF @ = None \/ @.time <= w.event.time THEN w.event ELSE @]
       /\ UNCHANGED rows

WriteDone(w) ==
  /\ Write(w)
  /\ inFlight' = inFlight \ {w}
  /\ UNCHANGED <<arrivals, memory, pendingCurrent, pendingHistory, dropped, timer, flushing,
                 reading, faults, restarts>>

\* The statement fails, or its answer is lost.
WriteFails(w) ==
  /\ faults < MaxFaults
  /\ faults' = faults + 1
  /\ status' = "degraded"
  /\ inFlight' = inFlight \ {w}
  /\ Write(w) \/ UNCHANGED tables
  /\ UNCHANGED <<arrivals, objects, history, pendingCurrent, pendingHistory, dropped, timer,
                 flushing, reading, restarts>>

\* Mutant: a flush writes one batch and leaves the rest to the next timer.
BatchDoneOnce ==
  /\ flushing
  /\ inFlight = {}
  /\ flushing' = FALSE
  /\ reader' = IF reader.at = "flush" THEN [reader EXCEPT !.at = "query"] ELSE reader
  /\ UNCHANGED <<arrivals, memory, queues, dropped, timer, tables, missed, faults, restarts>>

\* All statements of a batch are settled: the next one, or the flush ends.
BatchDone ==
  /\ flushing
  /\ inFlight = {}
  /\ IF Queued
     THEN TakeBatch /\ UNCHANGED reader
     ELSE /\ flushing' = FALSE
          /\ reader' = IF reader.at = "flush" THEN [reader EXCEPT !.at = "query"] ELSE reader
          /\ UNCHANGED queues
  /\ UNCHANGED <<arrivals, memory, dropped, timer, tables, missed, faults, restarts>>

-----------------------------------------------------------------------------
(* readTrackHistory(): flush the queues, unless a flush is in progress, then *)
(* query the store, or the memory without it.                                *)

ReadTrackHistory ==
  /\ reader = Idle
  /\ IF flushing
     THEN /\ reader' = [at |-> "query", knows |-> history, joined |-> TRUE]
          /\ timer' = TRUE
          /\ UNCHANGED <<queues, flushing>>
     ELSE /\ UNCHANGED timer
          /\ IF Queued
             THEN /\ TakeBatch
                  /\ reader' = [at |-> "flush", knows |-> history, joined |-> FALSE]
             ELSE /\ reader' = [at |-> "query", knows |-> history, joined |-> FALSE]
                  /\ UNCHANGED <<queues, flushing>>
  /\ UNCHANGED <<arrivals, memory, dropped, tables, missed, faults, restarts>>

ReadAnswered ==
  /\ reader.at = "query"
  /\ missed' = reader.knows \ (IF status = "ok" THEN rows ELSE history)
  /\ reader' = Idle
  /\ UNCHANGED <<arrivals, memory, queues, dropped, timer, flushing, tables, faults, restarts>>

QueryFails ==
  /\ reader.at = "query"
  /\ status = "ok"
  /\ faults < MaxFaults
  /\ faults' = faults + 1
  /\ status' = "degraded"
  /\ missed' = reader.knows \ history
  /\ reader' = Idle
  /\ UNCHANGED <<arrivals, objects, history, queues, dropped, timer, flushing, tables, restarts>>

-----------------------------------------------------------------------------
\* The process ends; statements under way may still take effect.  A new one
\* restores its objects from the store, if that answers.
Restart ==
  /\ restarts < MaxRestarts
  /\ restarts' = restarts + 1
  /\ \E done \in SUBSET inFlight :
       /\ rows' = rows \cup {w.event : w \in {v \in done : v.kind = "history"}}
       /\ current' = [o \in Objects |->
            LET new == {w \in done : w.kind = "current" /\ w.event.object = o}
            IN IF new = {} THEN current[o]
               ELSE LET e == (CHOOSE w \in new : TRUE).event
                    IN IF current[o] = None \/ current[o].time <= e.time THEN e ELSE current[o]]
  /\ status' \in {"ok"} \cup (IF faults < MaxFaults THEN {"degraded"} ELSE {})
  /\ faults' = IF status' = "ok" THEN faults ELSE faults + 1
  /\ objects' = IF status' = "ok" THEN current' ELSE [o \in Objects |-> None]
  /\ history' = {}
  /\ pendingCurrent' = {}
  /\ pendingHistory' = <<>>
  /\ inFlight' = {}
  /\ dropped' = 0
  /\ timer' = FALSE
  /\ flushing' = FALSE
  /\ reader' = Idle
  /\ missed' = {}
  /\ UNCHANGED arrivals

Next ==
  \/ \E o \in Objects, t \in Times : AcceptEvent(o, t)
  \/ TimerFires
  \/ \E w \in inFlight : WriteDone(w) \/ WriteFails(w)
  \/ BatchDone
  \/ ReadTrackHistory
  \/ ReadAnswered
  \/ QueryFails
  \/ Restart

Spec == Init /\ [][Next]_vars

(* Timers fire and the database answers every statement.                     *)
FairSpec ==
  /\ Spec
  /\ WF_vars(TimerFires)
  /\ WF_vars(BatchDone)
  /\ WF_vars(\E w \in inFlight : WriteDone(w) \/ WriteFails(w))

-----------------------------------------------------------------------------
Event == [id : 1..MaxEvents, object : Objects, time : Times]

\* Every variable has its type.
TypeOK ==
  /\ accepted \in 0..MaxEvents
  /\ disordered \subseteq Objects
  /\ objects \in [Objects -> Event \cup {None}]
  /\ history \subseteq Event
  /\ status \in {"ok", "degraded"}
  /\ pendingCurrent \subseteq Event
  /\ pendingHistory \in Seq(Event) /\ Len(pendingHistory) <= MaxQueue
  /\ dropped \in Nat
  /\ timer \in BOOLEAN /\ flushing \in BOOLEAN
  /\ inFlight \subseteq [kind : {"current", "history"}, event : Event]
  /\ rows \subseteq Event
  /\ current \in [Objects -> Event \cup {None}]
  /\ reader \in {Idle} \cup [at : {"flush", "query"}, knows : SUBSET Event, joined : BOOLEAN]
  /\ missed \subseteq Event
  /\ faults \in Nat /\ restarts \in Nat

Writing(kind) == {w.event : w \in {v \in inFlight : v.kind = kind}}

(* While the store is in use every point of this process is stored, being    *)
(* written, queued, or one of those the drop counter reports.                *)
LossIsCounted ==
  status = "ok" =>
    Cardinality(history \ (rows \cup Writing("history") \cup ToSet(pendingHistory))) = dropped

(* While the store is in use, the event each object was made from is in the  *)
(* table of current tracks or on its way there, unless an event of an object *)
(* came after a newer one: memory takes the last, the table the newest.      *)
CurrentOnItsWay ==
  status = "ok" =>
    \A o \in Objects \ disordered :
      \/ objects[o] = current[o]
      \/ objects[o] \in pendingCurrent \cup Writing("current")

(* A history request that runs its own flush is answered with every point    *)
(* accepted before it came, but for those the drop counter reports, whatever *)
(* is accepted, dropped and flushed while it waits, and when the store fails.*)
ReadsComplete ==
  [][reader.at = "query" /\ reader' = Idle /\ ~reader.joined
       => Cardinality(missed') <= dropped]_vars

(* Queued points eventually leave the queues.                                *)
QueueDrains == []<>~Queued

(* The test of the history store: a point that was accepted is in the answer *)
(* of the next history request.  It does not hold of a request that joins a  *)
(* flush in progress: it does not wait for that flush.                       *)
ReadsAccepted == dropped = 0 => missed = {}

(* The runbook: the history of tracks survives a restart of the API.  It     *)
(* does not hold of queued points.                                           *)
HistorySurvives == [][restarts' # restarts => history \subseteq rows']_vars

(* The state model: the table holds the last known state of every object.    *)
(* It does not hold when events arrive out of order.                         *)
TableIsLastKnown ==
  status = "ok" /\ ~Queued /\ ~flushing => current = objects
=============================================================================
