------------------------------ MODULE EdgeSync ------------------------------
(***************************************************************************)
(* The edge node runtime (apps/cop-edge-node) and the part of the central   *)
(* COP API it talks to.  The edge keeps an outbox, a replay cache and a     *)
(* replay cursor in memory, writes the whole state to one file after every  *)
(* change, and synchronises in rounds: heartbeat, flush of the outbox, pull *)
(* of the replay, acknowledgement of the cursor.  Requests and answers may  *)
(* be lost or delayed, the process may crash at any point, and file writes  *)
(* may overlap.                                                             *)
(***************************************************************************)
EXTENDS Naturals, Sequences, FiniteSets

CONSTANTS
  EdgeEvents,    \* events captured at this edge node
  CentralEvents, \* events other producers publish at the central COP
  Invalid,       \* edge events the central contract parser rejects
  Deliverable,   \* events whose classification and release policy admit the node
  BatchLimit,    \* entries the flush endpoint accepts in one request (100)
  ReplayLimit,   \* events one replay request scans (100)
  CacheLimit,    \* replayed events the edge keeps (2000)
  DeadLimit,     \* dead letters the edge keeps (1000)
  MaxWriters,    \* bound on overlapping file writes
  MaxFaults      \* bound on crashes, lost requests and failed writes

ASSUME EventAssumption ==
  /\ EdgeEvents \cap CentralEvents = {}
  /\ "sync" \notin EdgeEvents
  /\ Invalid \subseteq EdgeEvents
  /\ Deliverable \subseteq EdgeEvents \cup CentralEvents

ASSUME LimitAssumption ==
  /\ BatchLimit \in Nat \ {0}
  /\ ReplayLimit \in Nat \ {0}
  /\ CacheLimit \in Nat \ {0}
  /\ ReplayLimit <= CacheLimit \* so the entries received last are the newest
  /\ DeadLimit \in Nat \ {0}
  /\ MaxWriters \in Nat \ {0}
  /\ MaxFaults \in Nat

VARIABLES
  up,       \* the edge process runs
  mem,      \* EdgeState in memory
  disk,     \* EdgeState in state.json
  writers,  \* running persist() calls in the order they began: whose, the state
            \* they serialised, whether one begun later has replaced the file
  pc,       \* where syncOnce() stands
  batch,    \* outbox entries the running flush sent
  job,      \* the flush request at the central API: still to do, rejected
  orphans,  \* entries of abandoned flush requests the API may still process
  next,     \* offset the running pull acknowledges
  acks,     \* acknowledgements on their way to the central API
  log,      \* central domain event log; an offset is a position
  dlq,      \* edge events in the central dead letter queue
  central,  \* replay cursor the central API holds for this node
  accepted, \* events whose POST /outbox was answered 202
  stale,    \* state.json holds an older state than it has held before
  lost,     \* the process ended while it did
  crashed,  \* the process has crashed or lost its state at least once
  faults    \* faults so far

edge == <<up, mem, disk, writers>>
round == <<pc, batch, next>>
wire == <<job, orphans, acks>>
api == <<log, dlq, central>>
file == <<stale, lost>>
aux == <<accepted, file, crashed, faults>>
vars == <<edge, round, wire, api, aux>>

Events == EdgeEvents \cup CentralEvents
Published == {log[o] : o \in DOMAIN log}
NoJob == [todo |-> {}, rejected |-> {}]
Fresh == [outbox |-> {}, dead |-> {}, inbound |-> {}, cursor |-> 0,
          mode |-> "DEGRADED", synced |-> FALSE]

\* `kept` are the `limit` newest of the offsets `all` (slice(-limit)).
IsNewest(kept, all, limit) ==
  /\ kept \subseteq all
  /\ \A k \in kept, d \in all \ kept : d < k
  /\ IF Cardinality(all) <= limit THEN kept = all ELSE Cardinality(kept) = limit

\* Which of the older dead letters are cut is left open: nothing reads them.
IsTrimmed(kept, all, limit) ==
  /\ kept \subseteq all
  /\ IF Cardinality(all) <= limit THEN kept = all ELSE Cardinality(kept) = limit

Init ==
  /\ up = TRUE
  /\ mem = Fresh
  /\ disk = Fresh
  /\ writers = <<>>
  /\ pc = "idle"
  /\ batch = {}
  /\ job = NoJob
  /\ orphans = {}
  /\ next = 0
  /\ acks = {}
  /\ log = <<>>
  /\ dlq = {}
  /\ central = 0
  /\ accepted = {}
  /\ stale = FALSE
  /\ lost = FALSE
  /\ crashed = FALSE
  /\ faults = 0

-----------------------------------------------------------------------------
(* persist(): the state is serialised when the call starts; the temporary    *)
(* file replaces state.json when rename() runs.  Nothing orders two calls.   *)

MayPersist == Len(writers) < MaxWriters

Persisting(by, state) ==
  writers' = Append(writers, [by |-> by, state |-> state, late |-> FALSE])

Others(k) ==
  [i \in 1..(Len(writers) - 1) |-> IF i < k THEN writers[i] ELSE writers[i + 1]]

\* POST /outbox: the entry joins the outbox in memory and persist() starts.
QueueOutboxEvent(e) ==
  /\ up
  /\ MayPersist
  /\ mem' = [mem EXCEPT !.outbox = @ \cup {e}]
  /\ Persisting(e, mem')
  /\ UNCHANGED <<up, disk, round, wire, api, aux>>

\* rename() succeeds; the caller of POST /outbox gets its 202.  The calls begun
\* before this one are late from now on.
PersistDone(k) ==
  /\ disk' = writers[k].state
  /\ writers' = [i \in DOMAIN Others(k) |->
                  [Others(k)[i] EXCEPT !.late = @ \/ i < k]]
  /\ accepted' = accepted \cup ({writers[k].by} \cap EdgeEvents)
  /\ stale' = writers[k].late
  /\ UNCHANGED <<up, mem, round, wire, api, lost, crashed, faults>>

\* writeFile() or rename() throws: 500 to the client, the state stays as it is.
PersistFails(k) ==
  /\ faults < MaxFaults
  /\ faults' = faults + 1
  /\ writers' = Others(k)
  /\ UNCHANGED <<up, mem, disk, round, wire, api, accepted, file, crashed>>

-----------------------------------------------------------------------------
(* syncOnce(): one round at a time; a call during a round returns at once.   *)

SyncOnce ==
  /\ up
  /\ pc = "idle"
  /\ pc' = "heartbeat"
  /\ UNCHANGED <<edge, batch, next, wire, api, aux>>

Heartbeat ==
  /\ pc = "heartbeat"
  /\ pc' = "flush"
  /\ UNCHANGED <<edge, batch, next, wire, api, aux>>

\* A round that fails reports "degraded" and goes on to its final persist().
Degraded ==
  /\ mem' = [mem EXCEPT !.mode = IF mem.synced THEN "DEGRADED" ELSE "OFFLINE"]
  /\ pc' = "finish"
  /\ batch' = {}
  /\ next' = 0

FlushNothing ==
  /\ pc = "flush"
  /\ mem.outbox = {}
  /\ pc' = "pull"
  /\ UNCHANGED <<edge, batch, next, wire, api, aux>>

FlushOutbox ==
  /\ pc = "flush"
  /\ mem.outbox # {}
  /\ Cardinality(mem.outbox) <= BatchLimit
  /\ batch' = mem.outbox
  /\ job' = [todo |-> mem.outbox, rejected |-> {}]
  /\ pc' = "flushing"
  /\ UNCHANGED <<edge, next, orphans, acks, api, aux>>

\* 413 BATCH_TOO_LARGE: the whole outbox is one batch, so the round fails.
FlushTooLarge ==
  /\ pc = "flush"
  /\ Cardinality(mem.outbox) > BatchLimit
  /\ Degraded
  /\ UNCHANGED <<up, disk, writers, wire, api, aux>>

\* Mutant: the outbox is emptied instead of filtered by the answered ids.
FlushAnsweredClearsAll ==
  /\ pc = "flushing"
  /\ job.todo = {}
  /\ mem' = [mem EXCEPT !.outbox = {}]
  /\ pc' = "pull"
  /\ job' = NoJob
  /\ UNCHANGED <<up, disk, writers, batch, next, orphans, acks, api, aux>>

\* Mutant: the flush request is not awaited.
FlushAnsweredEarly ==
  /\ pc = "flushing"
  /\ mem' = [mem EXCEPT !.outbox = @ \ batch]
  /\ pc' = "pull"
  /\ job' = NoJob
  /\ orphans' = orphans \cup job.todo
  /\ UNCHANGED <<up, disk, writers, batch, next, acks, api, aux>>

\* The answers arrive: accepted, duplicate and rejected entries leave the outbox.
FlushAnswered ==
  /\ pc = "flushing"
  /\ job.todo = {}
  /\ \E dead \in SUBSET (mem.dead \cup job.rejected) :
       /\ IsTrimmed(dead, mem.dead \cup job.rejected, DeadLimit)
       /\ mem' = [mem EXCEPT !.outbox = @ \ batch, !.dead = dead]
  /\ pc' = "pull"
  /\ job' = NoJob
  /\ UNCHANGED <<up, disk, writers, batch, next, orphans, acks, api, aux>>

\* One replay request: the API scans at most ReplayLimit offsets after the
\* edge's cursor and sends those the node may see; the edge caches them.
Scanned == {o \in DOMAIN log : o > mem.cursor /\ o <= mem.cursor + ReplayLimit}
Replayed == {o \in Scanned : log[o] \in Deliverable}

\* Mutants: the end of the log, and the last event delivered, in place of the
\* last offset scanned.
NextOffsetTotal == Len(log)
NextOffsetDelivered == IF Replayed = {} THEN mem.cursor
                       ELSE CHOOSE o \in Replayed : \A p \in Replayed : p <= o

NextOffset == IF mem.cursor + ReplayLimit <= Len(log)
              THEN mem.cursor + ReplayLimit ELSE Len(log)

PullReplay ==
  /\ pc = "pull"
  /\ Scanned # {}
  /\ \E kept \in SUBSET (mem.inbound \cup Replayed) :
       /\ IsNewest(kept, mem.inbound \cup Replayed, CacheLimit)
       /\ mem' = [mem EXCEPT !.inbound = kept]
  /\ next' = NextOffset
  /\ acks' = acks \cup {NextOffset}
  /\ pc' = "ack"
  /\ UNCHANGED <<up, disk, writers, batch, job, orphans, api, aux>>

\* The round ended well.
Online ==
  /\ pc' = "finish"
  /\ batch' = {}
  /\ next' = 0

PullNothing ==
  /\ pc = "pull"
  /\ Scanned = {}
  /\ mem' = [mem EXCEPT !.mode = "ONLINE", !.synced = TRUE]
  /\ Online
  /\ UNCHANGED <<up, disk, writers, wire, api, aux>>

\* The answer to the acknowledgement arrives and the local cursor follows.
AckAnswered ==
  /\ pc = "ack"
  /\ next \notin acks
  /\ mem' = [mem EXCEPT !.cursor = IF next > @ THEN next ELSE @,
                        !.mode = "ONLINE", !.synced = TRUE]
  /\ Online
  /\ UNCHANGED <<up, disk, writers, wire, api, aux>>

\* The running request fails for the edge: refused, lost, or its answer lost.
\* What the API has received of it may still be processed later.
RequestFails ==
  /\ pc \in {"heartbeat", "flush", "flushing", "pull", "ack"}
  /\ faults < MaxFaults
  /\ faults' = faults + 1
  /\ orphans' = orphans \cup job.todo
  /\ job' = NoJob
  /\ Degraded
  /\ UNCHANGED <<up, disk, writers, acks, api, accepted, file, crashed>>

\* Mutant: syncInProgress is never cleared.
FinishRoundKeepsLock ==
  /\ pc = "finish"
  /\ MayPersist
  /\ Persisting("sync", mem)
  /\ UNCHANGED <<up, mem, disk, round, wire, api, aux>>

\* finally: syncInProgress is cleared before persist() is awaited.
FinishRound ==
  /\ pc = "finish"
  /\ MayPersist
  /\ Persisting("sync", mem)
  /\ pc' = "idle"
  /\ UNCHANGED <<up, mem, disk, batch, next, wire, api, aux>>

-----------------------------------------------------------------------------
(* The process ends, by a crash, a signal, or a rejected syncOnce() nobody   *)
(* awaits; memory and unfinished writes are gone.                            *)

Crash ==
  /\ up
  /\ faults < MaxFaults
  /\ faults' = faults + 1
  /\ up' = FALSE
  /\ crashed' = TRUE
  /\ lost' = (lost \/ stale)
  /\ mem' = Fresh
  /\ writers' = <<>>
  /\ pc' = "idle"
  /\ batch' = {}
  /\ next' = 0
  /\ orphans' = orphans \cup job.todo
  /\ job' = NoJob
  /\ UNCHANGED <<disk, acks, api, accepted, stale>>

Restart ==
  /\ ~up
  /\ up' = TRUE
  /\ mem' = disk
  /\ UNCHANGED <<disk, writers, round, wire, api, aux>>

-----------------------------------------------------------------------------
(* The central API.  A flush is processed entry by entry: an entry the       *)
(* parser rejects becomes a dead letter, any other is inserted into the log  *)
(* unless its id is already there.                                           *)

Process(e) ==
  IF e \in Invalid
  THEN dlq' = dlq \cup {e} /\ UNCHANGED log
  ELSE /\ log' = IF e \in Published THEN log ELSE Append(log, e)
       /\ UNCHANGED dlq

FlushEntry(e) ==
  /\ e \in job.todo
  /\ Process(e)
  /\ job' = [todo |-> job.todo \ {e}, rejected |-> job.rejected \cup ({e} \cap Invalid)]
  /\ UNCHANGED <<edge, round, orphans, acks, central, aux>>

OrphanEntry(e) ==
  /\ e \in orphans
  /\ Process(e)
  /\ orphans' = orphans \ {e}
  /\ UNCHANGED <<edge, round, job, acks, central, aux>>

\* The stored cursor only grows (GREATEST).
AckArrives(n) ==
  /\ acks' = acks \ {n}
  /\ central' = IF n > central THEN n ELSE central
  /\ UNCHANGED <<edge, round, job, orphans, log, dlq, aux>>

\* Another producer publishes; an id already in the log is a duplicate.
PublishCentral(e) ==
  /\ e \notin Published
  /\ log' = Append(log, e)
  /\ UNCHANGED <<edge, round, wire, dlq, central, aux>>

-----------------------------------------------------------------------------
SyncStep ==
  \/ SyncOnce \/ Heartbeat \/ FlushNothing \/ FlushOutbox \/ FlushTooLarge
  \/ FlushAnswered \/ PullReplay \/ PullNothing \/ AckAnswered \/ FinishRound

ApiStep ==
  \/ \E e \in job.todo : FlushEntry(e)
  \/ \E n \in acks : AckArrives(n)

Next ==
  \/ \E e \in EdgeEvents : QueueOutboxEvent(e)
  \/ \E k \in DOMAIN writers : PersistDone(k)
  \/ \E k \in DOMAIN writers : PersistFails(k)
  \/ SyncStep
  \/ RequestFails
  \/ Crash
  \/ Restart
  \/ ApiStep
  \/ \E e \in orphans : OrphanEntry(e)
  \/ \E e \in CentralEvents : PublishCentral(e)

Spec == Init /\ [][Next]_vars

(* The interval timer keeps starting rounds, Node completes file writes, the *)
(* API answers what reaches it, and a supervisor restarts the process.  The  *)
(* round's own persist() waits for nobody in the code; it is strongly fair   *)
(* because MayPersist, a bound of the model, can be switched off by clients. *)
Fairness ==
  /\ WF_vars(SyncStep)
  /\ SF_vars(FinishRound)
  /\ WF_vars(\E k \in DOMAIN writers : PersistDone(k))
  /\ WF_vars(ApiStep)
  /\ WF_vars(Restart)

FairSpec == Spec /\ Fairness

-----------------------------------------------------------------------------
States == [outbox : SUBSET EdgeEvents, dead : SUBSET Invalid,
           inbound : SUBSET Nat, cursor : Nat,
           mode : {"DEGRADED", "ONLINE", "OFFLINE"}, synced : BOOLEAN]

Writer == [by : EdgeEvents \cup {"sync"}, state : States, late : BOOLEAN]

\* Every variable has its type.
TypeOK ==
  /\ up \in BOOLEAN
  /\ mem \in States
  /\ disk \in States
  /\ writers \in Seq(Writer)
  /\ pc \in {"idle", "heartbeat", "flush", "flushing", "pull", "ack", "finish"}
  /\ batch \subseteq EdgeEvents
  /\ job \in [todo : SUBSET EdgeEvents, rejected : SUBSET Invalid]
  /\ orphans \subseteq EdgeEvents
  /\ next \in Nat
  /\ acks \subseteq Nat
  /\ log \in Seq(Events)
  /\ dlq \subseteq Invalid
  /\ central \in Nat
  /\ accepted \subseteq EdgeEvents
  /\ stale \in BOOLEAN
  /\ lost \in BOOLEAN
  /\ crashed \in BOOLEAN
  /\ faults \in Nat

Settled == Published \cup dlq

(* The cursor in memory, in a running write or on disk never passes an event *)
(* the node may see and does not hold: an event at or below the cursor is    *)
(* cached, or the cache is full of newer ones; and nothing the release       *)
(* policy withholds is in the cache.                                         *)
Complete(s, l) ==
  /\ s.cursor <= Len(l)
  /\ \A o \in s.inbound : o \in DOMAIN l /\ l[o] \in Deliverable
  /\ \A o \in 1..s.cursor :
       l[o] \in Deliverable =>
         \/ o \in s.inbound
         \/ Cardinality(s.inbound) >= CacheLimit /\ \A p \in s.inbound : o < p

CacheComplete ==
  /\ Complete(mem, log)
  /\ Complete(disk, log)
  /\ \A k \in DOMAIN writers : Complete(writers[k].state, log)

(* While the process has not crashed, an event whose client got a 202 is in  *)
(* the outbox until the central COP has published or dead-lettered it, even  *)
(* when file writes overlap and requests fail.                               *)
AcceptedKept ==
  ~crashed => \A e \in accepted : e \in mem.outbox \cup Settled

(* What the runbook says of the file: no event whose client got a 202 is     *)
(* missing from it before it is settled.  Overlapping writes break it.       *)
AcceptedDurable == \A e \in accepted : e \in disk.outbox \cup Settled

(* However writes overlap, fail and are cut by a crash, that is their order  *)
(* alone: an accepted event is missing from the file only while a state      *)
(* serialised earlier has replaced a later one, or after the process ended   *)
(* just then.                                                                *)
AcceptedSurvives == ~stale /\ ~lost => AcceptedDurable

(* A round that reports ONLINE has settled every entry it flushed.           *)
OnlineMeansFlushed ==
  [][pc # "finish" /\ pc' = "finish" /\ mem'.mode = "ONLINE" =>
       batch \subseteq Settled]_vars

(* The documentation: the edge acknowledges after durable processing, so the *)
(* acknowledged offset is never ahead of the cursor in state.json.  It does  *)
(* not hold: the acknowledgement goes out before the file is written.        *)
AckAfterDurable == central <= disk.cursor

\* A round sends the whole outbox; the API refuses it above its limit, and the
\* round ends there, for good.
Stuck == Cardinality(mem.outbox) > BatchLimit

(* An event of the outbox is eventually published or dead-lettered, unless   *)
(* the process crashes or the outbox grows past what the API takes at once.  *)
OutboxDrains ==
  \A e \in EdgeEvents : e \in mem.outbox ~> (e \in Settled \/ crashed \/ Stuck)

(* An event in the central log the node may see eventually reaches its cache *)
(* or is pushed out of it by newer ones, unless the outbox grows too large.  *)
EventsReachEdge ==
  \A e \in Events \cap Deliverable :
    e \in Published ~> \/ \E o \in DOMAIN log : log[o] = e /\ up /\ mem.cursor >= o
                      \/ Stuck

(* The state file and the central API implement OutboxDelivery, but for the  *)
(* renames that put an older state over a later one: an accepted event stays *)
(* accepted until it is published or dead-lettered, and neither is undone.   *)
Fate ==
  [e \in EdgeEvents |->
     IF e \in Published THEN "published"
     ELSE IF e \in dlq THEN "deadLettered"
     ELSE IF e \in disk.outbox THEN "accepted" ELSE "absent"]

Delivery == INSTANCE OutboxDelivery WITH fate <- Fate
StaleRename == stale' /\ disk' # disk
ImplementsDelivery == Delivery!Init /\ [][Delivery!Next \/ StaleRename]_Fate
=============================================================================
