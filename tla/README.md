# Delta ACR COP: TLA+ verification project

The repository is a civil common operational picture (COP): a monorepo of
TypeScript services and clients that collect situation data from sources,
fuse and store it, stream it to map clients, and exchange domain events
between federated nodes, some of which work offline. This directory holds a
formal model of its stateful core, model-checked with TLC and partly proved
with TLAPS. Every definition is translated from the source; `PROJECT.json`
names the lines of each, and lists the runs, mutants, findings, hazards and
theorems.

## 1. Inventory

### 1.1 Components, their state and their operations

| Component | Where | State | Operations that change it |
| --- | --- | --- | --- |
| Edge node runtime | `apps/cop-edge-node` | `EdgeState` in memory and in `state.json` (outbox, dead letters, replay cache, cursor, mode), `syncInProgress` | `POST /outbox`, `POST /sync` and the interval timer, process start and stop |
| Domain event log and replay | `apps/cop-api`: `server.ts` federation routes, `federation.ts`, `federation-runtime-store.ts` | table of events (`bigserial` offset); an in-memory copy used after the store failed | publish, edge flush, replay |
| Replay cursors | same files | a cursor per node in a table, a copy in memory | read, acknowledge |
| Federation node registry | same files | nodes | heartbeat, default nodes at start |
| Domain dead letter queue | same files | dead letters with status and retry count | reject on publish or flush, re-drive, resolve |
| Track ingest | `server.ts` (`handleIngestEvent`, `acceptEvent`, batch ingest, provider poll) | current objects, accepted events, idempotency table | ingest, batch ingest, poll of a provider, expiry |
| Track persistence | `server.ts` (`queueTrackPersistence`, `flushQueuedTrackPersistence`, ...), `track-history-store.ts` | pending current tracks (latest per object), pending history points (bounded), one flush timer and one running flush | queue, flush, read, close |
| COP live stream | `cop-stream.ts`, `cop-stream-bus.ts`, SSE route in `server.ts` | message sequence per instance, subscribers, readiness of the Postgres notification bus | publish, notify, connect, disconnect, heartbeat |
| Incidents and tasks | `incident-store.ts`, routes | incidents and tasks in Postgres or memory | create, update (read, modify, write) |
| Sketch drawings | `sketch-store.ts` | drawings | create, update, delete |
| Community reports and groups | `community-report-store.ts` | reports, attachments, groups, members | submit, publish, membership changes |
| Mobile devices and mesh | `mobile-device-store.ts` | pairing sessions, devices, mesh acknowledgements | create, claim, confirm, revoke, ingest bundle |
| User profiles | `user-profile-store.ts`, store recovery in `server.ts` | profiles; store status with a single recovery in flight | read, write, recover |
| Safety notifications | `notification-decision.ts`, evaluation route | issued notification requests by idempotency key | evaluate, send |
| Alerts | `alerts.ts` | acknowledgements | build, acknowledge |
| AI orchestration | `ai-*.ts`, `packages/ai-gateway` | context index, agent jobs | refresh (one at a time), job lifecycle |
| MCP gateway | `apps/cop-mcp-gateway`, `/mcp` routes | none that outlives a request | tool calls |
| Messaging provider and bridge | `messaging-provider.ts`, `packages/messaging` | Matrix session, secure secrets, push subscriptions | login, refresh, sync, send |
| Chat client | `apps/cop-chat` | timeline cache, workflow state, refresh coordinator | refresh, open, send |
| Incident fusion, conflict evidence | `incident-fusion.ts`, `conflict-evidence.ts` | none: pure functions of current objects | |
| Media storage and conversion | `media-storage.ts`, `media-conversion.ts` | objects in a store | upload, convert |
| Authentication and policy | `security.ts`, `packages/policy-engine` | none: checks of one request | |
| Canonical model, contracts, symbols | `packages/canonical-model`, `ingest-contracts`, `openapi`, `nato-symbol-renderer` | none: types, validation, drawing | |
| Web client and service worker | `apps/cop-web`, `packages/core` | stream state of the map, offline caches, release in use | connect, apply deltas, update release |
| External data sources | `*-source.ts` | last answers | fetch and normalise |

The edge node calls the central API over HTTP (heartbeat, flush, replay,
acknowledge); the API writes to Postgres, and after the first error of a store
keeps working on its own memory until it is restarted; ingest feeds the current
objects, the persistence queue and the live stream; instances of the API tell
each other about stream messages through Postgres notifications; web clients
hold a snapshot and apply the deltas of the stream.

### 1.2 What is hard, and what correctness means

* **Edge node.** File writes overlap because nothing awaits an earlier
  `persist()`; rounds and client requests interleave at every `await`; answers
  are lost; the process stops at any point. Correct means: an event whose client
  got a 202 is never lost, no event is published twice, the replay cursor passes
  nothing the node has not cached, and what is queued eventually arrives.
* **Domain event log.** Offsets are allocated before the insert commits;
  publishing, replay and acknowledgement race; a store error switches the API to
  a memory with offsets of its own. Correct means: one offset per event id,
  offsets a reader can follow without losing events, cursors that never move
  back.
* **Dead letter queue.** A re-drive is a publish and an update, not one
  transaction, and is not guarded by the letter's status.
* **Ingest.** The idempotency key is recorded after an `await`.
* **Track persistence.** A bounded queue, one flush at a time, points queued
  while a flush runs, readers that flush first, errors that end persistence.
* **Live stream.** A client subscribes before its snapshot is read, the
  snapshot gets its number after an `await`, and instances relay messages that
  carry another instance's numbers.
* **Stores with fallback.** The first error switches a store to memory; only
  the user profile store comes back.
* **Incidents.** An update reads, merges and writes without a lock.

## 2. Plan

Modules are ordered by how much of the promise "no accepted event is lost,
none is delivered twice, every reader catches up" rests on the code they model.

| Step | Module | Composes or implements | Status |
| --- | --- | --- | --- |
| 1 | `OutboxDelivery` | abstract: the fate of an event handed to an edge node | done |
| 2 | `EdgeSync` | edge node and central API together; implements `OutboxDelivery` | done, proved |
| 3 | `EventFeed` | abstract: what a follower may assume of offsets | done |
| 4 | `DomainEventLog` | handlers, database, process memory, follower; implements `EventFeed` as long as inserts do not overlap | done, proved |
| 5 | `ReplayCursor`, `DeadLetters` | the other two tables of the federation store | done, proved |
| 6 | `LiveStream` | instances, bus, relays, connections, client view | done, proved |
| 7 | `TrackPersistence`, `Ingest` | what an accepted track event goes through | done, proved |
| 8 | `StoredRecord`, `IncidentRecords`, `SketchDrawings`, `CommunityReports`, `UserProfiles`, composed by `RecordStores` | records that are read, merged and written back; the shared recovery of the profile store | done, proved |
| 9 | `MobilePairing` | pairing of mobile devices, mesh acknowledgements | done, proved |
| 10 | `GroupMembership` | members and metadata of a sharing group | done, proved |
| 11 | `LiveTrackProofs`, `RecordStoresProofs`: proofs of `LiveStream` and of `RecordStores` | extend the modules they prove about | done |
| 12 | web client and service worker (release switch, offline caches), chat timeline, Matrix session, federation node registry | | left |

Every module is written so that it can be proved about: constants carry named
assumptions, every operation is an action of its own, invariants are
conjunctions, and nothing is declared RECURSIVE. There is one passing run per
module or family, which holds all its properties, and one run for each of the
two disagreements of section 8. Step 12 is what is left.

## 3. Modules and code

### 3.1 `EdgeSync` (with `OutboxDelivery`)

`mem` is `EdgeState` in memory and `disk` the content of `state.json`; both are
records of the outbox, the dead letters, the replay cache (`inbound`), the
cursor and the mode. An entry is the event id it carries, an offset is a
position of `log`. `writers` holds the running `persist()` calls in the order they
began, each with the state it serialised when it started; one is `late` when a
call begun after it has replaced the file already. `stale` says that the file
holds an older state than it has held before, `lost` that the process ended while
it did. `pc`, `batch` and `next` are where
`syncOnce()` stands, `job` and `orphans` the flush requests at the central API,
`acks` the acknowledgements under way. `log`, `dlq` and `central` are the API's
tables.

| Actions | Code |
| --- | --- |
| `QueueOutboxEvent`, `PersistDone`, `PersistFails` | `POST /outbox`: outbox in memory, `persist()`, then the 202 or the 500 |
| `SyncOnce`, `Heartbeat`, `FlushNothing/Outbox/TooLarge/Answered`, `PullReplay`, `PullNothing`, `AckAnswered`, `FinishRound` | `syncOnce()` between its `await`s; `finally` clears the lock before `persist()` is awaited |
| `RequestFails` | the running request is refused, lost, or its answer is lost; what reached the API stays there as `orphans` |
| `FlushEntry`, `OrphanEntry`, `AckArrives`, `PublishCentral` | the API's flush handler entry by entry, acknowledgement (`GREATEST`), publish |
| `Crash`, `Restart` | end of the process at any point, start from the file |

Nothing serialises the `persist()` calls: a request and the end of a round, or two
requests, write at once, and their renames come in any order (`StaleRename`).
`FairSpec` adds the fairness of section 5.

`OutboxDelivery` gives an event a fate (absent, accepted, published, dead
lettered) and never takes a settled fate back; `Fate` in `EdgeSync` is the
refinement mapping. `ImplementsDelivery` says that every step is one of
`OutboxDelivery`, a stutter or the rename of a late write: nothing else, no crash,
lost answer or repeated request, disturbs a fate.

### 3.2 `DomainEventLog` (with `EventFeed`)

`rows` and `seq` are `cop_domain_events` and its sequence. `tx[h]` is the insert
of handler `h` at the database: `started` has taken an offset, `holding` holds
the unique key, `inserted` or `conflict` is an answer nobody has read. `pc[h]` is
the `await` the handler is in. `memory` is `state.domainEvents`, which is a copy
while `status` is `ok` and all there is when it is `degraded`. `Claim` and `Commit`
are PostgreSQL's part, `Inserted`, `Conflict`, `Lookup` and `StoreFails` the
continuations in `publishEvent` and `publishRuntimeDomainEvent`. `Replay` is one
request of a follower that keeps the highest offset scanned, as `pullReplay()`
of the edge does. The history variables `overlapped` (two inserts were at the
database at once) and `fellBack` (the store was given up) say how far a property
goes: what is promised of offsets in order is promised `InOrder`, that is, until
one of the two happens. `EventFeed` is a map from events to offsets in which an
event keeps its offset and new offsets are above all older ones.

### 3.3 `ReplayCursor` and `DeadLetters`

`FederationStore` holds what the two share: the status of the store, given up at
the first error, the handlers and the restarts. Both model a table (`row`,
`table`), the copy the process keeps (`cache`, `copies`), and handlers whose
request is a sequence of statement and continuation: `Begin`, the statement, the
answer. The copy is written when an answer is processed, so its order is that of
the answers. An acknowledgement creates the row (`stored`), also one of offset 0;
only the answer that there is no row leaves the copy alone (`NoRowAnswered`).
Once the store is given up, letters are rejected, re-driven and resolved among the
copies (`RejectDegraded`, `OperateDegraded`). The initial state and the
specification of `ReplayCursor` are `CursorInit` and `CursorSpec`, because one
module holds the proofs of both. In `DeadLetters` a re-drive reads the letter,
publishes, updates and is answered, and `published` holds its publications: a
letter whose event has an id is published once, an `Anonymous` one anew each time.
`overlapped` remembers that two requests were in progress at once.

### 3.4 `LiveStream`

`state[i]` holds, per object, the number of the update instance `i` has.
`Ingest` replaces objects, numbers a delta and publishes it: at once on the
memory bus, through `publishing` (`Store`, then `Published`, or `PublishFails`,
which delivers locally too) on the PostgreSQL bus. `deployment`, chosen once from
`Deployments`, says which bus is configured (`shared`) and whether a snapshot
awaits the history database (`slow`). `relays[i]` are notifications
whose row instance `i` is selecting; up to `PoolMax` may answer in any order.
`Connect` subscribes and chooses the objects of the snapshot; in a slow
deployment `EvidenceRead` writes it later. `sent[c]` is what the
connection was written, and `Shown` what the web client makes of it: the last
snapshot and the deltas after it.

### 3.5 `TrackPersistence`

`pendingCurrent` and `pendingHistory` are the two queues, `timer` and `flushing`
the scheduled and the running flush, `inFlight` the statements of the running
batch, `rows` and `current` the tables. `AcceptEvent` is `acceptEvent()` with
`queueTrackPersistence()`, which drops the oldest points of a full queue.
`TimerFires`, `BatchDone` and `ReadTrackHistory` take batches (`TakeBatch`);
`Write` keeps the row with the newer timestamp. `reader` is one history request
with the events accepted before it: it starts a flush and awaits it, or, while
another is in progress, schedules one and goes on at once (`joined`). `missed` is
what its answer lacked.
`disordered` holds the objects that were given an event older than the one they
had.

### 3.6 `Ingest`

`events` and `times` are the accepted ids, `idempotency` the table of keys,
`req` what each request or poll awaits. `IngestKnown` answers from the table,
`IngestNew` accepts and awaits the publication, `IngestPublished` stores the key
and answers. `IngestBatch` accepts without a key, `PollAnswered` only ids that are
new when the provider answers. `raced` holds keys under which a request began
while another was in progress.

### 3.7 `MobilePairing`

`sessions`, `devices` and `acks` hold the rows of each store; the requests that
claim or confirm a code are sequences of statements (`ExpirePairingSessions`
first, in every one), while creating, registering, revoking and the mesh bundle
are one statement each. `req[r].now` is the time a request began, which all its
statements use, and `Tick` lets codes expire in between. The in-memory store
answers each of its calls in one step, so its requests interleave less.
`RequestFails`, `CreateFails` and `IngestFails` switch to it, `Restart` goes back
to the tables. `contested` are codes two requests confirmed at once, `cut` those
whose confirmation ended between the session's update and the device's insert.

### 3.8 `GroupMembership`

`members` and `metadata` are a group's rows. A request reads the group
(`LeaveGroup`, `RemoveGroupMember`, `UpsertGroupMember`, `RequestGroupMembership`,
`UpdateGroupMetadata`), decides on what it read, and writes in a later step
(`Leaves`, `Upserts`, `Joins`, `WritesMetadata`); switching on the AI assistant
calls the messaging service in between (`ProvisionAiMatrixBot`). `req[r].fresh`
turns false when what was read is out of date, and the history variables `raced`
and `overwrote` remember that somebody wrote in spite of it.

### 3.9 `RecordStores` and its parts

`StoredRecord` is one record of `kind` incident, task, sketch, report or profile,
read and merged by a request and written back by a later statement: `Begin`,
`Merge`, `Writes`. A statement fails before it takes effect (`StatementFails`), or
its answer is lost after it has (`UpsertLost`, `SketchLost`, `ReportLost`,
`ProfileFails`): the store is given up either way, and what should follow the
write, its event or audit entry, is left out. The kinds add what they have of their own:

| Module | Adds | Code |
| --- | --- | --- |
| `IncidentRecords` | the domain event after the write; a task's only for a new status, told from what the route had read | `PATCH` of incidents and tasks |
| `SketchDrawings` | the revision raised by the statement, the audit entry inserted after it, deletion | update and delete of drawings |
| `CommunityReports` | submission and deletion, which leave the other fields alone | edit, submit and delete of reports |
| `UserProfiles` | the in-memory fallback and the one recovery that all requests wait for | preferences, `ensureUserProfileStoreReady()` |

`events` are in the order of their publication, which is the order of a follower;
nothing in the code brings it in line with the order of the writes. `written`, a
history variable, is the record as each write left it, and an event carries the
number of its write, by which `EventsTellWrites` compares the two sequences.
`RecordStores` extends them all and gives each action what it leaves unchanged;
the kind is chosen in `Init`. `overtaken` remembers a write on an outdated read,
`cut` a request that ended between a write and the event or entry that follows,
`missed` a profile whose settings were taken from the fallback.

## 4. Runs

Every run is exhaustive within its bounds. Deadlock is checked for the edge node,
whose timer never stops; the other models stop when their bounded inputs are used
up, so their configurations say `CHECK_DEADLOCK FALSE`.

| Run | Bounds | Shows |
| --- | --- | --- |
| `edge_sync` | two valid and one invalid event, a deliverable and a withheld central event, the first valid one deliverable too, batch of two, cache of one, one fault, two writes at once, `FairSpec` | `CacheComplete`, `AcceptedSurvives`, `OnlineMeansFlushed`, `OutboxDelivery` is implemented but for late renames, `OutboxDrains`, `EventsReachEdge` |
| `edge_stale_write` | two events, two overlapping writes, no fault | violates `AcceptedDurable` (section 8) |
| `log` | two events, two handlers, offsets to 4, replays of one event, one store error, one restart, `FairSpec` | `NothingSkippedInOrder`, `IdempotentInStore`, `AnsweredIsStored`, `EventFeed` is implemented, `EventuallyReceived` |
| `log_gap` | two events, two handlers, no fault | violates `NothingSkipped` (section 8) |
| `replay_cursor` | three handlers, offsets to 3, two errors, two restarts | `CursorNeverBack`, `FallbackNeverBack` |
| `dead_letters` | a letter with and one without an id, two handlers, two operators, one error, one restart | `RetriesWerePublished`, `RejectionIsKept`, `FirstCloserStays`, `RetriesNeverLost` |
| `live_stream` | all four deployments, two instances, one client, two updates of an object (and of a second one on the memory bus), two bus errors, two pool connections | `ShowsCurrent`, `UpdatesReach`, `NoEcho` |
| `track_persistence` | two objects, two timestamps, batches of one, queue of two, three events, one error, one restart, `FairSpec` | `LossIsCounted`, `CurrentOnItsWay`, `ReadsComplete`, `QueueDrains` |
| `ingest` | two ids, contents, keys and handlers, three acceptances | `KeyNamesOneEvent`, `RetryGetsFirstResult`, `PolledOnce` |
| `pairing` | two devices, users and requests, one code and one bundle, a code that expires after a tick, one error, one restart | `CodePairsClaimedDevice`, `PairedOnce`, `AcceptedOnce`, `FinalStays` |
| `groups` | two users, two requests, one error, one restart | `ManagerRemains`, `ManagersWereAppointed`, `UpdatesKept` |
| `records` | every kind of record, two requests, two values, three edits, two errors, one restart | `EventsTellWrites`, `NewestEventTells`, `AuditTellsHistory`, `EditsKept`, `RequestsAnswered` |

The bounds are the smallest at which each limit of the code is exceeded: an
outbox above the batch, a replay cache and a queue that overflow (two deliverable
events and a cache of one), a page of the replay that delivers nothing, more points
than a batch, a request for every conflicting pair, and a fault or restart between
any two steps. Where two orders matter (commits, answers, notifications, statements)
there are two or three actors to produce them. `edge_sync` takes its third event
only to overflow the outbox (`OverflowsFullOutbox`), and two of its writes begin to
overlap only before the fault and before anything is published, with one of the two
ending next or the process crashing (`OverlapsEarly`): that is a request and the end of a round in
either order, and the late write that is left overlaps with everything that
follows. The withheld event is published first or not at all, and only the
deliverable event of the edge follows it (`HiddenFirst`). The proofs of section 6
have none of these constraints. `live_stream` updates its
second object only without a shared bus (`SecondObject`). Symmetry is used for
requests, handlers or instances where no liveness is checked. `PROJECT.json`
gives each property a mutant of the code under which TLC finds it violated with
the same bounds.

## 5. Fairness

* `EdgeSync`: the interval timer keeps calling `syncOnce()`, and Node runs the
  continuations of a round (`WF` on `SyncStep`), completes file writes and the
  API answers what reaches it; a supervisor restarts the process. `FinishRound`
  is strongly fair: the code never makes it wait, but the model's bound on
  running writes can disable it. No fairness for faults, clients or producers.
* `DomainEventLog`: PostgreSQL completes statements, the handlers' continuations
  run, the follower keeps asking. None for publishers, errors and restarts.
* `TrackPersistence`: timers fire and statements are answered, well or badly.
  None for events, readers and restarts.
* `RecordStores`: the next statement of each request is answered, well or badly
  (`WF` on `Steps(r)`: a failure ends the request too), and a recovery ends
  (`Recovery`). None for the requests, errors and restarts themselves.

## 6. Proofs

`EdgeSyncProofs` proves, for every set of events, every limit and any number of
faults:

| Theorem | Says |
| --- | --- |
| `TypeCorrect` | `TypeOK` |
| `CacheIsComplete` | `CacheComplete` |
| `AcceptedStaysKept` | `AcceptedKept` |
| `OnlineIsFlushed` | `OnlineMeansFlushed` |
| `AcceptedOutlivesCrashes` | `AcceptedSurvives`: an accepted event is missing from the file only while an older state has replaced a later one, or after the process ended just then |
| `EdgeImplementsDelivery` | `ImplementsDelivery`: but for such renames the specification implements `OutboxDelivery` |

All hold of any number of overlapping writes, and rest on `EventAssumption` and `LimitAssumption` of `EdgeSync`. Each follows
from an inductive invariant, whose parts are where the arguments lie:

* `CacheInv`: `CacheComplete` alone is not inductive, because the cursor moves
  two steps after the cache was filled. While an acknowledgement is awaited, the
  offset to be acknowledged must already be complete in the cache.
* `KeptInv`: an entry leaves the outbox when the answers arrive, so while a flush
  is awaited each entry of the batch is still to be processed or settled; and
  what a running write will answer 202 for is in the outbox or settled.
* `DurableInv`: the same of the file. What a running write has serialised must
  hold what the file must keep, or be settled, unless the write is late
  (`SnapshotInv`). Of two running writes the later one holds what the earlier one
  does (`OrderInv`), so whichever is renamed first, the file loses something only
  when the other is renamed after it; and the memory still holds it then, unless
  the process has ended meanwhile (`MemoryInv`).
* `ParserInv`: only rejected entries become dead letters and no rejected one is
  published, so a fate, once settled, is not changed.

`FederationStoreProofs` proves of `ReplayCursor`, for any number of handlers,
offsets, store errors and restarts (from `CursorAssumption` and
`FederationStoreAssumption`):

| Theorem | Says |
| --- | --- |
| `CursorTypeCorrect` | `CursorTypeOK` |
| `CursorIsMonotone` | `CursorNeverBack`: racing requests and restarts, a store that answers |
| `FallbackIsMonotone` | `FallbackNeverBack`: a store that fails at any statement, one process, no overlap |

* `CursorStoreInv`: a request is answered by the store some time before it is served,
  so the row must also bound the answers that are still on their way.
* `FallbackInv`: the copy can only replace the row if it holds what was promised,
  and an answer on its way may lower the copy unless it is at least what was
  promised. That is so of a request that is alone (`Alone`), and a request that
  fails is the last one, which is why none is left when the store is given up.

It proves of `DeadLetters`, for any letters, handlers and operators (from
`LetterAssumption`, which has the handlers finite because a re-drive that waits is
counted, and `FederationStoreAssumption`):

| Theorem | Says |
| --- | --- |
| `LettersTypeCorrect` | `TypeOK` |
| `FirstCloserIsKept` | `FirstCloserStays` |
| `RejectionStaysKept` | `RejectionIsKept` |
| `RetriesArePublished` | `RetriesWerePublished` |
| `RetriesStayCounted` | `RetriesNeverLost` |

* `QueueInv`: a letter that is being rejected is nobody else's, the letter of any
  other request is in the queue, and its event is in the log before its update.
* `LogInv`: the retries counted, with the re-drives that have published and not
  yet counted, are at most the publications (`Counted`); publications without an
  id are numbered (`Numbered`), so that a new one is another one.
* `SeenInv`: without overlap at most one request is in progress, none once the
  store was given up, and a copy is behind the table by at most the update whose
  answer is under way (`CopiesFollow`).

`DomainEventLogProofs`, for any events, handlers, limit of a replay, faults and
restarts (from `LogAssumption`):

| Theorem | Says |
| --- | --- |
| `LogTypeCorrect` | `TypeOK` |
| `AnswersAreStored`, `PublishIsIdempotent` | `AnsweredIsStored`, `IdempotentInStore`: overlapping inserts included |
| `NothingIsSkipped` | `NothingSkippedInOrder` |
| `LogImplementsFeed` | `ImplementsFeed`: every step of the log is one of `EventFeed`, or a stutter |

* `StoreInv`: one row or one holder per id (`KeyIsUnique`), offsets below the
  sequence (`Bounded`), and an answer on its way that is true of the rows
  (`ResultsTrue`); the conflict of an insert is a row by then.
* `OrderInv`: while inserts come one after the other, the only insert at the
  database (`Alone`) has an offset above every row (`Ahead`), so nothing commits
  behind a cursor. The rows are finite, hence the highest offset scanned exists.

`LiveTrackProofs` proves of `Ingest`, for any ids, contents, keys and requests (from
`IngestAssumption`):

| Theorem | Says |
| --- | --- |
| `IngestTypeCorrect` | `IngestTypeOK` |
| `OneEventPerKey`, `RetriesGetTheFirst` | `KeyNamesOneEvent`, `RetryGetsFirstResult` |
| `ProviderEventsOnce` | `PolledOnce` |

* `KeyInv`: under a key that was not raced, an accepted request that awaits its
  publication is the only one and finds no entry in the table (`Unanswered`), and
  every answer is the remembered one (`Remembered`).
* `PollInv`: an id that a poll accepted is among the accepted events.

It proves of `LiveStream`, for any clients, instances, objects and numbers of
messages, errors and pool connections (from `StreamAssumption`):

| Theorem | Says |
| --- | --- |
| `StreamTypeCorrect` | `TypeOK`: every message has the fields of its kind |
| `NoMessageTwice` | `NoEcho`: either bus, notifications answered in any order, failing bus included |
| `UpdatesReachClients` | `UpdatesReach` |
| `ClientsShowCurrent` | `ShowsCurrent` |

* `EchoInv`: a message may be on its way in three forms, and a property of what
  was sent says nothing of two of them. A publication that still awaits the
  database was sent nowhere and relayed nowhere (`PublishingUnsent`,
  `StoringUnrelayed`); once it is stored only its own instance will send it
  locally; a relay of a foreign message was not sent to the connections of that
  instance (`RelaysUnsent`). Numbers are at most the instance's (`Numbered`), so a
  new delta is another one.
* `ReachInv`: an instance drops the notification of its own delta, so such a delta
  must have been handed to its connections, or be about to (`OwnKnown`); and as
  long as there is no error every instance listens (`AllListening`), hence a
  stored row is notified to all.
* `ShownInv`: what a client shows is chosen among the messages sent, so for each
  object one of them must be the last to tell of it, and tell of it as the
  instance holds it (`Tells`); the snapshot is the first message and the only one
  of its kind.

`TrackPersistenceProofs`, for any objects, times and limits (from
`PersistenceAssumption`):

| Theorem | Says |
| --- | --- |
| `PersistenceTypeCorrect` | `TypeOK` |
| `LossesAreCounted` | `LossIsCounted` |
| `ReadsAreComplete` | `ReadsComplete` |
| `CurrentArrives` | `CurrentOnItsWay` |

* `QueueInv`: no statement is outstanding outside a flush, and the queue is in
  the order of acceptance without repetition, so that taking a batch or dropping
  the oldest point moves exactly those points.
* `LossInv`: a queued point is neither stored nor being written, so a drop adds
  one to what is missing.
* `ReadInv`: when the flush of a history request ends, nothing that the request
  knows of is queued or being written; what is queued later is not among it. Of
  what is nowhere any more `LossInv` says that it was counted.
* `CurrentInv`: the state in memory is the latest (`Latest`), nothing on the way
  is newer (`NoneNewer`), and a queued state supersedes the one being written.

`MobilePairingProofs`, for any devices, users, codes and requests (from
`PairingAssumption`): `PairingTypeCorrect`, `PairingOfClaimedDevice`
(`CodePairsClaimedDevice`), `PairingOnce` (`PairedOnce`), `PairingFinal`
(`FinalStays`) and `MeshAcceptedOnce` (`AcceptedOnce`). `PairingInv` says what a
request carries from one statement to the next (`RequestsKnow`): one that is
about to store a device has seen its code confirmed for that device. That a code
is paired once needs that before its device is stored nobody has, and that
afterwards no session of it can be confirmed again (`Uncontested`); that it is
paired at all, that a request is still about to (`ConfirmedOnItsWay`). Bundles
are counted per store, because each error brings an empty one (`AcceptedByStore`).

`GroupMembershipProofs`, for any users, requests and values (from
`GroupAssumption`): `GroupTypeCorrect`, `GroupManagersAppointed`
(`ManagersWereAppointed`), `GroupManagerRemains` (`ManagerRemains`) and
`GroupUpdatesKept` (`UpdatesKept`). The invariants tie what a request has decided
to the rows for as long as its read is fresh: somebody else manages the group it
takes a manager from (`Decided`), and what it writes is the latest metadata with
its patch (`Current`). A role survives while a join awaits approval, so such a
member must have been appointed too (`Appointed`).

`RecordStoresProofs`, for any requests and values, and any number of edits, errors
and restarts (from `StoredAssumption`):

| Theorem | Says |
| --- | --- |
| `RecordsTypeCorrect` | `TypeOK`: a request has the fields of its kind of record and of its step |
| `RecordEditsKept` | `EditsKept` |
| `SketchAuditTells` | `AuditTellsHistory` |
| `RecordEventsTell` | `EventsTellWrites`, in whatever order events are published |
| `RecordNewestTells` | `NewestEventTells` |

* `KeptInv`: what a request is about to write is the stored record with its patch,
  as long as its read is fresh (`FreshWrites`). It can only be claimed while no
  settings went through the fallback store, for a recovery brings back the table.
* `AuditInv`: the property counts entries and pending requests of one revision
  number; the invariant says in addition that no number is above the sketch's, so
  that a raised revision has neither, and that a pending deletion is of the last.
  Every step of the module leaves the audit alone, raises the revision or inserts
  an entry (`AuditsSame`, `Raises`, `Audited`), and the proof is one lemma for each.
* `EventInv`: the invariant takes the events still to be published for published
  (`Events`), so that publishing changes nothing: no two are of one write
  (`OnePerWrite`), each shows what its write left, and as long as no request was
  cut off a write that changed something has one. A task adds what its route
  compares: a fresh read has seen the stored status (`SeenFresh`). That the newest
  event shows the stored record follows when the order of publication is that of
  the writes: the last event is then of the last write that has one.

Every invariant, every action property and both refinements that a passing run
checks is thus a theorem. Only model-checked is liveness, which is out of the
prover's reach because it needs fairness: `OutboxDrains`, `EventsReachEdge`,
`EventuallyReceived`, `QueueDrains` and `RequestsAnswered`. The two runs that
expect a violation are traces, and have nothing to prove.

## 7. Abstractions, and what is not modelled

* Edge node: two temporary files named in the same millisecond, an unreadable
  state file (which starts fresh), the node record a heartbeat updates and the
  content of entries are left out. Repeated entries of one event are one. Which
  old dead letters are cut is left open. The API's log is a sequence, that is,
  the `EventFeed` that `DomainEventLog` is when inserts do not overlap.
* Domain event log: query filters and the edge's own copy. A restart takes the
  process's handlers with it; what the database has begun may still commit.
* Cursors, dead letters: one node, letters of fixed identity. In `DeadLetters`
  the publication is one step, as `DomainEventLog` has its parts.
* Live stream: expiry, policy filters, heartbeats, backpressure, restarts of an
  instance, and the reconnection of a listener whose connection failed, of which
  the code has none. A connection is a client; a client that applies messages in
  batches is the same as one that applies them in order. On the memory bus
  without a history store, connecting is one step: no other request runs in
  between.
* Track persistence: `onClose` (only tests call it), the cap on points per object
  in memory, objects without a position. Event ids are distinct.
* Ingest: the refusals before the key is looked up, and restarts. A hash tells
  any two contents apart.
* Mobile pairing: registration tickets, deletion of old acknowledgements, offline
  snapshots. A code is never drawn twice; a device registers for one owner.
* Groups: one group, since groups share only the store; owners and admins are
  both managers; the alias loop of the member routes is one lookup. While the
  store is degraded a group of the tables is not found, and the groups of the
  memory are not followed.
* Records: one record, which exists at the start unless it is a profile; lists,
  creation, attachments, demo scenarios and their deletion are left out, and what
  the fallback memory holds is followed for profiles only.

Without a module, as `PROJECT.json` lists under `components`:

* *AI index and chat refresh.* Both are single flights in which a refresh joins
  the one in progress, and the hazard is real: what is joined may have read
  before the change. But the code promises no more than an age (an interval, and
  a check of `refreshedAt`), and the only property that tells a joined refresh
  from a new one, freshness after the change, is false by the design. The single
  flight that does carry a promise, the recovery of the profile store, is
  modelled.
* *Chat client, messaging, web client and service worker.* Their state is spread
  over components whose updates React schedules, and over Matrix and browser
  APIs that are not in the repository; what of it is a protocol (release
  switch, offline cache, session refresh) is step 12 of the plan.
* *Federation node registry.* One upsert per heartbeat and per start, which the
  edge node model takes as done.
* *Data sources, MCP gateway, alerts, fusion, safety notifications, media, policy,
  types and rendering* keep no state that outlives a request, or hold no promise
  that concurrency or failure could break.

These parts are also most of the repository's lines: the clients, the data
sources and the request parsing of `server.ts`. What is modelled is the part
that holds state which several requests, processes or nodes change.

## 8. Where the code departs from its documents

Two runs show a disagreement with the repository's own documents:

* `edge_stale_write`: `persist()` calls are not serialised, so an older state can
  replace a newer one whose client has its 202 (runbook 13 calls the file
  atomically written). Nothing else loses one: `AcceptedOutlivesCrashes`.
* `log_gap`: offsets are taken before the insert commits, so a follower's cursor
  can pass an event that commits later (contract 14 asks for replay without
  loss). Inserts one at a time are enough: `NothingIsSkipped`.

More formulas state what a document says and the code does not do. No run checks
them; each is in its module with a comment that says so, and added to the named
configuration it yields a trace.

| Formula | Module, configuration | What happens |
| --- | --- | --- |
| `AckAfterDurable` | `EdgeSync`, `EdgeSync.cfg` | the cursor is acknowledged before the file is written |
| `SameOffset` | `DomainEventLog`, `Log.cfg` | after a store error an event gets another offset from memory |
| `AttemptsAreCounted` | `DeadLetters`, `Letters.cfg` | a restart between publication and update leaves a re-drive uncounted |
| `DeltasFollowSnapshot`, `ClientCount`, `SequenceGrows`, `ReadyMeansListening` | `LiveStream`, `Stream.cfg` | deltas before the snapshot; a closed connection stays subscribed; numbers go down; the bus reports ready and hears nothing |
| `ReadsAccepted`, `HistorySurvives`, `TableIsLastKnown` | `TrackPersistence`, `Track.cfg` | a reader during a flush misses points; queued points are lost by a restart; events out of order leave table and memory apart |
| `IdAcceptedOnce` | `Ingest`, `Ingest.cfg` | an event id is accepted again under another key or in a batch |

Other properties hold only with a condition, and what the condition leaves out is
a weakness of the code. Dropping the condition gives the trace.

| Property | Condition | Without it |
| --- | --- | --- |
| `OutboxDrains` | not `Stuck` | an outbox above the batch limit is refused as a whole in every round, for good |
| `AcceptedSurvives` | not `stale`, not `lost` | an older state replaces an accepted event, and the process may end before the next write (`edge_stale_write`) |
| `ReadsComplete` | not `joined` | a history request that comes during a flush does not wait for it and misses points |
| `ManagerRemains` | not `raced` | two managers who leave at once leave the group without one |
| `UpdatesKept`, `EditsKept` | not `overwrote`, `overtaken` | two updates that read the same record lose one of the two |
| `EditsKept` | not `missed` | the defaults, read while the profile store was degraded, are written over the stored profile |
| `PairedOnce` | not `contested` | the second of two confirmations stores the device again, a revoked one included |
| `PairedOnce` | not `cut` | a confirmation cut off after its first statement leaves a confirmed code and no device, and its retry is refused |
| `EventsTellWrites`, `NewestEventTells`, `AuditTellsHistory` | not `cut` | a restart between a write and its event or audit entry, or a lost answer of the write, loses the latter |
| `EventsTellWrites`, `NewestEventTells` | not `overtaken`, of tasks | an overtaken update changes the status back without an event, or publishes one for no change |
| `NewestEventTells` | events published in the order of the writes | two overlapping updates publish in the other order, and the newest event shows an incident that was replaced |
| `KeyNamesOneEvent`, `RetryGetsFirstResult` | not `raced` | requests that race under one key are both accepted |
