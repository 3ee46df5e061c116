--------------------------- MODULE DomainEventLog ---------------------------
(***************************************************************************)
(* The central domain event log of the COP API.  Request handlers insert    *)
(* events into a PostgreSQL table whose offset comes from a sequence, and   *)
(* keep a copy in the memory of the process; after the first store error    *)
(* the process works on that memory until it is restarted.  A follower      *)
(* reads on from the last offset it was given.                              *)
(***************************************************************************)
EXTENDS Naturals, Sequences, FiniteSets

CONSTANTS
  Events,     \* event ids
  Handlers,   \* publish requests that may be in progress at once
  ReadLimit,  \* events one replay request scans (100)
  MaxOffset,  \* bound on the sequence
  MaxFaults,  \* bound on store errors
  MaxRestarts \* bound on restarts of the API

ASSUME LogAssumption ==
  /\ ReadLimit \in Nat \ {0}
  /\ MaxOffset \in Nat
  /\ MaxFaults \in Nat
  /\ MaxRestarts \in Nat

VARIABLES
  rows,     \* committed rows of cop_domain_events
  seq,      \* last value of the bigserial sequence
  tx,       \* the insert of each handler at the database
  pc,       \* what each handler awaits
  status,   \* federationRuntimeStoreStatus
  memory,   \* state.domainEvents of the process
  answers,  \* 202 answers given so far
  cursor,   \* last offset the follower was given
  received, \* events the follower has received
  overlapped, \* two inserts were at the database at once
  fellBack, \* some process has left the store
  faults, restarts

database == <<rows, seq, tx>>
process == <<pc, status, memory, answers>>
follower == <<cursor, received>>
aux == <<overlapped, fellBack, faults, restarts>>
vars == <<database, process, follower, aux>>

Row == [event : Events, offset : Nat]
NoTx == [at |-> "none"]

Init ==
  /\ rows = {}
  /\ seq = 0
  /\ tx = [h \in Handlers |-> NoTx]
  /\ pc = [h \in Handlers |-> "idle"]
  /\ status = "ok"
  /\ memory = <<>>
  /\ answers = {}
  /\ cursor = 0
  /\ received = {}
  /\ overlapped = FALSE
  /\ fellBack = FALSE
  /\ faults = 0
  /\ restarts = 0

Stored(e) == \E r \in rows : r.event = e
InMemory(e) == \E i \in DOMAIN memory : memory[i].event = e

Answer(row, duplicate) ==
  answers' = answers \cup {[event |-> row.event, offset |-> row.offset, duplicate |-> duplicate]}

-----------------------------------------------------------------------------
(* A publish request while the store is in use: INSERT ... ON CONFLICT       *)
(* (event_id) DO NOTHING.  The sequence is advanced first, whatever follows. *)

PublishEvent(h, e) ==
  /\ status = "ok"
  /\ pc[h] = "idle"
  /\ tx[h] = NoTx
  /\ seq < MaxOffset
  /\ seq' = seq + 1
  /\ tx' = [tx EXCEPT ![h] = [at |-> "started", event |-> e, offset |-> seq + 1]]
  /\ pc' = [pc EXCEPT ![h] = "insert"]
  /\ overlapped' = (overlapped \/ \E g \in Handlers : tx[g] # NoTx)
  /\ UNCHANGED <<rows, status, memory, answers, follower, fellBack, faults, restarts>>

\* A finished statement reports to its handler, unless that has gone.
Finished(h, at) == IF pc[h] = "insert" THEN [tx[h] EXCEPT !.at = at] ELSE NoTx

Holds(h, e) == tx[h].at = "holding" /\ tx[h].event = e

\* Mutant: no unique key.
ClaimAlways(h) ==
  /\ tx[h].at = "started"
  /\ tx' = [tx EXCEPT ![h].at = "holding"]
  /\ UNCHANGED <<rows, seq, process, follower, aux>>

\* The unique key: the insert waits for another one of the same id, then
\* either finds a committed row or holds the key itself.
Claim(h) ==
  /\ tx[h].at = "started"
  /\ \A g \in Handlers : ~Holds(g, tx[h].event)
  /\ tx' = [tx EXCEPT ![h] = IF Stored(@.event) THEN Finished(h, "conflict")
                             ELSE [@ EXCEPT !.at = "holding"]]
  /\ UNCHANGED <<rows, seq, process, follower, aux>>

Commit(h) ==
  /\ tx[h].at = "holding"
  /\ rows' = rows \cup {[event |-> tx[h].event, offset |-> tx[h].offset]}
  /\ tx' = [tx EXCEPT ![h] = Finished(h, "inserted")]
  /\ UNCHANGED <<seq, process, follower, aux>>

\* The database gives up an insert whose connection is gone.
Rollback(h) ==
  /\ tx[h].at \in {"started", "holding"}
  /\ pc[h] = "idle"
  /\ tx' = [tx EXCEPT ![h] = NoTx]
  /\ UNCHANGED <<rows, seq, process, follower, aux>>

Remember(row) ==
  memory' = IF InMemory(row.event) THEN memory ELSE Append(memory, row)

\* Mutant: the answer carries the latest value of the sequence.
InsertedLatest(h) ==
  /\ pc[h] = "insert"
  /\ tx[h].at = "inserted"
  /\ LET row == [event |-> tx[h].event, offset |-> seq]
     IN Remember(row) /\ Answer(row, FALSE)
  /\ pc' = [pc EXCEPT ![h] = "idle"]
  /\ tx' = [tx EXCEPT ![h] = NoTx]
  /\ UNCHANGED <<rows, seq, status, follower, aux>>

Inserted(h) ==
  /\ pc[h] = "insert"
  /\ tx[h].at = "inserted"
  /\ LET row == [event |-> tx[h].event, offset |-> tx[h].offset]
     IN Remember(row) /\ Answer(row, FALSE)
  /\ pc' = [pc EXCEPT ![h] = "idle"]
  /\ tx' = [tx EXCEPT ![h] = NoTx]
  /\ UNCHANGED <<rows, seq, status, follower, aux>>

\* No row came back: the handler selects the row that was there before.
Conflict(h) ==
  /\ pc[h] = "insert"
  /\ tx[h].at = "conflict"
  /\ pc' = [pc EXCEPT ![h] = "lookup"]
  /\ UNCHANGED <<database, status, memory, answers, follower, aux>>

\* Mutant: the duplicate is answered with the offset its own insert burned.
LookupBurned(h) ==
  /\ pc[h] = "lookup"
  /\ LET row == [event |-> tx[h].event, offset |-> tx[h].offset]
     IN Remember(row) /\ Answer(row, TRUE)
  /\ pc' = [pc EXCEPT ![h] = "idle"]
  /\ tx' = [tx EXCEPT ![h] = NoTx]
  /\ UNCHANGED <<rows, seq, status, follower, aux>>

Lookup(h) ==
  /\ pc[h] = "lookup"
  /\ \E row \in rows :
       row.event = tx[h].event /\ Remember(row) /\ Answer(row, TRUE)
  /\ pc' = [pc EXCEPT ![h] = "idle"]
  /\ tx' = [tx EXCEPT ![h] = NoTx]
  /\ UNCHANGED <<rows, seq, status, follower, aux>>

-----------------------------------------------------------------------------
(* The memory of the process: an id it knows is a duplicate, any other gets  *)
(* the next position as its offset.                                          *)

PublishWithResult(e) ==
  IF InMemory(e)
  THEN /\ \E i \in DOMAIN memory : memory[i].event = e /\ Answer(memory[i], TRUE)
       /\ UNCHANGED memory
  ELSE LET row == [event |-> e, offset |-> Len(memory) + 1]
       IN memory' = Append(memory, row) /\ Answer(row, FALSE)

MarkDegraded ==
  /\ faults < MaxFaults
  /\ faults' = faults + 1
  /\ status' = "degraded"
  /\ fellBack' = TRUE
  /\ UNCHANGED <<overlapped, restarts>>

\* The insert or the lookup throws: the same event goes to memory.  What the
\* database still holds of the insert commits or is rolled back later.
StoreFails(h) ==
  /\ pc[h] \in {"insert", "lookup"}
  /\ MarkDegraded
  /\ PublishWithResult(tx[h].event)
  /\ pc' = [pc EXCEPT ![h] = "idle"]
  /\ tx' = [tx EXCEPT ![h] = IF @.at \in {"started", "holding"} THEN @ ELSE NoTx]
  /\ UNCHANGED <<rows, seq, follower>>

PublishDegraded(h, e) ==
  /\ status = "degraded"
  /\ pc[h] = "idle"
  /\ PublishWithResult(e)
  /\ UNCHANGED <<database, pc, status, follower, aux>>

\* The process ends and a new one starts; its first use of the store may fail.
Restart ==
  /\ restarts < MaxRestarts
  /\ restarts' = restarts + 1
  /\ memory' = <<>>
  /\ pc' = [h \in Handlers |-> "idle"]
  /\ tx' = [h \in Handlers |->
       IF tx[h].at \in {"started", "holding"} THEN tx[h] ELSE NoTx]
  /\ status' \in {"ok"} \cup (IF faults < MaxFaults THEN {"degraded"} ELSE {})
  /\ fellBack' = (fellBack \/ status' = "degraded")
  /\ faults' = IF status' = "ok" THEN faults ELSE faults + 1
  /\ UNCHANGED <<rows, seq, answers, follower, overlapped>>

-----------------------------------------------------------------------------
(* The follower: GET replay from its cursor, then the cursor moves to the    *)
(* highest offset scanned.                                                   *)

\* ORDER BY replay_offset LIMIT n.
StoreScan ==
  {r \in rows : /\ r.offset > cursor
                /\ Cardinality({s \in rows : s.offset > cursor /\ s.offset < r.offset})
                     < ReadLimit}

\* The memory is scanned in the order of publishing.
MemoryScan ==
  LET newer == {i \in DOMAIN memory : memory[i].offset > cursor}
  IN {memory[i] : i \in {j \in newer : Cardinality(newer \cap 1..(j - 1)) < ReadLimit}}

\* Mutant: the first offset scanned becomes the cursor.
ReceiveOneTooMany(scan) ==
  /\ scan # {}
  /\ received' = received \cup {r.event : r \in scan}
  /\ cursor' = (CHOOSE n \in {r.offset : r \in scan} : \A r \in scan : r.offset <= n) + 1

Receive(scan) ==
  /\ scan # {}
  /\ received' = received \cup {r.event : r \in scan}
  /\ cursor' = CHOOSE n \in {r.offset : r \in scan} : \A r \in scan : r.offset <= n

Replay ==
  /\ Receive(IF status = "ok" THEN StoreScan ELSE MemoryScan)
  /\ UNCHANGED <<database, process, aux>>

ReplayFails ==
  /\ status = "ok"
  /\ MarkDegraded
  /\ \/ Receive(MemoryScan)
     \/ MemoryScan = {} /\ UNCHANGED follower
  /\ UNCHANGED <<database, pc, memory, answers>>

-----------------------------------------------------------------------------
Handle(h) == Inserted(h) \/ Conflict(h) \/ Lookup(h)
Database(h) == Claim(h) \/ Commit(h)

Next ==
  \/ \E h \in Handlers :
       \/ \E e \in Events : PublishEvent(h, e) \/ PublishDegraded(h, e)
       \/ Handle(h) \/ Database(h) \/ Rollback(h) \/ StoreFails(h)
  \/ Restart
  \/ Replay
  \/ ReplayFails

Spec == Init /\ [][Next]_vars

(* PostgreSQL completes statements, Node runs the continuations of answered  *)
(* ones, and the follower keeps asking.                                      *)
FairSpec ==
  /\ Spec
  /\ WF_vars(Replay)
  /\ \A h \in Handlers : WF_vars(Handle(h)) /\ WF_vars(Database(h))

-----------------------------------------------------------------------------
Statements == [at : {"started", "holding", "inserted", "conflict"},
               event : Events, offset : Nat] \cup {NoTx}

\* Every variable has its type.
TypeOK ==
  /\ rows \subseteq Row
  /\ seq \in Nat
  /\ tx \in [Handlers -> Statements]
  /\ pc \in [Handlers -> {"idle", "insert", "lookup"}]
  /\ status \in {"ok", "degraded"}
  /\ memory \in Seq(Row)
  /\ answers \subseteq [event : Events, offset : Nat, duplicate : BOOLEAN]
  /\ cursor \in Nat
  /\ received \subseteq Events
  /\ overlapped \in BOOLEAN
  /\ fellBack \in BOOLEAN
  /\ faults \in Nat
  /\ restarts \in Nat

(* However many requests publish an event id at once, or again after a       *)
(* restart, all are answered with the same offset, as long as the store is   *)
(* in use.                                                                   *)
SameOffset ==
  \A a, b \in answers : a.event = b.event => a.offset = b.offset

IdempotentInStore == ~fellBack => SameOffset

(* An answered event is a committed row with the offset of the answer, so a  *)
(* restart does not lose it, as long as the store is in use.                 *)
AnsweredIsStored ==
  ~fellBack => \A a \in answers : [event |-> a.event, offset |-> a.offset] \in rows

(* A follower's cursor passes no committed event it has not received.  It    *)
(* does not hold when two inserts commit in another order than their offsets *)
(* were taken.                                                               *)
NothingSkipped == \A r \in rows : r.offset <= cursor => r.event \in received

(* Inserts came one after the other and the store was always in use.         *)
InOrder == ~overlapped /\ ~fellBack

(* As long as inserts come one after the other, duplicates and restarts      *)
(* included, a follower that keeps only its last offset misses nothing.      *)
NothingSkippedInOrder == InOrder => NothingSkipped

(* An event in the log is eventually received by a follower that keeps       *)
(* asking, as long as inserts come one after the other.                      *)
EventuallyReceived ==
  \A e \in Events : Stored(e) ~> (e \in received \/ ~InOrder)

(* As long as inserts come one after the other, the rows and the follower    *)
(* implement EventFeed: an event keeps its offset, a new offset is above all *)
(* older ones, and the follower receives all up to its new cursor.           *)
OffsetOf ==
  [e \in Events |-> IF Stored(e) THEN (CHOOSE r \in rows : r.event = e).offset ELSE 0]

Feed == INSTANCE EventFeed WITH offset <- OffsetOf

ImplementsFeed ==
  Feed!Init /\ [][InOrder' => Feed!Next \/ UNCHANGED Feed!feed]_vars
=============================================================================
