------------------------ MODULE DomainEventLogProofs ------------------------
(***************************************************************************)
(* Proofs about DomainEventLog, for any events, handlers, limit of a read,  *)
(* and any number of store errors and restarts.                             *)
(***************************************************************************)
EXTENDS DomainEventLog, FiniteSetTheorems, WellFoundedInduction, TLAPS

USE LogAssumption

-----------------------------------------------------------------------------
(* Facts about the data.                                                     *)

\* A bounded set of numbers that is not empty has a largest member.
LEMMA LargestExists ==
  ASSUME NEW S \in SUBSET Nat, S # {}, NEW b \in Nat, \A n \in S : n <= b
  PROVE  \E m \in S : \A n \in S : n <= m
<1> DEFINE T == {k \in 0..b : b - k \in S}
<1>1. ASSUME NEW n \in S PROVE b - n \in T
  <2>1. b - n \in 0..b /\ b - (b - n) = n
    OBVIOUS
  <2> QED BY <2>1
<1>2. T \subseteq Nat /\ T # {}
  <2>1. T \subseteq Nat
    OBVIOUS
  <2>2. PICK n \in S : TRUE
    OBVIOUS
  <2>3. b - n \in T
    BY <1>1
  <2> QED BY <2>1, <2>3
<1>3. \A k \in T : k \in 0..b /\ b - k \in S
  OBVIOUS
<1> HIDE DEF T
<1>4. PICK k \in T : \A y \in T : ~ (<<y, k>> \in OpToRel(<, Nat))
  BY <1>2, NatLessThanWellFounded, WFMin, Zenon
<1>5. \A y \in T : ~(y < k)
  BY <1>2, <1>4 DEF OpToRel
<1>6. \A n \in S : n <= b - k
  BY <1>1, <1>3, <1>5
<1> QED BY <1>3, <1>6

LEMMA NoTxAt == NoTx.at = "none"
BY DEF NoTx

\* An insert at the database has an event and an offset.
LEMMA StatementFields ==
  ASSUME TypeOK, NEW h \in Handlers, tx[h] # NoTx
  PROVE  /\ tx[h] \in [at : {"started", "holding", "inserted", "conflict"}, event : Events, offset : Nat]
         /\ tx[h].event \in Events /\ tx[h].offset \in Nat
         /\ tx[h].at \in {"started", "holding", "inserted", "conflict"}
BY DEF TypeOK, Statements

\* What is left of an insert when its statement has finished.
LEMMA FinishedFields ==
  ASSUME TypeOK, NEW h \in Handlers, tx[h] # NoTx, NEW at \in {"inserted", "conflict"}
  PROVE  /\ Finished(h, at) \in Statements
         /\ pc[h] # "insert" => Finished(h, at) = NoTx
         /\ pc[h] = "insert" => /\ Finished(h, at) # NoTx
                                /\ Finished(h, at).at = at
                                /\ Finished(h, at).event = tx[h].event
                                /\ Finished(h, at).offset = tx[h].offset
<1> DEFINE x == [tx[h] EXCEPT !.at = at]
<1>1. x \in [at : {"started", "holding", "inserted", "conflict"}, event : Events, offset : Nat]
      /\ x.at = at /\ x.event = tx[h].event /\ x.offset = tx[h].offset
  BY StatementFields
<1>2. x # NoTx
  BY <1>1, NoTxAt
<1> HIDE DEF x
<1>3. Finished(h, at) = IF pc[h] = "insert" THEN x ELSE NoTx
  BY DEF Finished, x
<1> QED BY <1>1, <1>2, <1>3 DEF Statements

\* An insert that has got the key.
LEMMA HoldingFields ==
  ASSUME TypeOK, NEW h \in Handlers, tx[h] # NoTx
  PROVE  LET x == [tx[h] EXCEPT !.at = "holding"] IN
         /\ x \in Statements /\ x # NoTx /\ x.at = "holding"
         /\ x.event = tx[h].event /\ x.offset = tx[h].offset
<1> DEFINE x == [tx[h] EXCEPT !.at = "holding"]
<1>1. x \in [at : {"started", "holding", "inserted", "conflict"}, event : Events, offset : Nat]
      /\ x.at = "holding" /\ x.event = tx[h].event /\ x.offset = tx[h].offset
  BY StatementFields
<1>2. x # NoTx
  BY <1>1, NoTxAt
<1> QED BY <1>1, <1>2 DEF Statements

-----------------------------------------------------------------------------
(* What a handler awaits, and the bounds of the offsets.                      *)

Awaiting ==
  \A h \in Handlers :
    /\ pc[h] = "insert" => tx[h] # NoTx
    /\ pc[h] = "lookup" => tx[h].at = "conflict"
    /\ pc[h] = "idle" => tx[h] = NoTx \/ tx[h].at \in {"started", "holding"}

Bounded ==
  /\ \A r \in rows : r.offset \in 1..seq
  /\ \A h \in Handlers : tx[h] # NoTx => tx[h].offset \in 1..seq
  /\ \A i \in DOMAIN memory : memory[i].offset <= seq + Len(memory)

LEMMA TypeInit == Init => TypeOK
<1> SUFFICES ASSUME Init PROVE TypeOK
  OBVIOUS
<1>1. memory \in Seq(Row)
  BY DEF Init
<1> QED BY <1>1 DEF Init, TypeOK, Statements

\* A row that the memory takes, and the answer that tells of it.
LEMMA RememberType ==
  ASSUME TypeOK, NEW row \in Row, Remember(row)
  PROVE  memory' \in Seq(Row)
BY DEF TypeOK, Remember

LEMMA AnswerType ==
  ASSUME TypeOK, NEW row \in Row, NEW duplicate \in BOOLEAN, Answer(row, duplicate)
  PROVE  answers' \subseteq [event : Events, offset : Nat, duplicate : BOOLEAN]
BY DEF TypeOK, Answer, Row

LEMMA PublishType ==
  ASSUME TypeOK, NEW e \in Events, PublishWithResult(e)
  PROVE  memory' \in Seq(Row) /\ answers' \subseteq [event : Events, offset : Nat, duplicate : BOOLEAN]
<1>1. CASE InMemory(e)
  <2>1. PICK i \in DOMAIN memory : memory[i].event = e /\ Answer(memory[i], TRUE)
    BY <1>1 DEF PublishWithResult
  <2>2. memory[i] \in Row /\ memory' = memory
    BY <1>1, <2>1 DEF TypeOK, PublishWithResult
  <2> QED BY <2>1, <2>2, AnswerType DEF TypeOK
<1>2. CASE ~InMemory(e)
  <2> DEFINE row == [event |-> e, offset |-> Len(memory) + 1]
  <2>1. row \in Row
    BY DEF TypeOK, Row
  <2>2. memory' = Append(memory, row) /\ Answer(row, FALSE)
    BY <1>2 DEF PublishWithResult
  <2> HIDE DEF row
  <2>3. memory' \in Seq(Row)
    BY <2>1, <2>2 DEF TypeOK
  <2>4. answers' \subseteq [event : Events, offset : Nat, duplicate : BOOLEAN]
    BY <2>1, <2>2, AnswerType
  <2> QED BY <2>3, <2>4
<1> QED BY <1>1, <1>2

\* The cursor goes to the largest offset scanned.
LEMMA ReceiveLargest ==
  ASSUME NEW scan, NEW b \in Nat, \A r \in scan : r.offset \in Nat /\ r.offset <= b, Receive(scan)
  PROVE  \E m \in scan : cursor' = m.offset /\ \A r \in scan : r.offset <= m.offset
<1> DEFINE S == {r.offset : r \in scan}
<1>1. S \in SUBSET Nat /\ S # {} /\ \A n \in S : n <= b
  BY DEF Receive
<1>2. \E m \in S : \A n \in S : n <= m
  BY <1>1, LargestExists, Zenon
<1>3. cursor' = CHOOSE n \in S : \A r \in scan : r.offset <= n
  BY DEF Receive
<1>4. \E n \in S : \A r \in scan : r.offset <= n
  BY <1>2
<1>5. cursor' \in S /\ \A r \in scan : r.offset <= cursor'
  BY <1>3, <1>4
<1> QED BY <1>5

\* What a read scans, and where it takes the cursor.
LEMMA ReadFields ==
  ASSUME TypeOK, Bounded, NEW scan, scan \in {StoreScan, MemoryScan}, Receive(scan)
  PROVE  /\ cursor' \in Nat /\ received' \subseteq Events
         /\ \E m \in scan : cursor' = m.offset /\ \A r \in scan : r.offset <= m.offset
<1>1. \A r \in scan : r \in Row /\ r.offset <= seq + Len(memory)
  <2>1. ASSUME NEW r \in StoreScan PROVE r \in Row /\ r.offset <= seq + Len(memory)
    BY <2>1 DEF StoreScan, TypeOK, Bounded, Row
  <2>2. ASSUME NEW r \in MemoryScan PROVE r \in Row /\ r.offset <= seq + Len(memory)
    <3>1. PICK i \in DOMAIN memory : r = memory[i]
      BY <2>2 DEF MemoryScan
    <3> QED BY <3>1 DEF TypeOK, Bounded
  <2> QED BY <2>1, <2>2
<1>2. \A r \in scan : r.event \in Events /\ r.offset \in Nat
  BY <1>1 DEF Row
<1>3. seq + Len(memory) \in Nat
  BY DEF TypeOK
<1>4. PICK m \in scan : cursor' = m.offset /\ \A r \in scan : r.offset <= m.offset
  BY <1>1, <1>2, <1>3, ReceiveLargest
<1>5. received' \subseteq Events
  BY <1>2 DEF Receive, TypeOK
<1> QED BY <1>2, <1>4, <1>5

LEMMA TypeStep == TypeOK /\ Awaiting /\ Bounded /\ [Next]_vars => TypeOK'
<1> SUFFICES ASSUME TypeOK, Awaiting, Bounded, [Next]_vars PROVE TypeOK'
  OBVIOUS
<1> USE DEF database, process, follower, aux
<1>0. NoTx \in Statements
  BY DEF Statements
<1>1. ASSUME NEW h \in Handlers, NEW e \in Events, PublishEvent(h, e) PROVE TypeOK'
  <2>1. [at |-> "started", event |-> e, offset |-> seq + 1] \in Statements
    BY DEF TypeOK, Statements
  <2>2. tx' \in [Handlers -> Statements] /\ pc' \in [Handlers -> {"idle", "insert", "lookup"}]
    BY <1>1, <2>1 DEF PublishEvent, TypeOK
  <2>3. overlapped' \in BOOLEAN
    BY <1>1 DEF PublishEvent, TypeOK
  <2> QED BY <1>1, <2>2, <2>3 DEF PublishEvent, TypeOK
<1>2. ASSUME NEW h \in Handlers, NEW e \in Events, PublishDegraded(h, e) PROVE TypeOK'
  BY <1>2, PublishType DEF PublishDegraded, TypeOK
<1>3. ASSUME NEW h \in Handlers, Inserted(h) \/ Lookup(h) PROVE TypeOK'
  <2>1. PICK row \in Row, duplicate \in BOOLEAN : Remember(row) /\ Answer(row, duplicate)
    <3>1. CASE Inserted(h)
      <4>1. tx[h].event \in Events /\ tx[h].offset \in Nat
        BY <3>1, NoTxAt, StatementFields DEF Inserted
      <4>2. [event |-> tx[h].event, offset |-> tx[h].offset] \in Row
        BY <4>1 DEF Row
      <4> QED BY <3>1, <4>2 DEF Inserted
    <3>2. CASE Lookup(h)
      BY <3>2 DEF Lookup, TypeOK
    <3> QED BY <1>3, <3>1, <3>2
  <2>2. memory' \in Seq(Row) /\ answers' \subseteq [event : Events, offset : Nat, duplicate : BOOLEAN]
    BY <2>1, RememberType, AnswerType
  <2>3. UNCHANGED <<rows, seq, status, follower, aux>>
    BY <1>3 DEF Inserted, Lookup
  <2>4. pc' = [pc EXCEPT ![h] = "idle"] /\ tx' = [tx EXCEPT ![h] = NoTx]
    BY <1>3 DEF Inserted, Lookup
  <2>5. pc' \in [Handlers -> {"idle", "insert", "lookup"}] /\ tx' \in [Handlers -> Statements]
    BY <1>0, <2>4 DEF TypeOK
  <2> QED BY <2>2, <2>3, <2>5 DEF TypeOK
<1>4. ASSUME NEW h \in Handlers, Conflict(h) PROVE TypeOK'
  BY <1>4 DEF Conflict, TypeOK
<1>5. ASSUME NEW h \in Handlers, NEW x \in Statements, tx' = [tx EXCEPT ![h] = x],
             UNCHANGED <<seq, process, follower, aux>>, rows' \subseteq Row
      PROVE  TypeOK'
  BY <1>5 DEF TypeOK
<1>6. ASSUME NEW h \in Handlers, Claim(h) PROVE TypeOK'
  <2>1. tx[h] # NoTx
    BY <1>6, NoTxAt DEF Claim
  <2>2. (IF Stored(tx[h].event) THEN Finished(h, "conflict") ELSE [tx[h] EXCEPT !.at = "holding"]) \in Statements
    BY <2>1, FinishedFields, HoldingFields
  <2> QED BY <1>5, <1>6, <2>2 DEF Claim, TypeOK
<1>7. ASSUME NEW h \in Handlers, Commit(h) PROVE TypeOK'
  <2>1. tx[h] # NoTx
    BY <1>7, NoTxAt DEF Commit
  <2>2. Finished(h, "inserted") \in Statements
    BY <2>1, FinishedFields
  <2>3. rows' \subseteq Row
    BY <1>7, <2>1, StatementFields DEF Commit, TypeOK, Row
  <2> QED BY <1>5, <1>7, <2>2, <2>3 DEF Commit
<1>8. ASSUME NEW h \in Handlers, Rollback(h) PROVE TypeOK'
  BY <1>0, <1>5, <1>8 DEF Rollback, TypeOK
<1>9. ASSUME NEW h \in Handlers, StoreFails(h) PROVE TypeOK'
  <2>1. tx[h] # NoTx
    BY <1>9, NoTxAt DEF StoreFails, Awaiting
  <2>2. tx[h].event \in Events
    BY <2>1, StatementFields
  <2>3. memory' \in Seq(Row) /\ answers' \subseteq [event : Events, offset : Nat, duplicate : BOOLEAN]
    BY <1>9, <2>2, PublishType DEF StoreFails
  <2>4. tx' \in [Handlers -> Statements] /\ pc' \in [Handlers -> {"idle", "insert", "lookup"}]
    BY <1>0, <1>9 DEF StoreFails, TypeOK
  <2> QED BY <1>9, <2>3, <2>4 DEF StoreFails, MarkDegraded, TypeOK
<1>10. ASSUME Restart PROVE TypeOK'
  <2>1. tx' \in [Handlers -> Statements] /\ pc' \in [Handlers -> {"idle", "insert", "lookup"}]
    BY <1>0, <1>10 DEF Restart, TypeOK
  <2>2. memory' \in Seq(Row)
    BY <1>10 DEF Restart
  <2>3. status' \in {"ok", "degraded"} /\ fellBack' \in BOOLEAN /\ faults' \in Nat /\ restarts' \in Nat
    BY <1>10 DEF Restart, TypeOK
  <2> QED BY <1>10, <2>1, <2>2, <2>3 DEF Restart, TypeOK
<1>11. ASSUME Replay PROVE TypeOK'
  <2>1. cursor' \in Nat /\ received' \subseteq Events
    BY <1>11, ReadFields DEF Replay
  <2> QED BY <1>11, <2>1 DEF Replay, TypeOK
<1>12. ASSUME ReplayFails PROVE TypeOK'
  <2>1. cursor' \in Nat /\ received' \subseteq Events
    BY <1>12, ReadFields DEF ReplayFails, TypeOK
  <2> QED BY <1>12, <2>1 DEF ReplayFails, MarkDegraded, TypeOK
<1>13. CASE UNCHANGED vars
  BY <1>13 DEF vars, TypeOK
<1> QED
  BY <1>1, <1>2, <1>3, <1>4, <1>6, <1>7, <1>8, <1>9, <1>10, <1>11, <1>12, <1>13 DEF Next, Handle, Database

-----------------------------------------------------------------------------
LEMMA AwaitingStep == TypeOK /\ Awaiting /\ [Next]_vars => Awaiting'
<1> SUFFICES ASSUME TypeOK, Awaiting, [Next]_vars PROVE Awaiting'
  OBVIOUS
<1> USE NoTxAt DEF database, process
<1>0. tx \in [Handlers -> Statements] /\ pc \in [Handlers -> {"idle", "insert", "lookup"}]
  BY DEF TypeOK
\* A step of one handler or of its insert.
<1>1. ASSUME NEW h \in Handlers, NEW x, NEW at, tx' = [tx EXCEPT ![h] = x], pc' = [pc EXCEPT ![h] = at],
             at = "insert" => x # NoTx, at = "lookup" => x.at = "conflict",
             at = "idle" => x = NoTx \/ x.at \in {"started", "holding"}
      PROVE  Awaiting'
  BY <1>0, <1>1 DEF Awaiting
<1>2. ASSUME NEW h \in Handlers, NEW e \in Events, PublishEvent(h, e) PROVE Awaiting'
  <2> DEFINE x == [at |-> "started", event |-> e, offset |-> seq + 1]
  <2>1. x # NoTx
    BY DEF x
  <2>2. tx' = [tx EXCEPT ![h] = x] /\ pc' = [pc EXCEPT ![h] = "insert"]
    BY <1>2 DEF PublishEvent
  <2> HIDE DEF x
  <2> QED BY <1>1, <2>1, <2>2
<1>3. ASSUME NEW h \in Handlers, Claim(h) PROVE Awaiting'
  <2> DEFINE x == IF Stored(tx[h].event) THEN Finished(h, "conflict") ELSE [tx[h] EXCEPT !.at = "holding"]
  <2>1. tx[h] # NoTx /\ tx[h].at = "started"
    BY <1>3 DEF Claim
  <2>2. x = NoTx \/ x.at \in {"holding", "conflict"}
    BY <2>1, FinishedFields, HoldingFields
  <2>3. (pc[h] = "insert" => x # NoTx) /\ (pc[h] = "idle" => x = NoTx \/ x.at \in {"started", "holding"})
    BY <2>1, FinishedFields, HoldingFields
  <2>4. pc[h] # "lookup"
    BY <2>1 DEF Awaiting
  <2>5. tx' = [tx EXCEPT ![h] = x] /\ pc' = [pc EXCEPT ![h] = pc[h]]
    BY <1>0, <1>3 DEF Claim
  <2> HIDE DEF x
  <2> QED BY <1>1, <2>3, <2>4, <2>5
<1>4. ASSUME NEW h \in Handlers, Commit(h) PROVE Awaiting'
  <2>1. tx[h] # NoTx /\ tx[h].at = "holding"
    BY <1>4 DEF Commit
  <2>2. pc[h] # "lookup"
    BY <2>1 DEF Awaiting
  <2>3. tx' = [tx EXCEPT ![h] = Finished(h, "inserted")] /\ pc' = [pc EXCEPT ![h] = pc[h]]
    BY <1>0, <1>4 DEF Commit
  <2> QED BY <1>1, <2>1, <2>2, <2>3, FinishedFields
<1>5. ASSUME NEW h \in Handlers, Rollback(h) PROVE Awaiting'
  <2>1. tx' = [tx EXCEPT ![h] = NoTx] /\ pc' = [pc EXCEPT ![h] = "idle"]
    BY <1>0, <1>5 DEF Rollback
  <2> QED BY <1>1, <2>1
<1>6. ASSUME NEW h \in Handlers, Inserted(h) \/ Lookup(h) PROVE Awaiting'
  BY <1>1, <1>6 DEF Inserted, Lookup
<1>7. ASSUME NEW h \in Handlers, Conflict(h) PROVE Awaiting'
  <2>1. tx' = [tx EXCEPT ![h] = tx[h]] /\ pc' = [pc EXCEPT ![h] = "lookup"] /\ tx[h].at = "conflict"
    BY <1>0, <1>7 DEF Conflict
  <2> QED BY <1>1, <2>1
<1>8. ASSUME NEW h \in Handlers, StoreFails(h) PROVE Awaiting'
  <2> DEFINE x == IF tx[h].at \in {"started", "holding"} THEN tx[h] ELSE NoTx
  <2>1. tx' = [tx EXCEPT ![h] = x] /\ pc' = [pc EXCEPT ![h] = "idle"]
    BY <1>0, <1>8 DEF StoreFails
  <2>2. x = NoTx \/ x.at \in {"started", "holding"}
    OBVIOUS
  <2> HIDE DEF x
  <2> QED BY <1>1, <2>1, <2>2
<1>9. ASSUME Restart PROVE Awaiting'
  BY <1>0, <1>9 DEF Restart, Awaiting
<1>10. ASSUME UNCHANGED <<tx, pc>> PROVE Awaiting'
  BY <1>10 DEF Awaiting
<1>11. CASE Replay \/ ReplayFails \/ UNCHANGED vars \/ \E h \in Handlers, e \in Events : PublishDegraded(h, e)
  BY <1>10, <1>11 DEF Replay, ReplayFails, vars, PublishDegraded
<1> QED
  BY <1>2, <1>3, <1>4, <1>5, <1>6, <1>7, <1>8, <1>9, <1>11 DEF Next, Handle, Database

LEMMA MemoryBounded ==
  ASSUME TypeOK, Bounded, NEW row \in Row, row.offset <= seq + Len(memory) + 1, seq' = seq,
         memory' = memory \/ memory' = Append(memory, row)
  PROVE  \A i \in DOMAIN memory' : memory'[i].offset <= seq' + Len(memory')
<1>1. CASE memory' = memory
  BY <1>1 DEF Bounded
<1>2. CASE memory' = Append(memory, row)
  <2>1. memory \in Seq(Row) /\ Len(memory') = Len(memory) + 1 /\ DOMAIN memory' = 1..(Len(memory) + 1)
    BY <1>2 DEF TypeOK
  <2>2. ASSUME NEW i \in 1..Len(memory) PROVE memory'[i].offset <= seq' + Len(memory')
    <3>1. memory'[i] = memory[i] /\ memory[i] \in Row
      BY <1>2, <2>1
    <3> QED BY <2>1, <3>1 DEF Bounded, TypeOK, Row
  <2>3. memory'[Len(memory) + 1] = row
    BY <1>2, <2>1
  <2>4. row.offset <= seq' + Len(memory')
    BY <2>1 DEF TypeOK, Row
  <2>5. ASSUME NEW i \in DOMAIN memory' PROVE i \in 1..Len(memory) \/ i = Len(memory) + 1
    BY <2>1
  <2> QED BY <2>2, <2>3, <2>4, <2>5
<1> QED BY <1>1, <1>2

LEMMA BoundedStep == TypeOK /\ Awaiting /\ Bounded /\ [Next]_vars => Bounded'
<1> SUFFICES ASSUME TypeOK, Awaiting, Bounded, [Next]_vars PROVE Bounded'
  OBVIOUS
<1> USE NoTxAt DEF database, process
<1>0. tx \in [Handlers -> Statements] /\ seq \in Nat /\ memory \in Seq(Row)
  BY DEF TypeOK
\* A step of one insert, which keeps its offset.
<1>1. ASSUME NEW h \in Handlers, NEW x, tx' = [tx EXCEPT ![h] = x], UNCHANGED <<seq, memory>>,
             x # NoTx => tx[h] # NoTx /\ x.offset = tx[h].offset,
             \A r \in rows' : r \in rows \/ (tx[h] # NoTx /\ r.offset = tx[h].offset)
      PROVE  Bounded'
  BY <1>0, <1>1 DEF Bounded
\* A step that ends inserts and leaves the table alone.
<1>2. ASSUME \A h \in Handlers : tx'[h] = tx[h] \/ tx'[h] = NoTx, UNCHANGED <<rows, seq>>,
             \A i \in DOMAIN memory' : memory'[i].offset <= seq' + Len(memory')
      PROVE  Bounded'
  BY <1>2 DEF Bounded
<1>3. ASSUME NEW h \in Handlers, NEW e \in Events, PublishEvent(h, e) PROVE Bounded'
  <2>1. \A g \in Handlers : tx'[g] # NoTx => tx'[g].offset \in 1..(seq + 1)
    BY <1>0, <1>3 DEF PublishEvent, Bounded
  <2>2. seq' = seq + 1 /\ UNCHANGED <<rows, memory>>
    BY <1>3 DEF PublishEvent
  <2>3. \A r \in rows' : r.offset \in 1..seq'
    BY <1>0, <2>2 DEF Bounded
  <2>4. \A i \in DOMAIN memory' : memory'[i].offset <= seq' + Len(memory')
    <3>1. \A i \in DOMAIN memory : memory[i] \in Row /\ memory[i].offset <= seq + Len(memory)
      BY <1>0 DEF Bounded
    <3>2. \A i \in DOMAIN memory : memory[i].offset \in Nat
      BY <3>1 DEF Row
    <3> QED BY <1>0, <2>2, <3>1, <3>2
  <2> QED BY <2>1, <2>2, <2>3, <2>4 DEF Bounded
<1>4. ASSUME NEW h \in Handlers, Claim(h) PROVE Bounded'
  <2> DEFINE x == IF Stored(tx[h].event) THEN Finished(h, "conflict") ELSE [tx[h] EXCEPT !.at = "holding"]
  <2>1. tx[h] # NoTx
    BY <1>4 DEF Claim
  <2>2. x # NoTx => x.offset = tx[h].offset
    BY <2>1, FinishedFields, HoldingFields
  <2>3. tx' = [tx EXCEPT ![h] = x] /\ UNCHANGED <<rows, seq, memory>>
    BY <1>4 DEF Claim
  <2> HIDE DEF x
  <2> QED BY <1>1, <2>1, <2>2, <2>3
<1>5. ASSUME NEW h \in Handlers, Commit(h) PROVE Bounded'
  <2> DEFINE x == Finished(h, "inserted")
  <2>1. tx[h] # NoTx
    BY <1>5 DEF Commit
  <2>2. x # NoTx => x.offset = tx[h].offset
    BY <2>1, FinishedFields
  <2>3. tx' = [tx EXCEPT ![h] = x] /\ UNCHANGED <<seq, memory>>
    BY <1>5 DEF Commit
  <2>4. \A r \in rows' : r \in rows \/ r.offset = tx[h].offset
    BY <1>5 DEF Commit
  <2> HIDE DEF x
  <2> QED BY <1>1, <2>1, <2>2, <2>3, <2>4
<1>6. ASSUME NEW h \in Handlers, Rollback(h) PROVE Bounded'
  BY <1>1, <1>6 DEF Rollback
<1>7. ASSUME NEW h \in Handlers, Inserted(h) \/ Lookup(h) PROVE Bounded'
  <2>1. PICK row \in Row : row.offset \in 1..seq /\ Remember(row)
    <3>1. CASE Inserted(h)
      <4>1. tx[h].event \in Events /\ tx[h].offset \in Nat /\ tx[h].offset \in 1..seq
        BY <3>1, StatementFields DEF Inserted, Bounded
      <4>2. [event |-> tx[h].event, offset |-> tx[h].offset] \in Row
        BY <4>1 DEF Row
      <4> QED BY <3>1, <4>1, <4>2 DEF Inserted
    <3>2. CASE Lookup(h)
      BY <3>2 DEF Lookup, TypeOK, Bounded
    <3> QED BY <1>7, <3>1, <3>2
  <2>2. memory' = memory \/ memory' = Append(memory, row)
    BY <2>1 DEF Remember
  <2>3. UNCHANGED <<rows, seq>> /\ \A g \in Handlers : tx'[g] = tx[g] \/ tx'[g] = NoTx
    BY <1>0, <1>7 DEF Inserted, Lookup
  <2>4. row.offset <= seq + Len(memory) + 1
    BY <1>0, <2>1
  <2> QED BY <1>2, <2>2, <2>3, <2>4, MemoryBounded
<1>8. ASSUME NEW h \in Handlers, Conflict(h) PROVE Bounded'
  BY <1>8 DEF Conflict, Bounded
<1>9. ASSUME NEW e \in Events, PublishWithResult(e), seq' = seq
      PROVE  \A i \in DOMAIN memory' : memory'[i].offset <= seq' + Len(memory')
  <2> DEFINE row == [event |-> e, offset |-> Len(memory) + 1]
  <2>1. row \in Row /\ row.offset = Len(memory) + 1
    BY <1>0 DEF Row
  <2>2. memory' = memory \/ memory' = Append(memory, row)
    BY <1>9 DEF PublishWithResult
  <2> HIDE DEF row
  <2>3. row.offset <= seq + Len(memory) + 1
    BY <1>0, <2>1
  <2> QED BY <1>9, <2>1, <2>2, <2>3, MemoryBounded
<1>10. ASSUME NEW h \in Handlers, StoreFails(h) PROVE Bounded'
  <2>1. tx[h] # NoTx
    BY <1>10 DEF StoreFails, Awaiting
  <2>2. tx[h].event \in Events
    BY <2>1, StatementFields
  <2>3. UNCHANGED <<rows, seq>> /\ \A g \in Handlers : tx'[g] = tx[g] \/ tx'[g] = NoTx
    BY <1>0, <1>10 DEF StoreFails
  <2> QED BY <1>2, <1>9, <1>10, <2>2, <2>3 DEF StoreFails
<1>11. ASSUME NEW h \in Handlers, NEW e \in Events, PublishDegraded(h, e) PROVE Bounded'
  BY <1>2, <1>9, <1>11 DEF PublishDegraded
<1>12. ASSUME Restart PROVE Bounded'
  <2>1. \A i \in DOMAIN memory' : memory'[i].offset <= seq' + Len(memory')
    BY <1>12 DEF Restart
  <2> QED BY <1>2, <1>12, <2>1 DEF Restart
<1>13. CASE Replay \/ ReplayFails \/ UNCHANGED vars
  BY <1>13 DEF Replay, ReplayFails, vars, Bounded
<1> QED
  BY <1>3, <1>4, <1>5, <1>6, <1>7, <1>8, <1>10, <1>11, <1>12, <1>13 DEF Next, Handle, Database

-----------------------------------------------------------------------------
(* The unique key: one row of each event, and one insert that may become it. *)

KeyIsUnique ==
  /\ \A r, s \in rows : r.event = s.event => r = s
  /\ \A g, h \in Handlers :
       tx[g].at = "holding" /\ tx[h].at = "holding" /\ tx[g].event = tx[h].event => g = h
  /\ \A h \in Handlers : tx[h].at = "holding" => ~Stored(tx[h].event)

\* What an insert reports is in the table.
ResultsTrue ==
  \A h \in Handlers :
    /\ tx[h].at = "inserted" => [event |-> tx[h].event, offset |-> tx[h].offset] \in rows
    /\ tx[h].at = "conflict" => Stored(tx[h].event)

StoreInv == TypeOK /\ Awaiting /\ Bounded /\ KeyIsUnique /\ ResultsTrue

\* Steps other than these of an insert leave the table alone, and can only end
\* inserts.
LEMMA OtherSteps ==
  ASSUME TypeOK, [Next]_vars,
         ~ \E h \in Handlers : Database(h) \/ \E e \in Events : PublishEvent(h, e)
  PROVE  rows' = rows /\ seq' = seq /\ \A h \in Handlers : tx'[h] = tx[h] \/ tx'[h] = NoTx
<1> USE DEF database, process
<1>0. tx \in [Handlers -> Statements]
  BY DEF TypeOK
<1>1. CASE \E h \in Handlers : Handle(h) \/ Rollback(h) \/ StoreFails(h)
  BY <1>0, <1>1 DEF Handle, Inserted, Conflict, Lookup, Rollback, StoreFails
<1>2. CASE Restart
  BY <1>0, <1>2 DEF Restart
<1>3. CASE Replay \/ ReplayFails \/ UNCHANGED vars \/ \E h \in Handlers, e \in Events : PublishDegraded(h, e)
  BY <1>3 DEF Replay, ReplayFails, vars, PublishDegraded
<1> QED BY <1>1, <1>2, <1>3 DEF Next

LEMMA KeyStep == StoreInv /\ [Next]_vars => KeyIsUnique' /\ ResultsTrue'
<1> SUFFICES ASSUME StoreInv, [Next]_vars PROVE KeyIsUnique' /\ ResultsTrue'
  OBVIOUS
<1> USE NoTxAt DEF database, process
<1>0. TypeOK /\ tx \in [Handlers -> Statements]
  BY DEF StoreInv, TypeOK
<1>1. ASSUME NEW h \in Handlers, NEW e \in Events, PublishEvent(h, e) PROVE KeyIsUnique' /\ ResultsTrue'
  <2>1. rows' = rows /\ tx'[h].at = "started" /\ \A g \in Handlers \ {h} : tx'[g] = tx[g]
    BY <1>0, <1>1 DEF PublishEvent
  <2> QED BY <2>1 DEF StoreInv, KeyIsUnique, ResultsTrue, Stored
<1>2. ASSUME NEW h \in Handlers, Claim(h) PROVE KeyIsUnique' /\ ResultsTrue'
  <2> DEFINE x == IF Stored(tx[h].event) THEN Finished(h, "conflict") ELSE [tx[h] EXCEPT !.at = "holding"]
  <2>1. tx[h] # NoTx
    BY <1>2 DEF Claim
  <2>2. /\ Stored(tx[h].event) => x = NoTx \/ (x.at = "conflict" /\ x.event = tx[h].event)
        /\ ~Stored(tx[h].event) => x.at = "holding" /\ x.event = tx[h].event
    BY <1>0, <2>1, FinishedFields, HoldingFields
  <2>3. rows' = rows /\ tx'[h] = x /\ \A g \in Handlers \ {h} : tx'[g] = tx[g]
    BY <1>0, <1>2 DEF Claim
  <2>4. \A g \in Handlers : ~(tx[g].at = "holding" /\ tx[g].event = tx[h].event)
    BY <1>2 DEF Claim, Holds
  <2> HIDE DEF x
  <2>5. KeyIsUnique'
    BY <2>2, <2>3, <2>4 DEF StoreInv, KeyIsUnique, Stored
  <2>6. ResultsTrue'
    BY <2>2, <2>3 DEF StoreInv, ResultsTrue, Stored
  <2> QED BY <2>5, <2>6
<1>3. ASSUME NEW h \in Handlers, Commit(h) PROVE KeyIsUnique' /\ ResultsTrue'
  <2> DEFINE x == Finished(h, "inserted")
             row == [event |-> tx[h].event, offset |-> tx[h].offset]
  <2>1. tx[h] # NoTx /\ tx[h].at = "holding"
    BY <1>3 DEF Commit
  <2>2. x = NoTx \/ (x.at = "inserted" /\ [event |-> x.event, offset |-> x.offset] = row)
    BY <1>0, <2>1, FinishedFields
  <2>3. rows' = rows \cup {row} /\ tx'[h] = x /\ \A g \in Handlers \ {h} : tx'[g] = tx[g]
    BY <1>0, <1>3 DEF Commit
  <2>4. row.event = tx[h].event /\ ~Stored(tx[h].event)
    BY <2>1 DEF StoreInv, KeyIsUnique
  <2> HIDE DEF x, row
  <2>5. \A r, s \in rows' : r.event = s.event => r = s
    BY <2>3, <2>4 DEF StoreInv, KeyIsUnique, Stored
  <2>6. \A g \in Handlers : tx'[g].at = "holding" => g # h /\ tx[g].at = "holding" /\ tx'[g] = tx[g]
    BY <2>2, <2>3
  <2>7. \A g \in Handlers : tx'[g].at = "holding" => ~ \E r \in rows' : r.event = tx'[g].event
    BY <2>1, <2>3, <2>4, <2>6 DEF StoreInv, KeyIsUnique, Stored
  <2>8. KeyIsUnique'
    BY <2>5, <2>6, <2>7 DEF StoreInv, KeyIsUnique, Stored
  <2>9. ResultsTrue'
    BY <2>2, <2>3 DEF StoreInv, ResultsTrue, Stored
  <2> QED BY <2>8, <2>9
<1>4. CASE ~ \E h \in Handlers : Database(h) \/ \E e \in Events : PublishEvent(h, e)
  <2>1. rows' = rows /\ \A h \in Handlers : tx'[h] = tx[h] \/ tx'[h] = NoTx
    BY <1>0, <1>4, OtherSteps
  <2>2. KeyIsUnique'
    BY <2>1 DEF StoreInv, KeyIsUnique, Stored
  <2>3. ResultsTrue'
    BY <2>1 DEF StoreInv, ResultsTrue, Stored
  <2> QED BY <2>2, <2>3
<1> QED BY <1>1, <1>2, <1>3, <1>4 DEF Database

LEMMA StoreInit == Init => StoreInv
BY TypeInit, NoTxAt DEF Init, StoreInv, Awaiting, Bounded, KeyIsUnique, ResultsTrue

LEMMA StoreStep == StoreInv /\ [Next]_vars => StoreInv'
BY TypeStep, AwaitingStep, BoundedStep, KeyStep DEF StoreInv

LEMMA StoreAlways == Spec => []StoreInv
<1>1. Init => StoreInv
  BY StoreInit
<1>2. StoreInv /\ [Next]_vars => StoreInv'
  BY StoreStep
<1> QED BY <1>1, <1>2, PTL DEF Spec

(* Every variable has its type.                                              *)
THEOREM LogTypeCorrect == Spec => []TypeOK
<1>1. StoreInv => TypeOK
  BY DEF StoreInv
<1> QED BY <1>1, StoreAlways, PTL

-----------------------------------------------------------------------------
(* What is answered while the store is in use.                               *)

AnswersTrue == (status = "degraded" => fellBack) /\ AnsweredIsStored

LEMMA AnswersStep == StoreInv /\ AnswersTrue /\ [Next]_vars => AnswersTrue'
<1> SUFFICES ASSUME StoreInv, AnswersTrue, [Next]_vars PROVE AnswersTrue'
  OBVIOUS
<1> USE DEF database, process, aux
<1>1. ASSUME UNCHANGED <<answers, status, fellBack>>, rows \subseteq rows' PROVE AnswersTrue'
  BY <1>1 DEF AnswersTrue, AnsweredIsStored
<1>2. ASSUME NEW h \in Handlers, Inserted(h) \/ Lookup(h) PROVE AnswersTrue'
  <2>1. PICK row \in rows, duplicate \in BOOLEAN : Answer(row, duplicate)
    <3>1. CASE Inserted(h)
      BY <3>1 DEF Inserted, StoreInv, ResultsTrue
    <3>2. CASE Lookup(h)
      BY <3>2 DEF Lookup
    <3> QED BY <1>2, <3>1, <3>2
  <2>2. row \in Row /\ row = [event |-> row.event, offset |-> row.offset]
    BY <2>1 DEF StoreInv, TypeOK, Row
  <2>3. UNCHANGED <<rows, status, fellBack>>
    BY <1>2 DEF Inserted, Lookup
  <2> QED BY <2>1, <2>2, <2>3 DEF AnswersTrue, AnsweredIsStored, Answer
<1>3. ASSUME fellBack' PROVE AnswersTrue'
  BY <1>3 DEF AnswersTrue, AnsweredIsStored
<1>4. ASSUME NEW h \in Handlers, NEW e \in Events, PublishEvent(h, e) \/ PublishDegraded(h, e) PROVE AnswersTrue'
  BY <1>1, <1>3, <1>4 DEF PublishEvent, PublishDegraded, AnswersTrue
<1>5. ASSUME NEW h \in Handlers, Conflict(h) \/ Database(h) \/ Rollback(h) PROVE AnswersTrue'
  BY <1>1, <1>5 DEF Conflict, Database, Claim, Commit, Rollback
<1>6. ASSUME NEW h \in Handlers, StoreFails(h) PROVE AnswersTrue'
  BY <1>3, <1>6 DEF StoreFails, MarkDegraded
<1>7. CASE Restart
  BY <1>7 DEF Restart, AnswersTrue, AnsweredIsStored
<1>8. CASE Replay \/ UNCHANGED vars
  BY <1>1, <1>8 DEF Replay, vars
<1>9. CASE ReplayFails
  BY <1>3, <1>9 DEF ReplayFails, MarkDegraded
<1> QED BY <1>2, <1>4, <1>5, <1>6, <1>7, <1>8, <1>9 DEF Next, Handle

LEMMA AnswersAlways == Spec => [](StoreInv /\ AnswersTrue)
<1>1. Init => AnswersTrue
  BY DEF Init, AnswersTrue, AnsweredIsStored
<1>2. StoreInv /\ AnswersTrue /\ [Next]_vars => AnswersTrue'
  BY AnswersStep
<1> QED BY <1>1, <1>2, StoreAlways, PTL DEF Spec

(* An answer given while the store was in use names a committed row, which   *)
(* no restart takes away.                                                    *)
THEOREM AnswersAreStored == Spec => []AnsweredIsStored
<1>1. AnswersTrue => AnsweredIsStored
  BY DEF AnswersTrue
<1> QED BY <1>1, AnswersAlways, PTL

(* Requests that publish one event, at once or one after the other, on both  *)
(* sides of a restart, are answered with one offset.                         *)
THEOREM PublishIsIdempotent == Spec => []IdempotentInStore
<1>1. StoreInv /\ AnswersTrue => IdempotentInStore
  <2> SUFFICES ASSUME StoreInv, AnswersTrue, ~fellBack,
                      NEW a \in answers, NEW b \in answers, a.event = b.event
               PROVE  a.offset = b.offset
    BY DEF IdempotentInStore, SameOffset
  <2> DEFINE r == [event |-> a.event, offset |-> a.offset]
             s == [event |-> b.event, offset |-> b.offset]
  <2>1. r \in rows /\ s \in rows
    BY DEF AnswersTrue, AnsweredIsStored
  <2>2. r = s
    BY <2>1 DEF StoreInv, KeyIsUnique
  <2>3. r.offset = s.offset
    BY <2>2
  <2> QED BY <2>3
<1> QED BY <1>1, AnswersAlways, PTL

-----------------------------------------------------------------------------
(* Inserts one after the other.  The insert that is under way has an offset  *)
(* beyond all rows and beyond the cursor, and the follower has received the  *)
(* rows up to its cursor.                                                    *)

Alone == ~overlapped => \A g, h \in Handlers : tx[g] # NoTx /\ tx[h] # NoTx => g = h

UpToCursor == {e \in Events : \E r \in rows : r.event = e /\ r.offset <= cursor}

Ahead ==
  InOrder =>
    /\ cursor <= seq
    /\ \A h \in Handlers : tx[h].at \in {"started", "holding"} =>
         cursor < tx[h].offset /\ \A r \in rows : r.offset < tx[h].offset
    /\ received = UpToCursor

OrderInv == StoreInv /\ AnswersTrue /\ IsFiniteSet(rows) /\ Alone /\ Ahead

\* A read from the store takes all rows up to the new cursor.
LEMMA ReadsUpToCursor ==
  ASSUME OrderInv, InOrder, Replay
  PROVE  /\ \E m \in rows : m.offset > cursor /\ cursor' = m.offset
         /\ received' = {e \in Events : \E r \in rows : r.event = e /\ r.offset <= cursor'}
<1>0. rows \subseteq Row /\ IsFiniteSet(rows) /\ cursor \in Nat /\ received = UpToCursor
  BY DEF OrderInv, StoreInv, TypeOK, Ahead
<1>1. Receive(StoreScan)
  BY DEF Replay, OrderInv, AnswersTrue, InOrder, StoreInv, TypeOK
<1>2. PICK m \in StoreScan : cursor' = m.offset /\ \A r \in StoreScan : r.offset <= m.offset
  BY <1>1, ReadFields DEF OrderInv, StoreInv
<1>3. m \in rows /\ m.offset > cursor /\ m.offset \in Nat
  BY <1>0, <1>2 DEF StoreScan, Row
<1>4. \A r \in rows : r.offset \in Nat /\ r.event \in Events
  BY <1>0 DEF Row
<1> DEFINE Between(r) == {s \in rows : s.offset > cursor /\ s.offset < r.offset}
<1>5. ASSUME NEW r \in rows, r.offset > cursor, r.offset <= m.offset PROVE r \in StoreScan
  <2>1. Between(r) \in SUBSET Between(m) /\ Between(m) \in SUBSET rows
    BY <1>0, <1>3, <1>4, <1>5
  <2>2. IsFiniteSet(Between(m))
    BY <1>0, <2>1, FS_Subset
  <2>3. Cardinality(Between(r)) <= Cardinality(Between(m)) /\ IsFiniteSet(Between(r))
    BY <2>1, <2>2, FS_Subset
  <2>4. Cardinality(Between(r)) \in Nat /\ Cardinality(Between(m)) \in Nat
    BY <2>2, <2>3, FS_CardinalityType
  <2>5. Cardinality(Between(m)) < ReadLimit
    BY <1>2 DEF StoreScan
  <2>6. Cardinality(Between(r)) < ReadLimit
    BY <2>3, <2>4, <2>5
  <2> QED BY <1>5, <2>6 DEF StoreScan
<1>6. received' = received \cup {r.event : r \in StoreScan}
  BY <1>1 DEF Receive
<1>7. ASSUME NEW e \in received' PROVE e \in Events /\ \E r \in rows : r.event = e /\ r.offset <= cursor'
  <2>1. CASE e \in received
    <3>1. PICK r \in rows : r.event = e /\ r.offset <= cursor
      BY <1>0, <2>1 DEF UpToCursor
    <3>2. r.offset <= cursor'
      BY <1>0, <1>2, <1>3, <1>4, <3>1
    <3> QED BY <1>4, <3>1, <3>2
  <2>2. CASE \E r \in StoreScan : e = r.event
    <3>1. PICK r \in StoreScan : e = r.event
      BY <2>2
    <3>2. r \in rows /\ r.offset <= cursor'
      BY <1>2, <3>1 DEF StoreScan
    <3> QED BY <1>4, <3>1, <3>2
  <2> QED BY <1>6, <1>7, <2>1, <2>2
<1>8. ASSUME NEW r \in rows, r.offset <= cursor' PROVE r.event \in received'
  <2>1. CASE r.offset <= cursor
    BY <1>0, <1>4, <1>6, <2>1 DEF UpToCursor
  <2>2. CASE r.offset > cursor
    BY <1>2, <1>5, <1>6, <1>8, <2>2
  <2> QED BY <1>0, <1>4, <2>1, <2>2
<1> QED BY <1>2, <1>3, <1>7, <1>8

LEMMA AloneStep == StoreInv /\ Alone /\ [Next]_vars => Alone'
<1> SUFFICES ASSUME StoreInv, Alone, [Next]_vars PROVE Alone'
  OBVIOUS
<1> USE NoTxAt DEF process, follower, aux
<1>0. TypeOK /\ tx \in [Handlers -> Statements]
  BY DEF StoreInv, TypeOK
<1>1. ASSUME NEW h \in Handlers, NEW e \in Events, PublishEvent(h, e) PROVE Alone'
  <2>1. ~overlapped' => ~overlapped /\ \A g \in Handlers : tx[g] = NoTx
    BY <1>1 DEF PublishEvent
  <2>2. \A g \in Handlers \ {h} : tx'[g] = tx[g]
    BY <1>0, <1>1 DEF PublishEvent
  <2> QED BY <2>1, <2>2 DEF Alone
<1>2. ASSUME overlapped' = overlapped, \A h \in Handlers : tx'[h] # NoTx => tx[h] # NoTx PROVE Alone'
  BY <1>2 DEF Alone
<1>3. ASSUME NEW h \in Handlers, Claim(h) PROVE Alone'
  <2>1. tx[h] # NoTx /\ overlapped' = overlapped /\ \A g \in Handlers \ {h} : tx'[g] = tx[g]
    BY <1>0, <1>3 DEF Claim
  <2> QED BY <1>2, <2>1
<1>4. ASSUME NEW h \in Handlers, Commit(h) PROVE Alone'
  <2>1. tx[h] # NoTx /\ overlapped' = overlapped /\ \A g \in Handlers \ {h} : tx'[g] = tx[g]
    BY <1>0, <1>4 DEF Commit
  <2> QED BY <1>2, <2>1
<1>5. CASE ~ \E h \in Handlers : Database(h) \/ \E e \in Events : PublishEvent(h, e)
  <2>1. \A h \in Handlers : tx'[h] = tx[h] \/ tx'[h] = NoTx
    BY <1>0, <1>5, OtherSteps
  <2>2. overlapped' = overlapped
    BY <1>5 DEF Next, Handle, Inserted, Conflict, Lookup, Rollback, StoreFails, MarkDegraded, PublishDegraded,
                Restart, Replay, ReplayFails, vars
  <2> QED BY <1>2, <2>1, <2>2
<1> QED BY <1>1, <1>3, <1>4, <1>5 DEF Database

\* Only reads move the follower.
LEMMA FollowerStays ==
  ASSUME [Next]_vars, ~Replay, ~ReplayFails
  PROVE  UNCHANGED <<cursor, received>>
BY DEF Next, Handle, Database, Inserted, Conflict, Lookup, Claim, Commit, Rollback, StoreFails, PublishEvent,
       PublishDegraded, Restart, vars, follower

\* The history variables do not go back.
LEMMA OrderIsHistory ==
  ASSUME TypeOK, [Next]_vars, InOrder'
  PROVE  InOrder /\ ~ReplayFails
<1>1. ~ReplayFails
  BY DEF ReplayFails, MarkDegraded, InOrder
<1>2. ~overlapped /\ ~fellBack
  BY <1>1 DEF Next, Handle, Database, Inserted, Conflict, Lookup, Claim, Commit, Rollback, StoreFails, MarkDegraded,
              PublishEvent, PublishDegraded, Restart, Replay, vars, aux, InOrder, TypeOK
<1> QED BY <1>1, <1>2 DEF InOrder

LEMMA AheadStep == OrderInv /\ [Next]_vars => Ahead'
<1> SUFFICES ASSUME OrderInv, [Next]_vars, InOrder' PROVE Ahead'
  BY DEF Ahead
<1> USE NoTxAt DEF process, follower, aux
<1>0. TypeOK /\ tx \in [Handlers -> Statements] /\ seq \in Nat /\ cursor \in Nat
      /\ \A r \in rows : r.offset \in Nat /\ r.offset <= seq
  BY DEF OrderInv, StoreInv, TypeOK, Bounded, Row
<1>1. InOrder /\ ~ReplayFails
  BY <1>0, OrderIsHistory
<1>2. /\ cursor <= seq
      /\ \A h \in Handlers : tx[h].at \in {"started", "holding"} =>
           cursor < tx[h].offset /\ \A r \in rows : r.offset < tx[h].offset
      /\ received = UpToCursor
  BY <1>1 DEF OrderInv, Ahead
<1>3. ASSUME NEW h \in Handlers, NEW e \in Events, PublishEvent(h, e) PROVE Ahead'
  <2>1. \A g \in Handlers : tx[g] = NoTx
    BY <1>3 DEF PublishEvent, InOrder
  <2>2. /\ tx'[h].offset = seq + 1 /\ seq' = seq + 1
        /\ UNCHANGED <<rows, cursor, received>>
        /\ \A g \in Handlers \ {h} : tx'[g] = tx[g]
    BY <1>0, <1>3 DEF PublishEvent
  <2>3. \A r \in rows : r.offset < seq + 1
    BY <1>0
  <2>4. UpToCursor' = UpToCursor
    BY <2>2 DEF UpToCursor
  <2>5. cursor < seq + 1
    BY <1>0, <1>2
  <2> QED BY <1>0, <1>2, <2>1, <2>2, <2>3, <2>4, <2>5 DEF Ahead
<1>4. ASSUME NEW h \in Handlers, Claim(h) PROVE Ahead'
  <2> DEFINE x == IF Stored(tx[h].event) THEN Finished(h, "conflict") ELSE [tx[h] EXCEPT !.at = "holding"]
  <2>1. tx[h] # NoTx /\ tx[h].at = "started"
    BY <1>4 DEF Claim
  <2>2. x.at \in {"started", "holding"} => x.offset = tx[h].offset
    BY <1>0, <2>1, FinishedFields, HoldingFields
  <2>3. UNCHANGED <<rows, seq, cursor, received>> /\ tx'[h] = x /\ \A g \in Handlers \ {h} : tx'[g] = tx[g]
    BY <1>0, <1>4 DEF Claim
  <2>4. UpToCursor' = UpToCursor
    BY <2>3 DEF UpToCursor
  <2> HIDE DEF x
  <2>5. ASSUME NEW g \in Handlers, tx'[g].at \in {"started", "holding"}
        PROVE  tx[g].at \in {"started", "holding"} /\ tx'[g].offset = tx[g].offset
    BY <2>1, <2>2, <2>3, <2>5
  <2> QED BY <1>2, <2>3, <2>4, <2>5 DEF Ahead
<1>5. ASSUME NEW h \in Handlers, Commit(h) PROVE Ahead'
  <2> DEFINE row == [event |-> tx[h].event, offset |-> tx[h].offset]
  <2>1. tx[h] # NoTx /\ tx[h].at = "holding"
    BY <1>5 DEF Commit
  <2>2. \A g \in Handlers \ {h} : tx[g] = NoTx
    BY <1>1, <2>1 DEF OrderInv, Alone, InOrder
  <2>3. UNCHANGED <<seq, cursor, received>> /\ rows' = rows \cup {row}
        /\ tx'[h] = Finished(h, "inserted") /\ \A g \in Handlers \ {h} : tx'[g] = tx[g]
    BY <1>0, <1>5 DEF Commit
  <2>4. \A g \in Handlers : tx'[g].at \notin {"started", "holding"}
    BY <1>0, <2>1, <2>2, <2>3, FinishedFields
  <2>5. row.offset \in Nat /\ cursor < row.offset
    BY <1>0, <1>2, <2>1, StatementFields
  <2> HIDE DEF row
  <2>6. UpToCursor' = UpToCursor
    BY <1>0, <2>3, <2>5 DEF UpToCursor
  <2> QED BY <1>2, <2>3, <2>4, <2>6 DEF Ahead
<1>6. CASE Replay
  <2>1. UNCHANGED <<rows, seq, tx>>
    BY <1>6 DEF Replay, database
  <2>2. PICK m \in rows : m.offset > cursor /\ cursor' = m.offset
    BY <1>1, <1>6, ReadsUpToCursor
  <2>3. received' = {e \in Events : \E r \in rows : r.event = e /\ r.offset <= cursor'}
    BY <1>1, <1>6, ReadsUpToCursor
  <2>4. cursor' <= seq /\ \A h \in Handlers : tx[h].at \in {"started", "holding"} => cursor' < tx[h].offset
    BY <1>0, <1>2, <2>2
  <2>5. received' = UpToCursor'
    BY <2>1, <2>3 DEF UpToCursor
  <2> QED BY <1>2, <2>1, <2>4, <2>5 DEF Ahead
<1>7. CASE ~Replay /\ ~ \E h \in Handlers : Database(h) \/ \E e \in Events : PublishEvent(h, e)
  <2>1. rows' = rows /\ seq' = seq /\ \A h \in Handlers : tx'[h] = tx[h] \/ tx'[h] = NoTx
    BY <1>0, <1>7, OtherSteps
  <2>2. UNCHANGED <<cursor, received>>
    BY <1>1, <1>7, FollowerStays
  <2>3. UpToCursor' = UpToCursor
    BY <2>1, <2>2 DEF UpToCursor
  <2>4. ASSUME NEW h \in Handlers, tx'[h].at \in {"started", "holding"} PROVE tx'[h] = tx[h]
    BY <2>1, <2>4
  <2> QED BY <1>2, <2>1, <2>2, <2>3, <2>4 DEF Ahead
<1> QED BY <1>3, <1>4, <1>5, <1>6, <1>7 DEF Database

LEMMA OrderInit == Init => OrderInv
<1> SUFFICES ASSUME Init PROVE OrderInv
  OBVIOUS
<1>1. StoreInv
  BY StoreInit
<1>2. AnswersTrue
  BY DEF Init, AnswersTrue, AnsweredIsStored
<1>3. IsFiniteSet(rows)
  BY FS_EmptySet DEF Init
<1>4. Alone /\ Ahead
  BY NoTxAt DEF Init, Alone, Ahead, UpToCursor
<1> QED BY <1>1, <1>2, <1>3, <1>4 DEF OrderInv

LEMMA OrderStep == OrderInv /\ [Next]_vars => OrderInv'
<1> SUFFICES ASSUME OrderInv, [Next]_vars PROVE OrderInv'
  OBVIOUS
<1>1. StoreInv'
  BY StoreStep DEF OrderInv
<1>2. AnswersTrue'
  BY AnswersStep DEF OrderInv
<1>3. IsFiniteSet(rows')
  <2>1. CASE \E h \in Handlers : Commit(h)
    <3>1. PICK h \in Handlers : Commit(h)
      BY <2>1
    <3>2. rows' = rows \cup {[event |-> tx[h].event, offset |-> tx[h].offset]}
      BY <3>1 DEF Commit
    <3> QED BY <3>2, FS_AddElement DEF OrderInv
  <2>2. CASE ~ \E h \in Handlers : Commit(h)
    <3>1. rows' = rows
      BY <2>2 DEF Next, Handle, Database, Inserted, Conflict, Lookup, Claim, Rollback, StoreFails, PublishEvent,
                  PublishDegraded, Restart, Replay, ReplayFails, vars, database
    <3> QED BY <3>1 DEF OrderInv
  <2> QED BY <2>1, <2>2
<1>4. Alone'
  BY AloneStep DEF OrderInv
<1>5. Ahead'
  BY AheadStep
<1> QED BY <1>1, <1>2, <1>3, <1>4, <1>5 DEF OrderInv

LEMMA OrderAlways == Spec => []OrderInv
<1>1. Init => OrderInv
  BY OrderInit
<1>2. OrderInv /\ [Next]_vars => OrderInv'
  BY OrderStep
<1> QED BY <1>1, <1>2, PTL DEF Spec

(* As long as inserts come one after the other, the cursor of a follower     *)
(* passes no committed event that it has not received.                       *)
THEOREM NothingIsSkipped == Spec => []NothingSkippedInOrder
<1>1. OrderInv => NothingSkippedInOrder
  <2> SUFFICES ASSUME OrderInv, InOrder, NEW r \in rows, r.offset <= cursor PROVE r.event \in received
    BY DEF NothingSkippedInOrder, NothingSkipped
  <2>1. r.event \in Events /\ received = UpToCursor
    BY DEF OrderInv, StoreInv, TypeOK, Row, Ahead
  <2> QED BY <2>1 DEF UpToCursor
<1> QED BY <1>1, OrderAlways, PTL

-----------------------------------------------------------------------------
(* The feed that the rows and the follower implement.                        *)

\* The offsets of the events of a table.
OffsetsIn(R) ==
  [e \in Events |-> IF \E r \in R : r.event = e THEN (CHOOSE r \in R : r.event = e).offset ELSE 0]

LEMMA OffsetInRow ==
  ASSUME NEW R, R \subseteq Row, \A r, s \in R : r.event = s.event => r = s
  PROVE  /\ \A r \in R : OffsetsIn(R)[r.event] = r.offset
         /\ \A e \in Events : (~ \E r \in R : r.event = e) => OffsetsIn(R)[e] = 0
<1>1. ASSUME NEW r \in R PROVE OffsetsIn(R)[r.event] = r.offset
  <2>1. r.event \in Events
    BY DEF Row
  <2>2. \A s \in R : s.event = r.event => s = r
    OBVIOUS
  <2>3. (CHOOSE s \in R : s.event = r.event) = r
    BY <2>2
  <2> QED BY <2>1, <2>3 DEF OffsetsIn
<1> QED BY <1>1 DEF OffsetsIn

\* A row of a new event changes the offset of that event only.
LEMMA OffsetsOfNewRow ==
  ASSUME NEW R, NEW row \in Row, R \subseteq Row, ~ \E r \in R : r.event = row.event,
         \A r, s \in R : r.event = s.event => r = s
  PROVE  OffsetsIn(R \cup {row}) = [OffsetsIn(R) EXCEPT ![row.event] = row.offset]
<1> DEFINE Q == R \cup {row}
<1>1. Q \subseteq Row /\ \A r, s \in Q : r.event = s.event => r = s
  OBVIOUS
<1>2. row \in Q /\ R \subseteq Q /\ \A r \in Q : r \in R \/ r = row
  OBVIOUS
<1> HIDE DEF Q
<1>3. OffsetsIn(Q)[row.event] = row.offset
  BY <1>1, <1>2, OffsetInRow
<1>4. ASSUME NEW e \in Events, e # row.event PROVE OffsetsIn(Q)[e] = OffsetsIn(R)[e]
  <2>1. CASE \E r \in R : r.event = e
    <3>1. PICK r \in R : r.event = e
      BY <2>1
    <3>2. OffsetsIn(R)[e] = r.offset
      BY <3>1, OffsetInRow
    <3>3. OffsetsIn(Q)[e] = r.offset
      BY <1>1, <1>2, <3>1, OffsetInRow
    <3> QED BY <3>2, <3>3
  <2>2. CASE ~ \E r \in R : r.event = e
    <3>1. OffsetsIn(R)[e] = 0
      BY <2>2, OffsetInRow
    <3>2. ~ \E r \in Q : r.event = e
      BY <1>2, <1>4, <2>2
    <3>3. OffsetsIn(Q)[e] = 0
      BY <1>1, <3>2, OffsetInRow
    <3> QED BY <3>1, <3>3
  <2> QED BY <2>1, <2>2
<1>5. /\ OffsetsIn(Q) = [e \in Events |-> OffsetsIn(Q)[e]]
      /\ OffsetsIn(R) = [e \in Events |-> OffsetsIn(R)[e]]
      /\ row.event \in Events
  BY DEF OffsetsIn, Row
<1> HIDE DEF OffsetsIn
<1>6. OffsetsIn(Q) = [OffsetsIn(R) EXCEPT ![row.event] = row.offset]
  BY <1>3, <1>4, <1>5
<1> QED BY <1>6 DEF Q

LEMMA OffsetOfRow ==
  ASSUME StoreInv
  PROVE  /\ \A r \in rows : OffsetOf[r.event] = r.offset
         /\ \A e \in Events : ~Stored(e) => OffsetOf[e] = 0
<1>1. OffsetOf = OffsetsIn(rows)
  BY DEF OffsetOf, OffsetsIn, Stored
<1>2. rows \subseteq Row /\ \A r, s \in rows : r.event = s.event => r = s
  BY DEF StoreInv, TypeOK, KeyIsUnique
<1> QED BY <1>1, <1>2, OffsetInRow DEF Stored

LEMMA FeedInit == Init => Feed!Init
<1> SUFFICES ASSUME Init PROVE Feed!Init
  OBVIOUS
<1>1. \A e \in Events : ~Stored(e)
  BY DEF Init, Stored
<1>2. OffsetOf = [e \in Events |-> 0]
  BY <1>1 DEF OffsetOf
<1> QED BY <1>2 DEF Init, Feed!Init

LEMMA FeedPublish ==
  ASSUME OrderInv, InOrder, NEW h \in Handlers, Commit(h)
  PROVE  Feed!Next
<1>0. TypeOK /\ tx[h] # NoTx /\ tx[h].at = "holding"
  BY NoTxAt DEF Commit, OrderInv, StoreInv
<1>1. tx[h].event \in Events /\ tx[h].offset \in Nat
  BY <1>0, StatementFields
<1>2. PICK row \in Row : row = [event |-> tx[h].event, offset |-> tx[h].offset]
  BY <1>1 DEF Row
<1>3. PICK e \in Events : e = row.event
  BY DEF Row
<1>4. e = tx[h].event /\ row.offset = tx[h].offset /\ row.offset \in Nat
  BY <1>1, <1>2, <1>3
<1>5. ~Stored(e)
  BY <1>0, <1>4 DEF OrderInv, StoreInv, KeyIsUnique, Stored
<1>6. cursor < row.offset /\ \A r \in rows : r.offset < row.offset
  BY <1>0, <1>4 DEF OrderInv, Ahead
<1>7. rows' = rows \cup {row} /\ UNCHANGED <<cursor, received>>
  BY <1>2 DEF Commit, follower
<1>8. OffsetOf[e] = 0 /\ cursor \in Nat
  BY <1>5, OffsetOfRow DEF OrderInv, StoreInv, TypeOK
<1>9. OffsetOf' = [OffsetOf EXCEPT ![e] = row.offset]
  <2>1. OffsetOf = OffsetsIn(rows) /\ OffsetOf' = OffsetsIn(rows')
    BY DEF OffsetOf, OffsetsIn, Stored
  <2>2. rows \subseteq Row /\ \A r, s \in rows : r.event = s.event => r = s
    BY DEF OrderInv, StoreInv, TypeOK, KeyIsUnique
  <2> QED BY <1>3, <1>5, <1>7, <2>1, <2>2, OffsetsOfNewRow DEF Stored
<1>10. OffsetOf'[e] = row.offset
  BY <1>9 DEF OffsetOf
<1>11. ASSUME NEW d \in Events PROVE row.offset > OffsetOf[d]
  <2>1. CASE Stored(d)
    <3>1. PICK r \in rows : r.event = d
      BY <2>1 DEF Stored
    <3>2. OffsetOf[d] = r.offset /\ r.offset \in Nat
      BY <3>1, OffsetOfRow DEF OrderInv, StoreInv, TypeOK, Row
    <3> QED BY <1>4, <1>6, <3>2
  <2>2. CASE ~Stored(d)
    <3>1. OffsetOf[d] = 0
      BY <2>2, OffsetOfRow DEF OrderInv
    <3> QED BY <1>4, <1>6, <1>8, <3>1
  <2> QED BY <2>1, <2>2
<1>12. OffsetOf' = [OffsetOf EXCEPT ![e] = OffsetOf'[e]]
  BY <1>9, <1>10
<1> HIDE DEF OffsetOf
<1>13. Feed!Publish(e)
  BY <1>4, <1>6, <1>7, <1>8, <1>10, <1>11, <1>12 DEF Feed!Publish
<1> QED BY <1>13 DEF Feed!Next

LEMMA FeedRead ==
  ASSUME OrderInv, InOrder, Replay
  PROVE  Feed!Next
<1>1. PICK m \in rows : m.offset > cursor /\ cursor' = m.offset
  BY ReadsUpToCursor
<1>2. received' = {e \in Events : \E r \in rows : r.event = e /\ r.offset <= cursor'}
  BY ReadsUpToCursor
<1>3. rows \subseteq Row /\ \A r \in rows : r.event \in Events /\ r.offset \in 1..seq /\ r.offset \in Nat
  BY DEF OrderInv, StoreInv, TypeOK, Bounded, Row
<1>4. StoreInv /\ m.event \in Events /\ OffsetOf[m.event] = m.offset
  BY <1>3, OffsetOfRow DEF OrderInv
<1>5. ASSUME NEW d \in Events
      PROVE  OffsetOf[d] \in 1..m.offset <=> \E r \in rows : r.event = d /\ r.offset <= m.offset
  <2>1. CASE Stored(d)
    <3>1. PICK r \in rows : r.event = d
      BY <2>1 DEF Stored
    <3>2. \A s \in rows : s.event = d => s = r
      BY <3>1 DEF OrderInv, StoreInv, KeyIsUnique
    <3>3. OffsetOf[d] = r.offset
      BY <1>4, <3>1, OffsetOfRow
    <3> QED BY <1>3, <3>1, <3>2, <3>3
  <2>2. CASE ~Stored(d)
    BY <1>4, <2>2, OffsetOfRow DEF Stored
  <2> QED BY <2>1, <2>2
<1>6. received' = {d \in Events : OffsetOf[d] \in 1..OffsetOf[m.event]}
  BY <1>1, <1>2, <1>4, <1>5
<1>7. OffsetOf' = OffsetOf
  BY DEF Replay, database, OffsetOf, Stored
<1>8. Feed!ReadUpTo(m.event)
  BY <1>1, <1>4, <1>6, <1>7 DEF Feed!ReadUpTo
<1> QED BY <1>4, <1>8 DEF Feed!Next

(* As long as inserts come one after the other, each step of the log is a    *)
(* step of the feed or leaves it as it is.                                   *)
THEOREM LogImplementsFeed == Spec => ImplementsFeed
<1>1. Init => Feed!Init
  BY FeedInit
<1>2. OrderInv /\ [Next]_vars => (InOrder' => Feed!Next \/ UNCHANGED Feed!feed)
  <2> SUFFICES ASSUME OrderInv, [Next]_vars, InOrder' PROVE Feed!Next \/ UNCHANGED Feed!feed
    OBVIOUS
  <2>1. InOrder /\ ~ReplayFails
    BY OrderIsHistory DEF OrderInv, StoreInv
  <2>2. CASE \E h \in Handlers : Commit(h)
    BY <2>1, <2>2, FeedPublish
  <2>3. CASE Replay
    BY <2>1, <2>3, FeedRead
  <2>4. CASE ~Replay /\ ~ \E h \in Handlers : Commit(h)
    <3>1. rows' = rows
      BY <2>4 DEF Next, Handle, Database, Inserted, Conflict, Lookup, Claim, Rollback, StoreFails, PublishEvent,
                  PublishDegraded, Restart, ReplayFails, vars, database
    <3>2. UNCHANGED <<cursor, received>>
      BY <2>1, <2>4, FollowerStays
    <3>3. OffsetOf' = OffsetOf
      BY <3>1 DEF OffsetOf, Stored
    <3> QED BY <3>2, <3>3 DEF Feed!feed
  <2> QED BY <2>2, <2>3, <2>4
<1> QED BY <1>1, <1>2, OrderAlways, PTL DEF Spec, ImplementsFeed
=============================================================================
