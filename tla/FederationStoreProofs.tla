----------------------- MODULE FederationStoreProofs ------------------------
(***************************************************************************)
(* Proofs about what the COP API keeps in its federation store: the dead    *)
(* letters (DeadLetters), for any letters, operators and requests, and the  *)
(* replay cursor of an edge node (ReplayCursor), for any handlers and        *)
(* offsets; both for any number of store errors and restarts.  The two       *)
(* share what FederationStore describes, and nothing that is proved of one   *)
(* depends on the other.                                                    *)
(***************************************************************************)
EXTENDS DeadLetters, ReplayCursor, FiniteSetTheorems, TLAPS

USE FederationStoreAssumption, LetterAssumption, CursorAssumption

Requests == RejectType \cup CloseType \cup PublishedType \cup UpdatedType \cup ResolvedType

EventsOf(l) == {e \in published : e[1] = l}

-----------------------------------------------------------------------------
(* Facts about the data.                                                     *)

LEMMA IdleAt == Idle.at = "idle"
BY DEF Idle

\* A request at a step has the fields of that step.
LEMMA RequestAtStep ==
  ASSUME TypeOK, NEW h \in Handlers
  PROVE  /\ req[h] = Idle \/ req[h] \in Requests
         /\ req[h] = Idle <=> req[h].at = "idle"
         /\ req[h].at \in {"reject", "rejected"} => req[h] \in RejectType
         /\ req[h].at \in {"redrive", "resolve"} => req[h] \in CloseType
         /\ req[h].at = "published" => req[h] \in PublishedType
         /\ req[h].at = "updated" => req[h] \in UpdatedType
         /\ req[h].at = "resolved" => req[h] \in ResolvedType
         /\ req[h] # Idle => req[h].letter \in Letters
BY IdleAt DEF TypeOK, Requests, RejectType, CloseType, PublishedType, UpdatedType, ResolvedType

LEMMA OpenIsRecord == Open \in LetterRecords /\ Open.retries = 0 /\ Open.closedBy = None
BY DEF Open, LetterRecords

\* What a re-drive and a resolution make of a letter.
LEMMA RedrivenFields ==
  ASSUME NEW letter \in LetterRecords, NEW by \in Operators
  PROVE  /\ Redriven(letter, by) \in LetterRecords
         /\ Redriven(letter, by).retries = letter.retries + 1
         /\ letter.closedBy # None => Redriven(letter, by).closedBy = letter.closedBy
BY DEF Redriven, FirstCloser, LetterRecords

LEMMA ResolvedFields ==
  ASSUME NEW letter \in LetterRecords, NEW by \in Operators
  PROVE  /\ Resolved(letter, by) \in LetterRecords
         /\ Resolved(letter, by).retries = letter.retries
         /\ letter.closedBy # None => Resolved(letter, by).closedBy = letter.closedBy
<1>1. FirstCloser(letter, by) \in Operators \cup {None}
      /\ (letter.closedBy # None => FirstCloser(letter, by) = letter.closedBy)
  BY DEF FirstCloser, LetterRecords
<1> HIDE DEF FirstCloser
<1> QED BY <1>1 DEF Resolved, LetterRecords

-----------------------------------------------------------------------------
(* What requests know of the queue and of the log.                           *)

Finite == IsFiniteSet(published) /\ IsFiniteSet(known)

\* A letter that is being rejected is nobody else's, and any other request's
\* letter is in the queue.  A letter's event is in the log before its update.
Queued ==
  \A h \in Handlers : req[h] # Idle =>
    /\ req[h].at = "reject" =>
         /\ req[h].letter \notin DOMAIN table
         /\ \A g \in Handlers \ {h} : req[g] # Idle => req[g].letter # req[h].letter
    /\ req[h].at # "reject" => req[h].letter \in DOMAIN table
    /\ req[h].at \in {"published", "updated"} => req[h].event \in EventsOf(req[h].letter)

QueueInv == TypeOK /\ Finite /\ Queued

LEMMA PublicationFields ==
  ASSUME TypeOK, Finite, NEW l \in Letters
  PROVE  Publication(l) \in Letters \X Nat /\ Publication(l)[1] = l
<1>1. IsFiniteSet(published \cup known)
  BY FS_Union DEF Finite
<1>2. Publications(l) \in SUBSET (published \cup known)
  BY DEF Publications
<1>3. IsFiniteSet(Publications(l))
  BY <1>1, <1>2, FS_Subset
<1>4. Cardinality(Publications(l)) \in Nat
  BY <1>3, FS_CardinalityType
<1> QED BY <1>4 DEF Publication

\* The three steps that write for an operator.
LEMMA PublishFields ==
  ASSUME QueueInv, NEW h \in Handlers, PublishLetter(h)
  PROVE  /\ req[h] \in CloseType /\ req[h] # Idle /\ req[h].at = "redrive"
         /\ req'[h] \in PublishedType /\ req'[h].at = "published" /\ req'[h].letter = req[h].letter
         /\ req'[h].event = Publication(req[h].letter)
         /\ \A g \in Handlers \ {h} : req'[g] = req[g]
<1>1. req[h] \in CloseType /\ req[h].at = "redrive" /\ req[h] # Idle
  BY IdleAt, RequestAtStep DEF QueueInv, PublishLetter
<1> DEFINE x == [at |-> "published", letter |-> req[h].letter, by |-> req[h].by,
                 event |-> Publication(req[h].letter)]
<1>2. Publication(req[h].letter) \in Letters \X Nat /\ req[h].letter \in Letters /\ req[h].by \in Operators
  BY <1>1, PublicationFields DEF QueueInv, CloseType
<1>3. x \in PublishedType /\ x.at = "published" /\ x.letter = req[h].letter /\ x.event = Publication(req[h].letter)
  BY <1>2 DEF PublishedType
<1>4. req' = [req EXCEPT ![h] = x] /\ req \in [Handlers -> {Idle} \cup Requests]
  BY DEF PublishLetter, QueueInv, TypeOK, Requests
<1> HIDE DEF x
<1>5. req'[h] = x /\ \A g \in Handlers \ {h} : req'[g] = req[g]
  BY <1>4
<1> QED BY <1>1, <1>3, <1>5

LEMMA UpdateFields ==
  ASSUME QueueInv, NEW h \in Handlers, UpdateRedriven(h)
  PROVE  LET l == req[h].letter IN
         /\ req[h] \in PublishedType /\ req[h] # Idle /\ req[h].at = "published"
         /\ l \in DOMAIN table /\ table' = [table EXCEPT ![l] = Redriven(table[l], req[h].by)]
         /\ table[l] \in LetterRecords /\ req[h].by \in Operators
         /\ req'[h] \in UpdatedType /\ req'[h].at = "updated" /\ req'[h].letter = l
         /\ req'[h].event = req[h].event /\ req'[h].result = table'[l]
         /\ \A g \in Handlers \ {h} : req'[g] = req[g]
<1>1. req[h] \in PublishedType /\ req[h].at = "published" /\ req[h] # Idle
  BY IdleAt, RequestAtStep DEF QueueInv, UpdateRedriven
<1> DEFINE l == req[h].letter
           x == [at |-> "updated", letter |-> req[h].letter, by |-> req[h].by,
                 event |-> req[h].event, result |-> table'[l]]
<1>2. l \in Letters /\ req[h].by \in Operators /\ req[h].event \in Letters \X Nat
  BY <1>1 DEF PublishedType
<1>3. l \in DOMAIN table /\ table[l] \in LetterRecords
  BY <1>1 DEF QueueInv, Queued, TypeOK
<1>4. table' = [table EXCEPT ![l] = Redriven(table[l], req[h].by)]
  BY DEF UpdateRedriven
<1>5. table'[l] \in LetterRecords
  BY <1>2, <1>3, <1>4, RedrivenFields
<1>6. x \in UpdatedType /\ x.at = "updated" /\ x.letter = l /\ x.event = req[h].event /\ x.result = table'[l]
  BY <1>2, <1>5 DEF UpdatedType
<1>7. req' = [req EXCEPT ![h] = x] /\ req \in [Handlers -> {Idle} \cup Requests]
  BY DEF UpdateRedriven, QueueInv, TypeOK, Requests
<1> HIDE DEF x
<1>8. req'[h] = x /\ \A g \in Handlers \ {h} : req'[g] = req[g]
  BY <1>7
<1> QED BY <1>1, <1>2, <1>3, <1>4, <1>6, <1>8

LEMMA ResolveFields ==
  ASSUME QueueInv, NEW h \in Handlers, UpdateResolved(h)
  PROVE  LET l == req[h].letter IN
         /\ req[h] # Idle /\ req[h].at = "resolve"
         /\ l \in DOMAIN table /\ table' = [table EXCEPT ![l] = Resolved(table[l], req[h].by)]
         /\ table[l] \in LetterRecords /\ req[h].by \in Operators
         /\ req'[h] \in ResolvedType /\ req'[h].at = "resolved" /\ req'[h].letter = l
         /\ req'[h].result = table'[l]
         /\ \A g \in Handlers \ {h} : req'[g] = req[g]
<1>1. req[h] \in CloseType /\ req[h].at = "resolve" /\ req[h] # Idle
  BY IdleAt, RequestAtStep DEF QueueInv, UpdateResolved
<1> DEFINE l == req[h].letter
           x == [at |-> "resolved", letter |-> req[h].letter, by |-> req[h].by, result |-> table'[l]]
<1>2. l \in Letters /\ req[h].by \in Operators
  BY <1>1 DEF CloseType
<1>3. l \in DOMAIN table /\ table[l] \in LetterRecords
  BY <1>1 DEF QueueInv, Queued, TypeOK
<1>4. table' = [table EXCEPT ![l] = Resolved(table[l], req[h].by)]
  BY DEF UpdateResolved
<1>5. table'[l] \in LetterRecords
  BY <1>2, <1>3, <1>4, ResolvedFields
<1>6. x \in ResolvedType /\ x.at = "resolved" /\ x.letter = l /\ x.result = table'[l]
  BY <1>2, <1>5 DEF ResolvedType
<1>7. req' = [req EXCEPT ![h] = x] /\ req \in [Handlers -> {Idle} \cup Requests]
  BY DEF UpdateResolved, QueueInv, TypeOK, Requests
<1> HIDE DEF x
<1>8. req'[h] = x /\ \A g \in Handlers \ {h} : req'[g] = req[g]
  BY <1>7
<1> QED BY <1>1, <1>2, <1>3, <1>4, <1>6, <1>8

\* The rejected letter is stored.
LEMMA InsertFields ==
  ASSUME QueueInv, NEW h \in Handlers, InsertLetter(h)
  PROVE  LET l == req[h].letter IN
         /\ req[h] # Idle /\ req[h].at = "reject"
         /\ l \in Letters \ DOMAIN table
         /\ DOMAIN table' = DOMAIN table \cup {l} /\ table'[l] = Open
         /\ \A k \in DOMAIN table : table'[k] = table[k]
         /\ req'[h] \in RejectType /\ req'[h].at = "rejected" /\ req'[h].letter = l
         /\ \A g \in Handlers \ {h} : req'[g] = req[g]
<1>1. req[h] \in RejectType /\ req[h].at = "reject" /\ req[h] # Idle
  BY IdleAt, RequestAtStep DEF QueueInv, InsertLetter
<1> DEFINE x == [req[h] EXCEPT !.at = "rejected"]
<1>2. x \in RejectType /\ x.at = "rejected" /\ x.letter = req[h].letter /\ req[h].letter \in Letters
  BY <1>1 DEF RejectType
<1>3. req[h].letter \notin DOMAIN table
  BY <1>1 DEF QueueInv, Queued
<1>4. table' = With(table, req[h].letter, Open)
  BY DEF InsertLetter
<1>5. req' = [req EXCEPT ![h] = x] /\ req \in [Handlers -> {Idle} \cup Requests]
  BY DEF InsertLetter, GoTo, QueueInv, TypeOK, Requests
<1> HIDE DEF x
<1>6. req'[h] = x /\ \A g \in Handlers \ {h} : req'[g] = req[g]
  BY <1>5
<1>7. /\ DOMAIN table' = DOMAIN table \cup {req[h].letter} /\ table'[req[h].letter] = Open
      /\ \A k \in DOMAIN table : table'[k] = table[k]
  BY <1>3, <1>4 DEF With
<1> QED BY <1>1, <1>2, <1>3, <1>6, <1>7

-----------------------------------------------------------------------------
LEMMA TypeInit == Init => TypeOK
<1> SUFFICES ASSUME Init PROVE TypeOK
  OBVIOUS
<1>1. DOMAIN Empty = {}
  BY DEF Empty
<1> QED BY <1>1 DEF Init, TypeOK, StoreInit

\* An entry of the copies.
LEMMA CopiesType ==
  ASSUME TypeOK, NEW l \in Letters, NEW v \in LetterRecords,
         copies' \in {copies, With(copies, l, v), [copies EXCEPT ![l] = v]}
  PROVE  DOMAIN copies' \subseteq Letters /\ \A k \in DOMAIN copies' : copies'[k] \in LetterRecords
<1>1. CASE copies' = copies
  BY <1>1 DEF TypeOK
<1>2. CASE copies' = With(copies, l, v)
  BY <1>2 DEF TypeOK, With
<1>3. CASE copies' = [copies EXCEPT ![l] = v]
  BY <1>3 DEF TypeOK
<1> QED BY <1>1, <1>2, <1>3

\* What an operation makes of the memory of the process.
LEMMA MemoryType ==
  ASSUME QueueInv, NEW l \in Letters, NEW by \in Operators,
         RedriveInMemory(l, by) \/ ResolveInMemory(l, by)
  PROVE  /\ DOMAIN copies' \subseteq Letters /\ \A k \in DOMAIN copies' : copies'[k] \in LetterRecords
         /\ known' \subseteq Letters \X Nat /\ IsFiniteSet(known')
<1>0. TypeOK /\ Finite
  BY DEF QueueInv
<1>1. known' = known \/ known' = known \cup {Publication(l)}
  BY DEF RedriveInMemory, ResolveInMemory
<1>2. known' \subseteq Letters \X Nat
  BY <1>0, <1>1, PublicationFields DEF TypeOK
<1>3. IsFiniteSet(known')
  BY <1>0, <1>1, FS_AddElement DEF Finite
<1>4. CASE l \in DOMAIN copies
  <2>1. PICK v \in LetterRecords : copies' = [copies EXCEPT ![l] = v]
    <3>1. copies[l] \in LetterRecords
      BY <1>0, <1>4 DEF TypeOK
    <3>2. Redriven(copies[l], by) \in LetterRecords /\ Resolved(copies[l], by) \in LetterRecords
      BY <3>1, RedrivenFields, ResolvedFields
    <3> QED BY <1>4, <3>2 DEF RedriveInMemory, ResolveInMemory
  <2>2. DOMAIN copies' \subseteq Letters /\ \A k \in DOMAIN copies' : copies'[k] \in LetterRecords
    BY <1>0, <2>1, CopiesType
  <2> QED BY <1>2, <1>3, <2>2
<1>5. CASE l \notin DOMAIN copies
  <2>1. copies' = copies
    BY <1>5 DEF RedriveInMemory, ResolveInMemory
  <2> QED BY <1>0, <1>2, <1>3, <2>1 DEF TypeOK
<1> QED BY <1>4, <1>5

LEMMA RejectMemoryType ==
  ASSUME QueueInv, RejectInMemory
  PROVE  /\ DOMAIN copies' \subseteq Letters /\ \A k \in DOMAIN copies' : copies'[k] \in LetterRecords
         /\ rejected' \subseteq Letters /\ known' = known
<1>1. PICK l \in Letters : copies' = With(copies, l, Open) /\ rejected' = rejected \cup {l}
  BY DEF RejectInMemory
<1>2. DOMAIN copies' \subseteq Letters /\ \A k \in DOMAIN copies' : copies'[k] \in LetterRecords
  BY <1>1, CopiesType, OpenIsRecord DEF QueueInv
<1> QED BY <1>1, <1>2 DEF RejectInMemory, QueueInv, TypeOK

\* The answer of an update becomes the copy.
LEMMA AnswerType ==
  ASSUME QueueInv, NEW h \in Handlers, RedriveAnswered(h) \/ ResolveAnswered(h)
  PROVE  /\ DOMAIN copies' \subseteq Letters /\ \A k \in DOMAIN copies' : copies'[k] \in LetterRecords
         /\ known' \subseteq Letters \X Nat /\ IsFiniteSet(known')
         /\ \A e \in known' : e \in known \/ (RedriveAnswered(h) /\ e = req[h].event)
<1>0. TypeOK /\ Finite
  BY DEF QueueInv
<1>1. req[h] \in UpdatedType \/ req[h] \in ResolvedType
  BY <1>0, RequestAtStep DEF RedriveAnswered, ResolveAnswered
<1>2. req[h].letter \in Letters /\ req[h].result \in LetterRecords
  BY <1>1 DEF UpdatedType, ResolvedType
<1>3. copies' = With(copies, req[h].letter, req[h].result)
  BY DEF RedriveAnswered, ResolveAnswered
<1>4. DOMAIN copies' \subseteq Letters /\ \A k \in DOMAIN copies' : copies'[k] \in LetterRecords
  BY <1>0, <1>2, <1>3, CopiesType
<1>5. CASE RedriveAnswered(h)
  <2>1. req[h].event \in Letters \X Nat
    BY <1>0, <1>5, RequestAtStep DEF RedriveAnswered, UpdatedType
  <2>2. known' = known \cup {req[h].event}
    BY <1>5 DEF RedriveAnswered
  <2>3. IsFiniteSet(known')
    BY <1>0, <2>2, FS_AddElement DEF Finite
  <2> QED BY <1>0, <1>4, <1>5, <2>1, <2>2, <2>3 DEF TypeOK
<1>6. CASE ResolveAnswered(h)
  BY <1>0, <1>4, <1>6 DEF ResolveAnswered, TypeOK, Finite
<1> QED BY <1>5, <1>6

LEMMA TypeStep == QueueInv /\ [Next]_vars => TypeOK'
<1> SUFFICES ASSUME QueueInv, [Next]_vars PROVE TypeOK'
  OBVIOUS
<1> USE DEF store, process, aux, bounds
<1>0. TypeOK /\ Finite /\ req \in [Handlers -> {Idle} \cup Requests]
  BY DEF QueueInv, TypeOK, Requests
<1> DEFINE ReqOK == req \in [Handlers -> {Idle} \cup RejectType \cup CloseType \cup PublishedType
                                           \cup UpdatedType \cup ResolvedType]
           CopiesOK == DOMAIN copies \subseteq Letters /\ \A l \in DOMAIN copies : copies[l] \in LetterRecords
           TableOK == DOMAIN table \subseteq Letters /\ \A l \in DOMAIN table : table[l] \in LetterRecords
<1>1. ASSUME NEW h \in Handlers, NEW x \in {Idle} \cup Requests, req' = [req EXCEPT ![h] = x] PROVE ReqOK'
  BY <1>0, <1>1 DEF Requests
<1>2. ASSUME NEW h \in Handlers, NEW x \in Requests, Begin(h, x) PROVE ReqOK' /\ overlapped' \in BOOLEAN
  <2>1. ReqOK'
    BY <1>1, <1>2 DEF Begin
  <2>2. overlapped' \in BOOLEAN
    BY <1>0, <1>2 DEF Begin, TypeOK
  <2> QED BY <2>1, <2>2
<1>3. ASSUME NEW h \in Handlers, Finish(h) PROVE ReqOK'
  BY <1>1, <1>3 DEF Finish
<1>4. ASSUME NEW h \in Handlers, NEW l \in Letters, Reject(h, l) PROVE TypeOK'
  <2>1. [at |-> "reject", letter |-> l, by |-> None] \in Requests
    BY DEF Requests, RejectType
  <2>2. ReqOK' /\ overlapped' \in BOOLEAN
    BY <1>2, <1>4, <2>1 DEF Reject
  <2> QED BY <1>0, <1>4, <2>2 DEF Reject, TypeOK
<1>5. ASSUME NEW h \in Handlers, NEW l \in Letters, NEW by \in Operators, Redrive(h, l, by) PROVE TypeOK'
  <2>1. [at |-> "redrive", letter |-> l, by |-> by] \in Requests
    BY DEF Requests, CloseType
  <2>2. ReqOK' /\ overlapped' \in BOOLEAN
    BY <1>2, <1>5, <2>1 DEF Redrive
  <2>3. table[l] \in LetterRecords
    BY <1>0, <1>5 DEF Redrive, TypeOK
  <2>4. CopiesOK'
    BY <1>0, <1>5, <2>3, CopiesType DEF Redrive
  <2> QED BY <1>0, <1>5, <2>2, <2>4 DEF Redrive, TypeOK
<1>6. ASSUME NEW h \in Handlers, NEW l \in Letters, NEW by \in Operators, Resolve(h, l, by) PROVE TypeOK'
  <2>1. [at |-> "resolve", letter |-> l, by |-> by] \in Requests
    BY DEF Requests, CloseType
  <2>2. ReqOK' /\ overlapped' \in BOOLEAN
    BY <1>2, <1>6, <2>1 DEF Resolve
  <2> QED BY <1>0, <1>6, <2>2 DEF Resolve, TypeOK
<1>7. ASSUME NEW h \in Handlers, req'[h] \in Requests, \A g \in Handlers \ {h} : req'[g] = req[g],
             NEW x, req' = [req EXCEPT ![h] = x]
      PROVE  ReqOK'
  <2>1. req'[h] = x
    BY <1>0, <1>7
  <2> QED BY <1>1, <1>7, <2>1
<1>8. ASSUME NEW h \in Handlers, InsertLetter(h) PROVE TypeOK'
  <2>0. req' = [req EXCEPT ![h] = [req[h] EXCEPT !.at = "rejected"]]
    BY <1>8 DEF InsertLetter, GoTo
  <2>1. ReqOK'
    <3> DEFINE x == [req[h] EXCEPT !.at = "rejected"]
    <3>1. req' = [req EXCEPT ![h] = x] /\ req'[h] \in Requests /\ \A g \in Handlers \ {h} : req'[g] = req[g]
      BY <1>8, <2>0, InsertFields DEF Requests
    <3> HIDE DEF x
    <3> QED BY <1>7, <3>1
  <2>2. TableOK'
    <3>1. PICK l \in Letters : /\ DOMAIN table' = DOMAIN table \cup {l} /\ table'[l] = Open
                              /\ \A k \in DOMAIN table : table'[k] = table[k]
      BY <1>8, InsertFields
    <3>2. ASSUME NEW k \in DOMAIN table' PROVE table'[k] \in LetterRecords
      BY <1>0, <3>1, OpenIsRecord DEF TypeOK
    <3>3. DOMAIN table' \subseteq Letters
      BY <1>0, <3>1 DEF TypeOK
    <3> QED BY <3>2, <3>3
  <2> QED BY <1>0, <1>8, <2>1, <2>2 DEF InsertLetter, TypeOK
<1>9. ASSUME NEW h \in Handlers, RejectAnswered(h) PROVE TypeOK'
  <2>1. req[h].letter \in Letters
    BY <1>0, <1>9, IdleAt, RequestAtStep DEF RejectAnswered
  <2>2. CopiesOK' /\ rejected' \subseteq Letters
    BY <1>0, <1>9, <2>1, CopiesType, OpenIsRecord DEF RejectAnswered, TypeOK
  <2>3. ReqOK'
    BY <1>3, <1>9 DEF RejectAnswered
  <2> QED BY <1>0, <1>9, <2>2, <2>3 DEF RejectAnswered, TypeOK
<1>10. ASSUME NEW h \in Handlers, PublishLetter(h) PROVE TypeOK'
  <2>1. ReqOK'
    BY <1>7, <1>10, PublishFields DEF PublishLetter, Requests
  <2>2. Publication(req[h].letter) \in Letters \X Nat
    BY <1>0, <1>10, PublishFields, PublicationFields DEF CloseType
  <2> QED BY <1>0, <1>10, <2>1, <2>2 DEF PublishLetter, TypeOK
<1>11. ASSUME NEW h \in Handlers, UpdateRedriven(h) PROVE TypeOK'
  <2>1. ReqOK'
    BY <1>7, <1>11, UpdateFields DEF UpdateRedriven, Requests
  <2>2. PICK l \in DOMAIN table, v \in LetterRecords : table' = [table EXCEPT ![l] = v]
    BY <1>11, UpdateFields, RedrivenFields
  <2>3. TableOK'
    BY <1>0, <2>2 DEF TypeOK
  <2> QED BY <1>0, <1>11, <2>1, <2>3 DEF UpdateRedriven, TypeOK
<1>12. ASSUME NEW h \in Handlers, UpdateResolved(h) PROVE TypeOK'
  <2>1. ReqOK'
    BY <1>7, <1>12, ResolveFields DEF UpdateResolved, Requests
  <2>2. PICK l \in DOMAIN table, v \in LetterRecords : table' = [table EXCEPT ![l] = v]
    BY <1>12, ResolveFields, ResolvedFields
  <2>3. TableOK'
    BY <1>0, <2>2 DEF TypeOK
  <2> QED BY <1>0, <1>12, <2>1, <2>3 DEF UpdateResolved, TypeOK
<1>13. ASSUME NEW h \in Handlers, RedriveAnswered(h) \/ ResolveAnswered(h) PROVE TypeOK'
  <2>1. ReqOK'
    BY <1>3, <1>13 DEF RedriveAnswered, ResolveAnswered
  <2>2. CopiesOK' /\ known' \subseteq Letters \X Nat
    BY <1>13, AnswerType
  <2>3. UNCHANGED <<table, published, status, rejected, fellBack, overlapped, faults, restarts>>
    BY <1>13 DEF RedriveAnswered, ResolveAnswered
  <2> QED BY <1>0, <2>1, <2>2, <2>3 DEF TypeOK
<1>14. ASSUME NEW h \in Handlers, StoreFails(h) PROVE TypeOK'
  <2>1. ReqOK'
    BY <1>3, <1>14 DEF StoreFails
  <2>2. CopiesOK' /\ known' \subseteq Letters \X Nat /\ rejected' \subseteq Letters
    <3>1. CASE req[h].at \in {"reject", "rejected"}
      BY <1>0, <1>14, <3>1, RejectMemoryType DEF StoreFails, TypeOK
    <3>2. CASE req[h].at \notin {"reject", "rejected"}
      <4>1. req[h] \in CloseType \cup PublishedType \cup UpdatedType \cup ResolvedType
        BY <1>0, <1>14, <3>2, RequestAtStep DEF StoreFails
      <4>2. req[h].letter \in Letters /\ req[h].by \in Operators
        BY <4>1 DEF CloseType, PublishedType, UpdatedType, ResolvedType
      <4>3. (RedriveInMemory(req[h].letter, req[h].by) \/ ResolveInMemory(req[h].letter, req[h].by))
            /\ rejected' = rejected
        BY <1>14, <3>2 DEF StoreFails
      <4> QED BY <1>0, <4>2, <4>3, MemoryType DEF TypeOK
    <3> QED BY <3>1, <3>2
  <2>3. UNCHANGED <<table, published, overlapped, restarts>> /\ status' = "degraded" /\ fellBack' = TRUE
        /\ faults' = faults + 1
    BY <1>14 DEF StoreFails, MarkDegraded
  <2> QED BY <1>0, <2>1, <2>2, <2>3 DEF TypeOK
<1>15. ASSUME NEW h \in Handlers, RedriveDegraded(h) PROVE TypeOK'
  <2>1. req[h].letter \in Letters /\ req[h].by \in Operators
    BY <1>0, <1>15, RequestAtStep DEF RedriveDegraded, CloseType
  <2>2. CopiesOK' /\ known' \subseteq Letters \X Nat
    BY <1>15, <2>1, MemoryType DEF RedriveDegraded
  <2>3. ReqOK'
    BY <1>3, <1>15 DEF RedriveDegraded
  <2> QED BY <1>0, <1>15, <2>2, <2>3 DEF RedriveDegraded, TypeOK
<1>16. ASSUME NEW h \in Handlers, NEW l \in Letters, NEW by \in Operators, OperateDegraded(h, l, by) PROVE TypeOK'
  <2>1. CopiesOK' /\ known' \subseteq Letters \X Nat
    BY <1>16, MemoryType DEF OperateDegraded
  <2> QED BY <1>0, <1>16, <2>1 DEF OperateDegraded, TypeOK
<1>19. CASE RejectDegraded
  <2>1. CopiesOK' /\ known' = known /\ rejected' \subseteq Letters
    BY <1>19, RejectMemoryType DEF RejectDegraded
  <2> QED BY <1>0, <1>19, <2>1 DEF RejectDegraded, TypeOK
<1>17. CASE Restart
  <2>1. CopiesOK' /\ known' = {}
    BY <1>17 DEF Restart, Empty, NewProcess
  <2>2. ReqOK'
    BY <1>17 DEF Restart, NewProcess
  <2>3. status' \in {"ok", "degraded"} /\ fellBack' \in BOOLEAN /\ faults' \in Nat /\ restarts' \in Nat
    BY <1>0, <1>17 DEF Restart, TypeOK, NewProcess
  <2> QED BY <1>0, <1>17, <2>1, <2>2, <2>3 DEF Restart, TypeOK, NewProcess
<1>18. CASE UNCHANGED vars
  BY <1>0, <1>18 DEF vars, TypeOK
<1> QED
  BY <1>4, <1>5, <1>6, <1>8, <1>9, <1>10, <1>11, <1>12, <1>13, <1>14, <1>15, <1>16, <1>17, <1>18, <1>19 DEF Next, Handle

LEMMA FiniteStep == QueueInv /\ [Next]_vars => Finite'
<1> SUFFICES ASSUME QueueInv, [Next]_vars PROVE Finite'
  OBVIOUS
<1> USE DEF store, process, aux, bounds
<1>0. TypeOK /\ Finite
  BY DEF QueueInv
<1>1. ASSUME NEW h \in Handlers, PublishLetter(h) PROVE Finite'
  BY <1>0, <1>1, FS_AddElement DEF PublishLetter, Finite
<1>2. ASSUME NEW h \in Handlers, RedriveAnswered(h) \/ ResolveAnswered(h) PROVE Finite'
  <2>1. published' = published
    BY <1>2 DEF RedriveAnswered, ResolveAnswered
  <2> QED BY <1>0, <1>2, <2>1, AnswerType DEF Finite
<1>3. ASSUME NEW h \in Handlers, StoreFails(h) PROVE Finite'
  <2>1. CASE req[h].at \in {"reject", "rejected"}
    BY <1>0, <1>3, <2>1 DEF StoreFails, RejectInMemory, Finite
  <2>2. CASE req[h].at \notin {"reject", "rejected"}
    <3>1. req[h] \in CloseType \cup PublishedType \cup UpdatedType \cup ResolvedType
      BY <1>0, <1>3, <2>2, RequestAtStep DEF StoreFails
    <3>2. req[h].letter \in Letters /\ req[h].by \in Operators
      BY <3>1 DEF CloseType, PublishedType, UpdatedType, ResolvedType
    <3>3. RedriveInMemory(req[h].letter, req[h].by) \/ ResolveInMemory(req[h].letter, req[h].by)
      BY <1>3, <2>2 DEF StoreFails
    <3>4. published' = published
      BY <1>3 DEF StoreFails
    <3> QED BY <1>0, <3>2, <3>3, <3>4, MemoryType DEF Finite
  <2> QED BY <2>1, <2>2
<1>4. ASSUME NEW h \in Handlers, RedriveDegraded(h) PROVE Finite'
  <2>1. req[h].letter \in Letters /\ req[h].by \in Operators
    BY <1>0, <1>4, RequestAtStep DEF RedriveDegraded, CloseType
  <2>2. published' = published /\ RedriveInMemory(req[h].letter, req[h].by)
    BY <1>4 DEF RedriveDegraded
  <2> QED BY <1>0, <2>1, <2>2, MemoryType DEF Finite
<1>5. ASSUME NEW h \in Handlers, NEW l \in Letters, NEW by \in Operators, OperateDegraded(h, l, by) PROVE Finite'
  BY <1>0, <1>5, MemoryType DEF OperateDegraded, Finite
<1>6. CASE Restart
  BY <1>0, <1>6, FS_EmptySet DEF Restart, Finite, NewProcess
<1>7. CASE UNCHANGED <<published, known>>
  BY <1>0, <1>7 DEF Finite
<1>8. ASSUME NEW h \in Handlers,
             \/ InsertLetter(h) \/ RejectAnswered(h) \/ UpdateRedriven(h) \/ UpdateResolved(h)
             \/ \E l \in Letters : Reject(h, l)
             \/ \E l \in Letters, by \in Operators : Redrive(h, l, by) \/ Resolve(h, l, by)
      PROVE  Finite'
  BY <1>7, <1>8 DEF InsertLetter, RejectAnswered, UpdateRedriven, UpdateResolved, Reject, Redrive, Resolve
<1>9. CASE RejectDegraded
  BY <1>7, <1>9 DEF RejectDegraded, RejectInMemory
<1> QED BY <1>1, <1>2, <1>3, <1>4, <1>5, <1>6, <1>7, <1>8, <1>9 DEF Next, Handle, vars

\* A request that ends, or that takes its first step, with the store as it was.
LEMMA QueuedFinish ==
  ASSUME QueueInv, NEW h \in Handlers, Finish(h), UNCHANGED store
  PROVE  Queued'
<1>1. req'[h] = Idle /\ \A g \in Handlers \ {h} : req'[g] = req[g]
  BY DEF Finish, QueueInv, TypeOK
<1>2. UNCHANGED <<table, published>>
  BY DEF store
<1> QED BY <1>1, <1>2 DEF QueueInv, Queued, EventsOf

LEMMA QueuedBegin ==
  ASSUME QueueInv, NEW h \in Handlers, NEW x \in Requests, Begin(h, x), UNCHANGED store,
         x.at \in {"reject", "redrive", "resolve"},
         x.at = "reject" => /\ x.letter \notin DOMAIN table
                            /\ \A g \in Handlers : req[g] # Idle => req[g].letter # x.letter,
         x.at # "reject" => x.letter \in DOMAIN table
  PROVE  Queued'
<1>1. req'[h] = x /\ (\A g \in Handlers \ {h} : req'[g] = req[g]) /\ req[h] = Idle
  BY DEF Begin, QueueInv, TypeOK
<1>2. UNCHANGED <<table, published>>
  BY DEF store
<1>3. ASSUME NEW g \in Handlers, req'[g] # Idle, g # h PROVE req'[g].at = "reject" => req'[g].letter # x.letter
  BY <1>1, <1>3 DEF QueueInv, Queued
<1>4. ASSUME NEW g \in Handlers, req'[g] # Idle
      PROVE  /\ req'[g].at = "reject" =>
                  /\ req'[g].letter \notin DOMAIN table'
                  /\ \A k \in Handlers \ {g} : req'[k] # Idle => req'[k].letter # req'[g].letter
             /\ req'[g].at # "reject" => req'[g].letter \in DOMAIN table'
             /\ req'[g].at \in {"published", "updated"} => req'[g].event \in {e \in published' : e[1] = req'[g].letter}
  <2>1. CASE g = h
    BY <1>1, <1>2, <2>1
  <2>2. CASE g # h
    BY <1>1, <1>2, <1>3, <1>4, <2>2 DEF QueueInv, Queued, EventsOf
  <2> QED BY <2>1, <2>2
<1> QED BY <1>4 DEF Queued, EventsOf

LEMMA QueuedStep == QueueInv /\ [Next]_vars => Queued'
<1> SUFFICES ASSUME QueueInv, [Next]_vars PROVE Queued'
  OBVIOUS
<1> USE DEF store, process, aux, bounds
<1>0. TypeOK /\ Finite /\ Queued
  BY DEF QueueInv
<1>1. ASSUME NEW h \in Handlers, NEW l \in Letters, Reject(h, l) PROVE Queued'
  <2> DEFINE x == [at |-> "reject", letter |-> l, by |-> None]
  <2>1. x \in Requests /\ x.at = "reject" /\ x.letter = l
    BY DEF Requests, RejectType
  <2>2. Begin(h, x) /\ UNCHANGED store /\ l \notin DOMAIN table
        /\ \A g \in Handlers : req[g] # Idle => req[g].letter # l
    BY <1>1 DEF Reject
  <2> HIDE DEF x
  <2> QED BY <2>1, <2>2, QueuedBegin
<1>2. ASSUME NEW h \in Handlers, NEW l \in Letters, NEW by \in Operators, Redrive(h, l, by) \/ Resolve(h, l, by)
      PROVE  Queued'
  <2>1. PICK at \in {"redrive", "resolve"} : Begin(h, [at |-> at, letter |-> l, by |-> by])
    BY <1>2 DEF Redrive, Resolve
  <2> DEFINE x == [at |-> at, letter |-> l, by |-> by]
  <2>2. x \in Requests /\ x.at = at /\ x.letter = l
    BY DEF Requests, CloseType
  <2>3. Begin(h, x) /\ UNCHANGED store /\ l \in DOMAIN table
    BY <1>2, <2>1 DEF Redrive, Resolve
  <2> HIDE DEF x
  <2> QED BY <2>2, <2>3, QueuedBegin
<1>3. ASSUME NEW h \in Handlers,
             RejectAnswered(h) \/ RedriveAnswered(h) \/ ResolveAnswered(h) \/ StoreFails(h) \/ RedriveDegraded(h)
      PROVE  Queued'
  <2>1. Finish(h) /\ UNCHANGED store
    BY <1>3 DEF RejectAnswered, RedriveAnswered, ResolveAnswered, StoreFails, RedriveDegraded
  <2> QED BY <2>1, QueuedFinish
<1>4. ASSUME NEW h \in Handlers, NEW l \in Letters, NEW by \in Operators, OperateDegraded(h, l, by) PROVE Queued'
  BY <1>0, <1>4 DEF OperateDegraded, Queued, EventsOf
<1>9. CASE RejectDegraded
  BY <1>0, <1>9 DEF RejectDegraded, Queued, EventsOf
<1>5. CASE Restart
  BY <1>5 DEF Restart, Queued, NewProcess
<1>6. ASSUME NEW h \in Handlers, InsertLetter(h) PROVE Queued'
  <2> DEFINE l == req[h].letter
  <2>1. /\ req[h] # Idle /\ req[h].at = "reject" /\ l \notin DOMAIN table
        /\ DOMAIN table' = DOMAIN table \cup {l} /\ published' = published
        /\ req'[h].at = "rejected" /\ req'[h].letter = l
        /\ \A g \in Handlers \ {h} : req'[g] = req[g]
    BY <1>6, InsertFields DEF InsertLetter
  <2>2. \A g \in Handlers \ {h} : req[g] # Idle => req[g].letter # l
    BY <1>0, <2>1 DEF Queued
  <2> HIDE DEF l
  <2>3. ASSUME NEW g \in Handlers, req'[g] # Idle
        PROVE  /\ req'[g].at = "reject" =>
                    /\ req'[g].letter \notin DOMAIN table'
                    /\ \A k \in Handlers \ {g} : req'[k] # Idle => req'[k].letter # req'[g].letter
               /\ req'[g].at # "reject" => req'[g].letter \in DOMAIN table'
               /\ req'[g].at \in {"published", "updated"} => req'[g].event \in {e \in published' : e[1] = req'[g].letter}
    <3>1. CASE g = h
      BY <2>1, <3>1
    <3>2. CASE g # h
      BY <1>0, <2>1, <2>2, <2>3, <3>2 DEF Queued, EventsOf
    <3> QED BY <3>1, <3>2
  <2> QED BY <2>3 DEF Queued, EventsOf
<1>7. ASSUME NEW h \in Handlers, PublishLetter(h) \/ UpdateRedriven(h) \/ UpdateResolved(h) PROVE Queued'
  <2>1. /\ req[h] # Idle /\ req[h].at # "reject" /\ DOMAIN table' = DOMAIN table /\ published \subseteq published'
        /\ req'[h].letter = req[h].letter /\ req'[h].at \in {"published", "updated", "resolved"}
        /\ \A g \in Handlers \ {h} : req'[g] = req[g]
    <3>1. CASE PublishLetter(h)
      BY <3>1, PublishFields DEF PublishLetter
    <3>2. CASE UpdateRedriven(h)
      BY <3>2, UpdateFields DEF UpdateRedriven
    <3>3. CASE UpdateResolved(h)
      BY <3>3, ResolveFields DEF UpdateResolved
    <3> QED BY <1>7, <3>1, <3>2, <3>3
  <2>2. req'[h].at \in {"published", "updated"} => req'[h].event \in published' /\ req'[h].event[1] = req[h].letter
    <3>1. CASE PublishLetter(h)
      <4>1. req'[h].event = Publication(req[h].letter) /\ req[h].letter \in Letters
        BY <3>1, PublishFields DEF CloseType
      <4>2. published' = published \cup {Publication(req[h].letter)}
        BY <3>1 DEF PublishLetter
      <4> QED BY <1>0, <4>1, <4>2, PublicationFields
    <3>2. CASE UpdateRedriven(h)
      <4>1. req[h].event \in EventsOf(req[h].letter) /\ req'[h].event = req[h].event
        BY <1>0, <3>2, UpdateFields DEF Queued
      <4> QED BY <2>1, <4>1 DEF EventsOf
    <3>3. CASE UpdateResolved(h)
      BY <3>3, ResolveFields
    <3> QED BY <1>7, <3>1, <3>2, <3>3
  <2>3. req[h].letter \in DOMAIN table
    BY <1>0, <2>1 DEF Queued
  <2>4. ASSUME NEW g \in Handlers, req'[g] # Idle
        PROVE  /\ req'[g].at = "reject" =>
                    /\ req'[g].letter \notin DOMAIN table'
                    /\ \A k \in Handlers \ {g} : req'[k] # Idle => req'[k].letter # req'[g].letter
               /\ req'[g].at # "reject" => req'[g].letter \in DOMAIN table'
               /\ req'[g].at \in {"published", "updated"} => req'[g].event \in {e \in published' : e[1] = req'[g].letter}
    <3>1. CASE g = h
      BY <2>1, <2>2, <2>3, <3>1
    <3>2. CASE g # h
      <4>1. req'[g] = req[g]
        BY <2>1, <3>2
      <4> QED BY <1>0, <2>1, <2>4, <4>1 DEF Queued, EventsOf
    <3> QED BY <3>1, <3>2
  <2> QED BY <2>4 DEF Queued, EventsOf
<1>8. CASE UNCHANGED vars
  BY <1>0, <1>8 DEF vars, Queued, EventsOf
<1> QED BY <1>1, <1>2, <1>3, <1>4, <1>5, <1>6, <1>7, <1>8, <1>9 DEF Next, Handle

-----------------------------------------------------------------------------
LEMMA QueueAlways == Spec => []QueueInv
<1>1. Init => QueueInv
  <2>1. Init => Finite
    BY FS_EmptySet DEF Init, Finite, StoreInit
  <2>2. Init => Queued
    BY DEF Init, Queued, StoreInit
  <2> QED BY <2>1, <2>2, TypeInit DEF QueueInv
<1>2. QueueInv /\ [Next]_vars => QueueInv'
  BY TypeStep, FiniteStep, QueuedStep DEF QueueInv
<1> QED BY <1>1, <1>2, PTL DEF Spec

(* Every variable has its type: what the requests carry are letters,         *)
(* publications and letter records, whatever fails and restarts.             *)
THEOREM LettersTypeCorrect == Spec => []TypeOK
<1>1. QueueInv => TypeOK
  BY DEF QueueInv
<1> QED BY <1>1, QueueAlways, PTL

-----------------------------------------------------------------------------
(* The queue loses no letter and forgets no closer.                          *)

LEMMA LettersStay ==
  ASSUME QueueInv, [Next]_vars, NEW l \in DOMAIN table
  PROVE  l \in DOMAIN table' /\ (table[l].closedBy # None => table'[l].closedBy = table[l].closedBy)
<1> USE DEF store, process, aux, bounds
<1>1. CASE table' = table
  BY <1>1
<1>2. ASSUME NEW h \in Handlers, InsertLetter(h)
      PROVE  l \in DOMAIN table' /\ (table[l].closedBy # None => table'[l].closedBy = table[l].closedBy)
  BY <1>2, InsertFields
<1>3. ASSUME NEW h \in Handlers, UpdateRedriven(h)
      PROVE  l \in DOMAIN table' /\ (table[l].closedBy # None => table'[l].closedBy = table[l].closedBy)
  BY <1>3, UpdateFields, RedrivenFields
<1>4. ASSUME NEW h \in Handlers, UpdateResolved(h)
      PROVE  l \in DOMAIN table' /\ (table[l].closedBy # None => table'[l].closedBy = table[l].closedBy)
  BY <1>4, ResolveFields, ResolvedFields
<1>5. \/ table' = table
      \/ \E h \in Handlers : InsertLetter(h) \/ UpdateRedriven(h) \/ UpdateResolved(h)
  BY DEF Next, Handle, vars, Reject, RejectAnswered, Redrive, PublishLetter, RedriveAnswered, Resolve,
         ResolveAnswered, StoreFails, RedriveDegraded, OperateDegraded, RejectDegraded, Restart, NewProcess
<1> QED BY <1>1, <1>2, <1>3, <1>4, <1>5

(* The operator recorded as the first to close a letter stays recorded.      *)
THEOREM FirstCloserIsKept == Spec => FirstCloserStays
<1>1. QueueInv /\ [Next]_vars =>
        [\A l \in DOMAIN table :
           table[l].closedBy # None => l \in DOMAIN table' /\ table'[l].closedBy = table[l].closedBy]_vars
  BY LettersStay
<1> QED BY <1>1, QueueAlways, PTL DEF Spec, FirstCloserStays

(* A rejection the producer was told about is in the queue as long as no     *)
(* process has left the store.                                               *)
THEOREM RejectionStaysKept == Spec => []RejectionIsKept
<1> DEFINE GivenUp == status = "degraded" => fellBack
<1>1. Init => GivenUp /\ RejectionIsKept
  BY DEF Init, RejectionIsKept, StoreInit
<1>3. QueueInv /\ GivenUp /\ [Next]_vars => GivenUp'
  <2> SUFFICES ASSUME QueueInv, GivenUp, [Next]_vars PROVE GivenUp'
    OBVIOUS
  <2> USE DEF store, process, aux, bounds
  <2>1. CASE Restart
    BY <2>1 DEF Restart, NewProcess
  <2>2. ASSUME NEW h \in Handlers, StoreFails(h) PROVE GivenUp'
    BY <2>2 DEF StoreFails
  <2>3. CASE UNCHANGED <<status, fellBack>>
    BY <2>3
  <2>4. \/ UNCHANGED <<status, fellBack>> \/ Restart \/ \E h \in Handlers : StoreFails(h)
    BY DEF Next, Handle, vars, Reject, InsertLetter, RejectAnswered, Redrive, PublishLetter, UpdateRedriven,
           RedriveAnswered, Resolve, UpdateResolved, ResolveAnswered, RedriveDegraded, OperateDegraded,
           RejectDegraded
  <2> QED BY <2>1, <2>2, <2>3, <2>4
<1>2. QueueInv /\ GivenUp /\ RejectionIsKept /\ [Next]_vars => RejectionIsKept'
  <2> SUFFICES ASSUME QueueInv, GivenUp, RejectionIsKept, [Next]_vars, ~fellBack'
               PROVE  rejected' \subseteq DOMAIN table'
    BY DEF RejectionIsKept
  <2> USE DEF store, process, aux, bounds
  <2>1. DOMAIN table \subseteq DOMAIN table'
    BY LettersStay
  <2>2. CASE rejected' = rejected /\ ~fellBack
    BY <2>1, <2>2 DEF RejectionIsKept
  <2>3. ASSUME NEW h \in Handlers, RejectAnswered(h) PROVE rejected' \subseteq DOMAIN table'
    <3>1. req[h] # Idle /\ req[h].at # "reject"
      BY <2>3, IdleAt, RequestAtStep DEF RejectAnswered
    <3>2. req[h].letter \in DOMAIN table
      BY <3>1 DEF QueueInv, Queued
    <3>3. rejected' = rejected \cup {req[h].letter} /\ ~fellBack
      BY <2>3 DEF RejectAnswered
    <3> QED BY <2>1, <3>2, <3>3 DEF RejectionIsKept
  <2>4. ASSUME NEW h \in Handlers, StoreFails(h) PROVE FALSE
    BY <2>4 DEF StoreFails, MarkDegraded
  <2>6. CASE RejectDegraded
    BY <2>6 DEF RejectDegraded
  <2>5. \/ rejected' = rejected /\ ~fellBack
        \/ RejectDegraded
        \/ \E h \in Handlers : RejectAnswered(h) \/ StoreFails(h)
    BY DEF Next, Handle, vars, Reject, InsertLetter, Redrive, PublishLetter, UpdateRedriven, RedriveAnswered,
           Resolve, UpdateResolved, ResolveAnswered, RedriveDegraded, OperateDegraded, Restart, NewProcess
  <2> QED BY <2>2, <2>3, <2>4, <2>5, <2>6
<1> QED BY <1>1, <1>2, <1>3, QueueAlways, PTL DEF Spec

-----------------------------------------------------------------------------
(* Retries and publications.                                                 *)

\* The requests that have published the letter and have not yet counted it.
Waiting(l) == {h \in Handlers : req[h].at = "published" /\ req[h].letter = l}

Known == status = "ok" => known \subseteq published

\* Publications without an id are numbered from one.
Numbered == \A e \in published : e[1] \in Anonymous => e[2] <= Cardinality(EventsOf(e[1]))

\* Each counted retry has its publication, and so has each that will be.
Counted ==
  \A l \in DOMAIN table :
    /\ l \in Anonymous => table[l].retries + Cardinality(Waiting(l)) <= Cardinality(EventsOf(l))
    /\ l \notin Anonymous => (table[l].retries > 0 => EventsOf(l) # {})

LogInv == Known /\ Numbered /\ Counted

LEMMA FiniteParts ==
  ASSUME QueueInv, NEW l
  PROVE  /\ IsFiniteSet(EventsOf(l)) /\ Cardinality(EventsOf(l)) \in Nat
         /\ IsFiniteSet(Waiting(l)) /\ Cardinality(Waiting(l)) \in Nat
<1>1. EventsOf(l) \in SUBSET published /\ Waiting(l) \in SUBSET Handlers
  BY DEF EventsOf, Waiting
<1>2. IsFiniteSet(EventsOf(l)) /\ IsFiniteSet(Waiting(l))
  BY <1>1, FS_Subset DEF QueueInv, Finite
<1> QED BY <1>2, FS_CardinalityType

\* Steps that neither publish nor count leave the log as it is and count nothing.
LEMMA OtherSteps ==
  ASSUME QueueInv, [Next]_vars, \A h \in Handlers : ~PublishLetter(h) /\ ~UpdateRedriven(h)
  PROVE  /\ published' = published
         /\ \A l \in DOMAIN table' : \/ l \in DOMAIN table /\ table'[l].retries = table[l].retries
                                     \/ l \notin DOMAIN table /\ table'[l].retries = 0
         /\ \A h \in Handlers : req'[h].at = "published" => req'[h] = req[h]
<1> DEFINE Tables == \A l \in DOMAIN table' : \/ l \in DOMAIN table /\ table'[l].retries = table[l].retries
                                              \/ l \notin DOMAIN table /\ table'[l].retries = 0
           Reqs == \A h \in Handlers : req'[h].at = "published" => req'[h] = req[h]
<1> USE DEF store, process, aux, bounds
<1>0. req \in [Handlers -> {Idle} \cup Requests]
  BY DEF QueueInv, TypeOK, Requests
<1>1. ASSUME NEW h \in Handlers, Finish(h) PROVE Reqs
  <2>1. req'[h].at = "idle" /\ \A g \in Handlers \ {h} : req'[g] = req[g]
    BY <1>0, <1>1, IdleAt DEF Finish
  <2> QED BY <2>1
<1>2. ASSUME NEW h \in Handlers, NEW x, req' = [req EXCEPT ![h] = x], x.at # "published" PROVE Reqs
  <2>1. req'[h] = x /\ \A g \in Handlers \ {h} : req'[g] = req[g]
    BY <1>0, <1>2
  <2> QED BY <1>2, <2>1
<1>3. ASSUME NEW h \in Handlers,
             RejectAnswered(h) \/ RedriveAnswered(h) \/ ResolveAnswered(h) \/ StoreFails(h) \/ RedriveDegraded(h)
      PROVE  published' = published /\ Tables /\ Reqs
  <2>1. Finish(h) /\ UNCHANGED <<table, published>>
    BY <1>3 DEF RejectAnswered, RedriveAnswered, ResolveAnswered, StoreFails, RedriveDegraded
  <2> QED BY <1>1, <2>1
<1>4. ASSUME NEW h \in Handlers, NEW l \in Letters, Reject(h, l) PROVE published' = published /\ Tables /\ Reqs
  <2> DEFINE x == [at |-> "reject", letter |-> l, by |-> None]
  <2>1. x.at # "published"
    OBVIOUS
  <2>2. req' = [req EXCEPT ![h] = x] /\ UNCHANGED <<table, published>>
    BY <1>4 DEF Reject, Begin
  <2> HIDE DEF x
  <2> QED BY <1>2, <2>1, <2>2
<1>5. ASSUME NEW h \in Handlers, NEW l \in Letters, NEW by \in Operators, Redrive(h, l, by) \/ Resolve(h, l, by)
      PROVE  published' = published /\ Tables /\ Reqs
  <2>1. PICK at \in {"redrive", "resolve"} : req' = [req EXCEPT ![h] = [at |-> at, letter |-> l, by |-> by]]
    BY <1>5 DEF Redrive, Resolve, Begin
  <2> DEFINE x == [at |-> at, letter |-> l, by |-> by]
  <2>2. x.at # "published" /\ req' = [req EXCEPT ![h] = x]
    BY <2>1
  <2>3. UNCHANGED <<table, published>>
    BY <1>5 DEF Redrive, Resolve
  <2> HIDE DEF x
  <2> QED BY <1>2, <2>2, <2>3
<1>6. ASSUME NEW h \in Handlers, InsertLetter(h) PROVE published' = published /\ Tables /\ Reqs
  <2>1. published' = published
    BY <1>6 DEF InsertLetter
  <2>2. Tables
    <3>1. PICK l \in Letters \ DOMAIN table : /\ DOMAIN table' = DOMAIN table \cup {l} /\ table'[l] = Open
                                             /\ \A k \in DOMAIN table : table'[k] = table[k]
      BY <1>6, InsertFields
    <3> QED BY <3>1, OpenIsRecord
  <2>3. Reqs
    BY <1>6, InsertFields
  <2> QED BY <2>1, <2>2, <2>3
<1>7. ASSUME NEW h \in Handlers, UpdateResolved(h) PROVE published' = published /\ Tables /\ Reqs
  <2>1. published' = published
    BY <1>7 DEF UpdateResolved
  <2>2. Tables
    BY <1>7, ResolveFields, ResolvedFields
  <2>3. Reqs
    BY <1>7, ResolveFields
  <2> QED BY <2>1, <2>2, <2>3
<1>8. ASSUME NEW h \in Handlers, NEW l \in Letters, NEW by \in Operators, OperateDegraded(h, l, by)
      PROVE  published' = published /\ Tables /\ Reqs
  BY <1>8 DEF OperateDegraded
<1>11. CASE RejectDegraded
  BY <1>11 DEF RejectDegraded
<1>9. CASE Restart
  BY <1>9, IdleAt DEF Restart, NewProcess
<1>10. CASE UNCHANGED vars
  BY <1>10 DEF vars
<1> QED BY <1>3, <1>4, <1>5, <1>6, <1>7, <1>8, <1>9, <1>10, <1>11 DEF Next, Handle

LEMMA KnownStep == QueueInv /\ Known /\ [Next]_vars => Known'
<1> SUFFICES ASSUME QueueInv, Known, [Next]_vars, status' = "ok" PROVE known' \subseteq published'
  BY DEF Known
<1> USE DEF store, process, aux, bounds
<1>1. CASE known' = known /\ status = "ok" /\ published \subseteq published'
  BY <1>1 DEF Known
<1>2. ASSUME NEW h \in Handlers, RedriveAnswered(h) PROVE known' \subseteq published'
  <2>1. req[h].event \in published
    BY <1>2, IdleAt, RequestAtStep DEF QueueInv, Queued, RedriveAnswered, EventsOf
  <2> QED BY <1>2, <2>1 DEF RedriveAnswered, Known
<1>3. CASE Restart
  BY <1>3 DEF Restart, NewProcess
<1>4. ASSUME NEW h \in Handlers, StoreFails(h) PROVE FALSE
  BY <1>4 DEF StoreFails, MarkDegraded
<1>5. ASSUME NEW h \in Handlers, RedriveDegraded(h) PROVE FALSE
  BY <1>5 DEF RedriveDegraded
<1>6. ASSUME NEW h \in Handlers, NEW l \in Letters, NEW by \in Operators, OperateDegraded(h, l, by) PROVE FALSE
  BY <1>6 DEF OperateDegraded
<1>9. CASE RejectDegraded
  BY <1>9 DEF RejectDegraded
<1>7. ASSUME NEW h \in Handlers,
             \/ InsertLetter(h) \/ RejectAnswered(h) \/ UpdateRedriven(h) \/ UpdateResolved(h)
             \/ PublishLetter(h) \/ ResolveAnswered(h)
             \/ \E l \in Letters : Reject(h, l)
             \/ \E l \in Letters, by \in Operators : Redrive(h, l, by) \/ Resolve(h, l, by)
      PROVE  known' = known /\ status = "ok" /\ published \subseteq published'
  BY <1>7 DEF InsertLetter, RejectAnswered, UpdateRedriven, UpdateResolved, PublishLetter, ResolveAnswered,
              Reject, Redrive, Resolve
<1>8. CASE UNCHANGED vars
  BY <1>1, <1>8 DEF vars
<1> QED BY <1>1, <1>2, <1>3, <1>4, <1>5, <1>6, <1>7, <1>8, <1>9 DEF Next, Handle

\* A publication of an event without an id is one more.
LEMMA PublishCounts ==
  ASSUME QueueInv, Known, Numbered, NEW h \in Handlers, PublishLetter(h),
         NEW l \in Letters, l = req[h].letter
  PROVE  /\ \A k : k # l => EventsOf(k)' = EventsOf(k)
         /\ EventsOf(l) \subseteq EventsOf(l)'
         /\ l \in Anonymous => /\ Cardinality(EventsOf(l)') = Cardinality(EventsOf(l)) + 1
                               /\ Publication(l) = <<l, Cardinality(EventsOf(l)) + 1>>
         /\ published' = published \cup {Publication(l)} /\ Publication(l)[1] = l
<1> DEFINE e == Publication(l)
<1>1. published' = published \cup {e}
  BY DEF PublishLetter
<1>2. e[1] = l /\ e \in Letters \X Nat
  BY PublicationFields DEF QueueInv
<1>3. Publications(l) = EventsOf(l)
  BY DEF Publications, EventsOf, Known, PublishLetter
<1>4. l \in Anonymous => e = <<l, Cardinality(EventsOf(l)) + 1>>
  BY <1>3 DEF Publication
<1> HIDE DEF e
<1>5. EventsOf(l)' = EventsOf(l) \cup {e} /\ \A k : k # l => EventsOf(k)' = EventsOf(k)
  BY <1>1, <1>2 DEF EventsOf
<1>6. ASSUME l \in Anonymous PROVE Cardinality(EventsOf(l)') = Cardinality(EventsOf(l)) + 1
  <2>1. e \notin EventsOf(l)
    <3>1. Cardinality(EventsOf(l)) \in Nat /\ e[2] = Cardinality(EventsOf(l)) + 1
      BY <1>4, <1>6, FiniteParts
    <3>2. e \in published => e[2] <= Cardinality(EventsOf(l))
      BY <1>2, <1>6 DEF Numbered
    <3> QED BY <3>1, <3>2 DEF EventsOf
  <2> QED BY <1>5, <2>1, FiniteParts, FS_AddElement
<1> QED BY <1>1, <1>2, <1>4, <1>5, <1>6 DEF e

LEMMA NumberedStep == QueueInv /\ Known /\ Numbered /\ [Next]_vars => Numbered'
<1> SUFFICES ASSUME QueueInv, Known, Numbered, [Next]_vars,
                    NEW d \in published', d[1] \in Anonymous
             PROVE  d[2] <= Cardinality(EventsOf(d[1])')
  BY DEF Numbered, EventsOf
<1>1. CASE published' = published
  BY <1>1 DEF Numbered, EventsOf
<1>2. ASSUME NEW h \in Handlers, PublishLetter(h) PROVE d[2] <= Cardinality(EventsOf(d[1])')
  <2>1. PICK l \in Letters : l = req[h].letter
    BY <1>2, PublishFields DEF CloseType
  <2>2. /\ \A k : k # l => EventsOf(k)' = EventsOf(k)
        /\ l \in Anonymous => /\ Cardinality(EventsOf(l)') = Cardinality(EventsOf(l)) + 1
                              /\ Publication(l) = <<l, Cardinality(EventsOf(l)) + 1>>
        /\ published' = published \cup {Publication(l)} /\ Publication(l)[1] = l
    BY <1>2, <2>1, PublishCounts
  <2>3. PICK k : k = d[1]
    OBVIOUS
  <2>4. Cardinality(EventsOf(k)) \in Nat
    BY FiniteParts
  <2>5. CASE d \in published
    <3>1. d[2] <= Cardinality(EventsOf(k)) /\ d[2] \in Nat
      BY <2>3, <2>5 DEF Numbered, QueueInv, TypeOK
    <3>2. CASE k = l
      BY <2>2, <2>3, <2>4, <3>1, <3>2
    <3>3. CASE k # l
      BY <2>2, <2>3, <3>1, <3>3
    <3> QED BY <3>2, <3>3
  <2>6. CASE d = Publication(l)
    BY <2>2, <2>3, <2>4, <2>6
  <2> QED BY <2>2, <2>5, <2>6
<1>3. ASSUME NEW h \in Handlers, UpdateRedriven(h) PROVE published' = published
  BY <1>3 DEF UpdateRedriven
<1> QED BY <1>1, <1>2, <1>3, OtherSteps

LEMMA CountedStep == QueueInv /\ LogInv /\ [Next]_vars => Counted'
<1> SUFFICES ASSUME QueueInv, LogInv, [Next]_vars, NEW l \in DOMAIN table'
             PROVE  /\ l \in Anonymous => table'[l].retries + Cardinality(Waiting(l)') <= Cardinality(EventsOf(l)')
                    /\ l \notin Anonymous => (table'[l].retries > 0 => EventsOf(l)' # {})
  BY DEF Counted, Waiting, EventsOf
<1> DEFINE Goal == /\ l \in Anonymous => table'[l].retries + Cardinality(Waiting(l)') <= Cardinality(EventsOf(l)')
                   /\ l \notin Anonymous => (table'[l].retries > 0 => EventsOf(l)' # {})
<1>1. IsFiniteSet(Waiting(l)) /\ Cardinality(Waiting(l)) \in Nat /\ Cardinality(EventsOf(l)) \in Nat
  BY FiniteParts
<1>2. ASSUME NEW h \in Handlers, PublishLetter(h) PROVE Goal
  <2>0. table' = table /\ l \in DOMAIN table /\ table[l].retries \in Nat
    BY <1>2 DEF PublishLetter, QueueInv, TypeOK, LetterRecords
  <2>1. PICK m \in Letters : m = req[h].letter
    BY <1>2, PublishFields DEF CloseType
  <2>2. /\ l # m => EventsOf(l)' = EventsOf(l)
        /\ EventsOf(m) \subseteq EventsOf(m)'
        /\ m \in Anonymous => Cardinality(EventsOf(m)') = Cardinality(EventsOf(m)) + 1
    BY <1>2, <2>1, PublishCounts DEF LogInv
  <2>3. Waiting(l)' \subseteq Waiting(l) \cup {h} /\ (l # m => h \notin Waiting(l)')
    BY <1>2, <2>1, PublishFields DEF Waiting
  <2>4. CASE l = m
    <3>1. Cardinality(Waiting(l)') <= Cardinality(Waiting(l)) + 1 /\ Cardinality(Waiting(l)') \in Nat
      <4>1. IsFiniteSet(Waiting(l) \cup {h}) /\ Cardinality(Waiting(l) \cup {h}) \in Nat
            /\ Cardinality(Waiting(l) \cup {h}) <= Cardinality(Waiting(l)) + 1
        <5> DEFINE W == Waiting(l)
        <5>1. IsFiniteSet(W) /\ Cardinality(W) \in Nat
          BY <1>1
        <5> HIDE DEF W
        <5>2. /\ IsFiniteSet(W \cup {h})
              /\ Cardinality(W \cup {h}) = IF h \in W THEN Cardinality(W) ELSE Cardinality(W) + 1
          BY <5>1, FS_AddElement
        <5>3. /\ IsFiniteSet(W \cup {h}) /\ Cardinality(W \cup {h}) \in Nat
              /\ Cardinality(W \cup {h}) <= Cardinality(W) + 1
          BY <5>1, <5>2
        <5> QED BY <5>3 DEF W
      <4>2. Cardinality(Waiting(l)') \in Nat /\ Cardinality(Waiting(l)') <= Cardinality(Waiting(l) \cup {h})
        BY <2>3, <4>1, FS_Subset, FS_CardinalityType
      <4> QED BY <1>1, <4>1, <4>2
    <3>2. l \in Anonymous => table[l].retries + Cardinality(Waiting(l)) <= Cardinality(EventsOf(l))
      BY <2>0 DEF LogInv, Counted
    <3>3. l \notin Anonymous => (table'[l].retries > 0 => EventsOf(l)' # {})
      BY <2>0, <2>2, <2>4 DEF LogInv, Counted
    <3>4. l \in Anonymous => Cardinality(EventsOf(l)') = Cardinality(EventsOf(l)) + 1
      BY <2>2, <2>4
    <3>5. l \in Anonymous => table'[l].retries + Cardinality(Waiting(l)') <= Cardinality(EventsOf(l)')
      BY <1>1, <2>0, <3>1, <3>2, <3>4
    <3> QED BY <3>3, <3>5
  <2>5. CASE l # m
    <3>1. Waiting(l)' \subseteq Waiting(l)
      BY <2>3, <2>5
    <3>2. Cardinality(Waiting(l)') <= Cardinality(Waiting(l)) /\ Cardinality(Waiting(l)') \in Nat
      BY <1>1, <3>1, FS_Subset, FS_CardinalityType
    <3>3. l \in Anonymous => table[l].retries + Cardinality(Waiting(l)) <= Cardinality(EventsOf(l))
      BY <2>0 DEF LogInv, Counted
    <3>4. l \notin Anonymous => (table'[l].retries > 0 => EventsOf(l)' # {})
      BY <2>0, <2>2, <2>5 DEF LogInv, Counted
    <3>5. Cardinality(EventsOf(l)') = Cardinality(EventsOf(l))
      BY <2>2, <2>5
    <3>6. l \in Anonymous => table'[l].retries + Cardinality(Waiting(l)') <= Cardinality(EventsOf(l)')
      BY <1>1, <2>0, <3>2, <3>3, <3>5
    <3> QED BY <3>4, <3>6
  <2> QED BY <2>4, <2>5
<1>3. ASSUME NEW h \in Handlers, UpdateRedriven(h) PROVE Goal
  <2>0. EventsOf(l)' = EventsOf(l)
    BY <1>3 DEF UpdateRedriven, EventsOf
  <2>1. l \in DOMAIN table /\ table[l].retries \in Nat
    BY <1>3, UpdateFields DEF QueueInv, TypeOK, LetterRecords
  <2>2. Waiting(l)' = Waiting(l) \ {h}
    BY <1>3, UpdateFields DEF Waiting
  <2>3. /\ l \in Anonymous => table[l].retries + Cardinality(Waiting(l)) <= Cardinality(EventsOf(l))
        /\ l \notin Anonymous => (table[l].retries > 0 => EventsOf(l) # {})
    BY <2>1 DEF LogInv, Counted
  <2>4. CASE l = req[h].letter
    <3>1. table'[l].retries = table[l].retries + 1
      BY <1>3, <2>4, UpdateFields, RedrivenFields
    <3>2. h \in Waiting(l)
      BY <1>3, <2>4, UpdateFields DEF Waiting
    <3>3. Cardinality(Waiting(l)') = Cardinality(Waiting(l)) - 1
      BY <1>1, <2>2, <3>2, FS_RemoveElement
    <3>4. EventsOf(l) # {}
      BY <1>3, <2>4, UpdateFields DEF QueueInv, Queued
    <3> QED BY <1>1, <2>0, <2>1, <2>3, <3>1, <3>3, <3>4
  <2>5. CASE l # req[h].letter
    <3>1. table'[l] = table[l]
      BY <1>3, <2>1, <2>5, UpdateFields
    <3>2. h \notin Waiting(l)
      BY <2>5 DEF Waiting
    <3>3. Waiting(l)' = Waiting(l)
      BY <2>2, <3>2
    <3> QED BY <2>0, <2>3, <3>1, <3>3
  <2> QED BY <2>4, <2>5
<1>4. CASE \A h \in Handlers : ~PublishLetter(h) /\ ~UpdateRedriven(h)
  <2>1. /\ EventsOf(l)' = EventsOf(l)
        /\ \/ l \in DOMAIN table /\ table'[l].retries = table[l].retries
           \/ l \notin DOMAIN table /\ table'[l].retries = 0
        /\ Waiting(l)' \subseteq Waiting(l)
    BY <1>4, OtherSteps DEF EventsOf, Waiting
  <2>2. Cardinality(Waiting(l)') <= Cardinality(Waiting(l)) /\ Cardinality(Waiting(l)') \in Nat
    BY <1>1, <2>1, FS_Subset, FS_CardinalityType
  <2>3. CASE l \in DOMAIN table
    <3>1. table[l].retries \in Nat /\ table'[l].retries = table[l].retries
      BY <2>1, <2>3 DEF QueueInv, TypeOK, LetterRecords
    <3>2. /\ l \in Anonymous => table[l].retries + Cardinality(Waiting(l)) <= Cardinality(EventsOf(l))
          /\ l \notin Anonymous => (table[l].retries > 0 => EventsOf(l) # {})
      BY <2>3 DEF LogInv, Counted
    <3> QED BY <1>1, <2>1, <2>2, <3>1, <3>2
  <2>4. CASE l \notin DOMAIN table
    <3>1. Waiting(l) = {}
      <4> SUFFICES ASSUME NEW h \in Waiting(l) PROVE FALSE
        OBVIOUS
      <4>1. h \in Handlers /\ req[h].at = "published" /\ req[h].letter = l
        BY DEF Waiting
      <4>2. req[h] # Idle
        BY <4>1, IdleAt
      <4> QED BY <2>4, <4>1, <4>2 DEF QueueInv, Queued
    <3>2. Waiting(l)' = {}
      BY <2>1, <3>1
    <3>3. Cardinality(Waiting(l)') = 0
      BY <3>2, FS_EmptySet
    <3> QED BY <1>1, <2>1, <2>4, <3>3
  <2> QED BY <2>3, <2>4
<1> QED BY <1>2, <1>3, <1>4

(* No letter counts a re-drive whose event is not in the log: an event       *)
(* without an id was published as often as its re-drives were counted.       *)
THEOREM RetriesArePublished == Spec => []RetriesWerePublished
<1>1. Init => LogInv
  <2>1. DOMAIN Empty = {}
    BY DEF Empty
  <2> QED BY <2>1 DEF Init, LogInv, Known, Numbered, Counted, StoreInit
<1>2. QueueInv /\ LogInv /\ [Next]_vars => LogInv'
  BY KnownStep, NumberedStep, CountedStep DEF LogInv
<1>3. QueueInv /\ LogInv => RetriesWerePublished
  <2> SUFFICES ASSUME QueueInv, LogInv, NEW l \in DOMAIN table
               PROVE  IF l \in Anonymous THEN table[l].retries <= Cardinality(EventsOf(l))
                      ELSE table[l].retries > 0 => EventsOf(l) # {}
    BY DEF RetriesWerePublished, EventsOf
  <2>1. Cardinality(Waiting(l)) \in Nat /\ Cardinality(EventsOf(l)) \in Nat /\ table[l].retries \in Nat
    BY FiniteParts DEF QueueInv, TypeOK, LetterRecords
  <2>2. /\ l \in Anonymous => table[l].retries + Cardinality(Waiting(l)) <= Cardinality(EventsOf(l))
        /\ l \notin Anonymous => (table[l].retries > 0 => EventsOf(l) # {})
    BY DEF LogInv, Counted
  <2> QED BY <2>1, <2>2
<1> QED BY <1>1, <1>2, <1>3, QueueAlways, PTL DEF Spec

-----------------------------------------------------------------------------
(* What an operator sees, as long as requests come one after the other.      *)

AtMostOne == \A g, h \in Handlers : req[g] # Idle /\ req[h] # Idle => g = h

\* The copies are those of stored letters, behind at most the update whose
\* answer is under way.
CopiesFollow ==
  /\ DOMAIN copies \subseteq DOMAIN table
  /\ \A h \in Handlers :
       /\ req[h].at = "rejected" => table[req[h].letter].retries = 0
       /\ req[h].at \in {"redrive", "published", "updated"} => req[h].letter \in DOMAIN copies
       /\ req[h].at \in {"updated", "resolved"} => req[h].result = table[req[h].letter]
  /\ \A l \in DOMAIN copies :
       \/ copies[l].retries = table[l].retries
       \/ /\ table[l].retries = copies[l].retries + 1
          /\ \E h \in Handlers : req[h].at = "updated" /\ req[h].letter = l

SeenInv ==
  ~overlapped => /\ AtMostOne
                 /\ status = "degraded" => \A h \in Handlers : req[h] = Idle
                 /\ status = "ok" => CopiesFollow

\* With one request in progress the copies follow if they follow for it.
LEMMA FollowOne ==
  ASSUME NEW h \in Handlers, \A g \in Handlers \ {h} : req'[g] = Idle,
         DOMAIN copies' \subseteq DOMAIN table',
         req'[h].at = "rejected" => table'[req'[h].letter].retries = 0,
         req'[h].at \in {"redrive", "published", "updated"} => req'[h].letter \in DOMAIN copies',
         req'[h].at \in {"updated", "resolved"} => req'[h].result = table'[req'[h].letter],
         \A l \in DOMAIN copies' :
           \/ copies'[l].retries = table'[l].retries
           \/ /\ table'[l].retries = copies'[l].retries + 1
              /\ req'[h].at = "updated" /\ req'[h].letter = l
  PROVE  AtMostOne' /\ CopiesFollow'
<1>1. AtMostOne'
  BY DEF AtMostOne
<1>2. \A g \in Handlers \ {h} : req'[g].at = "idle"
  BY IdleAt
<1>3. ASSUME NEW g \in Handlers
      PROVE  /\ req'[g].at = "rejected" => table'[req'[g].letter].retries = 0
             /\ req'[g].at \in {"redrive", "published", "updated"} => req'[g].letter \in DOMAIN copies'
             /\ req'[g].at \in {"updated", "resolved"} => req'[g].result = table'[req'[g].letter]
  BY <1>2
<1>4. CopiesFollow'
  BY <1>3 DEF CopiesFollow
<1> QED BY <1>1, <1>4

\* The only request in progress, while the store is in use.
LEMMA TheOnlyRequest ==
  ASSUME QueueInv, SeenInv, ~overlapped, NEW h \in Handlers, req[h] # Idle
  PROVE  /\ status = "ok" /\ CopiesFollow
         /\ \A g \in Handlers \ {h} : req[g] = Idle
         /\ req[h].at # "updated" => \A l \in DOMAIN copies : copies[l].retries = table[l].retries
         /\ \A l \in DOMAIN copies : l # req[h].letter => copies[l].retries = table[l].retries
<1>1. status = "ok" /\ CopiesFollow /\ \A g \in Handlers \ {h} : req[g] = Idle
  BY DEF SeenInv, AtMostOne, QueueInv, TypeOK
<1>2. \A g \in Handlers : req[g].at = "updated" => g = h
  BY <1>1, IdleAt
<1> QED BY <1>1, <1>2 DEF CopiesFollow

\* The first step of a request finds no other in progress.
LEMMA TheFirstRequest ==
  ASSUME QueueInv, SeenInv, ~overlapped, NEW h \in Handlers, NEW x, Begin(h, x), ~overlapped', status = "ok"
  PROVE  /\ CopiesFollow /\ \A l \in DOMAIN copies : copies[l].retries = table[l].retries
         /\ \A g \in Handlers \ {h} : req'[g] = Idle
         /\ req'[h] = x
<1>1. \A g \in Handlers : req[g] = Idle
  BY DEF Begin
<1>2. req' = [req EXCEPT ![h] = x] /\ DOMAIN req = Handlers
  BY DEF Begin, QueueInv, TypeOK
<1>3. req'[h] = x /\ \A g \in Handlers \ {h} : req'[g] = Idle
  BY <1>1, <1>2
<1>4. \A g \in Handlers : req[g].at # "updated"
  BY <1>1, IdleAt
<1> QED BY <1>3, <1>4 DEF SeenInv, CopiesFollow

LEMMA SeenStep == QueueInv /\ SeenInv /\ [Next]_vars => SeenInv'
<1> SUFFICES ASSUME QueueInv, SeenInv, [Next]_vars, ~overlapped' PROVE
               /\ AtMostOne'
               /\ status' = "degraded" => \A h \in Handlers : req'[h] = Idle
               /\ status' = "ok" => CopiesFollow'
  BY DEF SeenInv
<1> USE DEF store, process, aux, bounds
<1> DEFINE Goal == /\ AtMostOne'
                   /\ status' = "degraded" => \A h \in Handlers : req'[h] = Idle
                   /\ status' = "ok" => CopiesFollow'
<1>0. TypeOK /\ Queued /\ DOMAIN req = Handlers /\ status \in {"ok", "degraded"}
  BY DEF QueueInv, TypeOK
<1>a. "ok" # "degraded"
  OBVIOUS
\* A request that ends, and the store is given up.
<1>1. ASSUME NEW h \in Handlers, ~overlapped, req[h] # Idle, Finish(h), status' = "degraded" PROVE Goal
  <2>1. \A g \in Handlers : req'[g] = Idle
    BY <1>0, <1>1, TheOnlyRequest DEF Finish
  <2> QED BY <1>1, <2>1 DEF AtMostOne
<1>2. ASSUME NEW h \in Handlers, StoreFails(h) PROVE Goal
  <2>1. ~overlapped /\ Finish(h) /\ status' = "degraded"
    BY <1>2 DEF StoreFails, MarkDegraded
  <2>2. req[h] # Idle
    BY <1>2, IdleAt DEF StoreFails
  <2> QED BY <1>1, <2>1, <2>2
<1>3. ASSUME NEW h \in Handlers, RedriveDegraded(h) PROVE Goal
  <2>1. ~overlapped /\ Finish(h) /\ status' = "degraded"
    BY <1>3 DEF RedriveDegraded
  <2>2. req[h] # Idle
    BY <1>3, IdleAt DEF RedriveDegraded
  <2> QED BY <1>1, <2>1, <2>2
<1>4. ASSUME NEW h \in Handlers, NEW l \in Letters, NEW by \in Operators, OperateDegraded(h, l, by) PROVE Goal
  BY <1>4 DEF OperateDegraded, SeenInv, AtMostOne
<1>16. CASE RejectDegraded
  BY <1>16 DEF RejectDegraded, SeenInv, AtMostOne
<1>5. CASE Restart
  <2>1. \A g \in Handlers : req'[g] = Idle
    BY <1>5 DEF Restart, NewProcess
  <2>2. DOMAIN copies' = {}
    BY <1>5 DEF Restart, Empty, NewProcess
  <2>3. \A g \in Handlers : req'[g].at = "idle"
    BY <2>1, IdleAt
  <2> QED BY <2>1, <2>2, <2>3 DEF AtMostOne, CopiesFollow
<1>6. CASE UNCHANGED vars
  BY <1>6 DEF vars, SeenInv, AtMostOne, CopiesFollow
<1>7. ASSUME NEW h \in Handlers, NEW l \in Letters, Reject(h, l) PROVE Goal
  <2> DEFINE x == [at |-> "reject", letter |-> l, by |-> None]
  <2>1. x.at = "reject"
    OBVIOUS
  <2>2. Begin(h, x) /\ ~overlapped /\ status = "ok" /\ status' = "ok" /\ UNCHANGED <<table, copies>>
    BY <1>7 DEF Reject, Begin
  <2> HIDE DEF x
  <2>3. AtMostOne' /\ CopiesFollow'
    <3>1. /\ CopiesFollow /\ \A k \in DOMAIN copies : copies[k].retries = table[k].retries
          /\ \A g \in Handlers \ {h} : req'[g] = Idle
          /\ req'[h] = x
      BY <2>2, TheFirstRequest
    <3> QED BY <2>1, <2>2, <3>1, FollowOne DEF CopiesFollow
  <2> QED BY <2>2, <2>3
<1>8. ASSUME NEW h \in Handlers, NEW l \in Letters, NEW by \in Operators, Redrive(h, l, by) PROVE Goal
  <2> DEFINE x == [at |-> "redrive", letter |-> l, by |-> by]
  <2>1. x.at = "redrive" /\ x.letter = l
    OBVIOUS
  <2>2. Begin(h, x) /\ ~overlapped /\ status = "ok" /\ status' = "ok" /\ UNCHANGED table /\ l \in DOMAIN table
    BY <1>8 DEF Redrive, Begin
  <2>3. copies' = IF l \in DOMAIN copies THEN copies ELSE With(copies, l, table[l])
    BY <1>8 DEF Redrive
  <2> HIDE DEF x
  <2>4. /\ CopiesFollow /\ \A k \in DOMAIN copies : copies[k].retries = table[k].retries
        /\ \A g \in Handlers \ {h} : req'[g] = Idle
        /\ req'[h] = x
    BY <2>2, TheFirstRequest
  <2>5. /\ DOMAIN copies' \subseteq DOMAIN table' /\ l \in DOMAIN copies'
        /\ \A k \in DOMAIN copies' : copies'[k].retries = table'[k].retries
    BY <2>2, <2>3, <2>4 DEF With, CopiesFollow
  <2>6. AtMostOne' /\ CopiesFollow'
    BY <2>1, <2>4, <2>5, FollowOne
  <2> QED BY <2>2, <2>6
<1>9. ASSUME NEW h \in Handlers, NEW l \in Letters, NEW by \in Operators, Resolve(h, l, by) PROVE Goal
  <2> DEFINE x == [at |-> "resolve", letter |-> l, by |-> by]
  <2>1. x.at = "resolve"
    OBVIOUS
  <2>2. Begin(h, x) /\ ~overlapped /\ status = "ok" /\ status' = "ok" /\ UNCHANGED <<table, copies>>
    BY <1>9 DEF Resolve, Begin
  <2> HIDE DEF x
  <2>3. AtMostOne' /\ CopiesFollow'
    <3>1. /\ CopiesFollow /\ \A k \in DOMAIN copies : copies[k].retries = table[k].retries
          /\ \A g \in Handlers \ {h} : req'[g] = Idle
          /\ req'[h] = x
      BY <2>2, TheFirstRequest
    <3> QED BY <2>1, <2>2, <3>1, FollowOne DEF CopiesFollow
  <2> QED BY <2>2, <2>3
<1>10. ASSUME NEW h \in Handlers, InsertLetter(h) PROVE Goal
  <2>1. UNCHANGED <<copies, status, overlapped>>
    BY <1>10 DEF InsertLetter
  <2>2. PICK l \in Letters \ DOMAIN table :
          /\ req[h] # Idle /\ req[h].at = "reject"
          /\ DOMAIN table' = DOMAIN table \cup {l} /\ table'[l] = Open
          /\ \A k \in DOMAIN table : table'[k] = table[k]
          /\ req'[h].at = "rejected" /\ req'[h].letter = l
          /\ \A g \in Handlers \ {h} : req'[g] = req[g]
    BY <1>10, InsertFields
  <2>3. /\ status = "ok" /\ CopiesFollow /\ \A g \in Handlers \ {h} : req[g] = Idle
        /\ \A k \in DOMAIN copies : copies[k].retries = table[k].retries
    BY <2>1, <2>2, TheOnlyRequest
  <2>4. DOMAIN copies \subseteq DOMAIN table
    BY <2>3 DEF CopiesFollow
  <2>5. AtMostOne' /\ CopiesFollow'
    BY <2>1, <2>2, <2>3, <2>4, OpenIsRecord, FollowOne
  <2> QED BY <2>1, <2>3, <2>5
<1>11. ASSUME NEW h \in Handlers, RejectAnswered(h) PROVE Goal
  <2>1. UNCHANGED <<table, status, overlapped>> /\ req[h] # Idle /\ req[h].at = "rejected" /\ Finish(h)
    BY <1>11, IdleAt DEF RejectAnswered
  <2>2. /\ status = "ok" /\ CopiesFollow /\ \A g \in Handlers \ {h} : req[g] = Idle
        /\ \A k \in DOMAIN copies : copies[k].retries = table[k].retries
    BY <2>1, TheOnlyRequest
  <2>3. PICK l \in DOMAIN table : l = req[h].letter /\ table[l].retries = 0
    BY <1>0, <2>1, <2>2 DEF Queued, CopiesFollow
  <2>4. copies' = IF l \in DOMAIN copies THEN copies ELSE With(copies, l, Open)
    BY <1>11, <2>3 DEF RejectAnswered
  <2>5. DOMAIN copies' \subseteq DOMAIN table' /\ \A k \in DOMAIN copies' : copies'[k].retries = table'[k].retries
    BY <2>1, <2>2, <2>3, <2>4, OpenIsRecord DEF With, CopiesFollow
  <2>6. req'[h].at = "idle" /\ \A g \in Handlers \ {h} : req'[g] = Idle
    BY <1>0, <2>1, <2>2, IdleAt DEF Finish
  <2>7. AtMostOne' /\ CopiesFollow'
    BY <2>5, <2>6, FollowOne
  <2> QED BY <2>1, <2>2, <2>7
<1>12. ASSUME NEW h \in Handlers, PublishLetter(h) PROVE Goal
  <2>1. UNCHANGED <<table, copies, status, overlapped>> /\ req[h] # Idle /\ req[h].at = "redrive"
        /\ req'[h].at = "published" /\ req'[h].letter = req[h].letter
        /\ \A g \in Handlers \ {h} : req'[g] = req[g]
    BY <1>12, PublishFields DEF PublishLetter
  <2>2. /\ status = "ok" /\ CopiesFollow /\ \A g \in Handlers \ {h} : req[g] = Idle
        /\ \A k \in DOMAIN copies : copies[k].retries = table[k].retries
    BY <2>1, TheOnlyRequest
  <2>3. DOMAIN copies \subseteq DOMAIN table /\ req[h].letter \in DOMAIN copies
    BY <2>1, <2>2 DEF CopiesFollow
  <2>4. AtMostOne' /\ CopiesFollow'
    BY <2>1, <2>2, <2>3, FollowOne
  <2> QED BY <2>1, <2>2, <2>4
<1>13. ASSUME NEW h \in Handlers, UpdateRedriven(h) PROVE Goal
  <2>1. UNCHANGED <<copies, status, overlapped>>
    BY <1>13 DEF UpdateRedriven
  <2>2. PICK l \in DOMAIN table :
          /\ req[h] # Idle /\ req[h].at = "published" /\ req[h].letter = l
          /\ table[l] \in LetterRecords /\ req[h].by \in Operators
          /\ table' = [table EXCEPT ![l] = Redriven(table[l], req[h].by)]
          /\ req'[h].at = "updated" /\ req'[h].letter = l /\ req'[h].result = table'[l]
          /\ \A g \in Handlers \ {h} : req'[g] = req[g]
    BY <1>13, UpdateFields
  <2>3. DOMAIN table' = DOMAIN table /\ table'[l].retries = table[l].retries + 1
        /\ \A k \in DOMAIN table \ {l} : table'[k] = table[k]
    BY <2>2, RedrivenFields
  <2>4. /\ status = "ok" /\ CopiesFollow /\ \A g \in Handlers \ {h} : req[g] = Idle
        /\ \A k \in DOMAIN copies : copies[k].retries = table[k].retries
    BY <2>1, <2>2, TheOnlyRequest
  <2>5. DOMAIN copies \subseteq DOMAIN table /\ l \in DOMAIN copies
    BY <2>2, <2>4 DEF CopiesFollow
  <2>6. AtMostOne' /\ CopiesFollow'
    BY <2>1, <2>2, <2>3, <2>4, <2>5, FollowOne
  <2> QED BY <2>1, <2>4, <2>6
<1>14. ASSUME NEW h \in Handlers, UpdateResolved(h) PROVE Goal
  <2>1. UNCHANGED <<copies, status, overlapped>>
    BY <1>14 DEF UpdateResolved
  <2>2. PICK l \in DOMAIN table :
          /\ req[h] # Idle /\ req[h].at = "resolve" /\ req[h].letter = l
          /\ table[l] \in LetterRecords /\ req[h].by \in Operators
          /\ table' = [table EXCEPT ![l] = Resolved(table[l], req[h].by)]
          /\ req'[h].at = "resolved" /\ req'[h].letter = l /\ req'[h].result = table'[l]
          /\ \A g \in Handlers \ {h} : req'[g] = req[g]
    BY <1>14, ResolveFields
  <2>3. DOMAIN table' = DOMAIN table /\ \A k \in DOMAIN table : table'[k].retries = table[k].retries
    BY <2>2, ResolvedFields
  <2>4. /\ status = "ok" /\ CopiesFollow /\ \A g \in Handlers \ {h} : req[g] = Idle
        /\ \A k \in DOMAIN copies : copies[k].retries = table[k].retries
    BY <2>1, <2>2, TheOnlyRequest
  <2>5. DOMAIN copies \subseteq DOMAIN table
    BY <2>4 DEF CopiesFollow
  <2>6. AtMostOne' /\ CopiesFollow'
    BY <2>1, <2>2, <2>3, <2>4, <2>5, FollowOne
  <2> QED BY <2>1, <2>4, <2>6
<1>15. ASSUME NEW h \in Handlers, RedriveAnswered(h) \/ ResolveAnswered(h) PROVE Goal
  <2>1. UNCHANGED <<table, status, overlapped>> /\ req[h] # Idle /\ req[h].at \in {"updated", "resolved"} /\ Finish(h)
        /\ copies' = With(copies, req[h].letter, req[h].result)
    BY <1>15, IdleAt DEF RedriveAnswered, ResolveAnswered
  <2>2. /\ status = "ok" /\ CopiesFollow /\ \A g \in Handlers \ {h} : req[g] = Idle
        /\ \A k \in DOMAIN copies : k # req[h].letter => copies[k].retries = table[k].retries
    BY <2>1, TheOnlyRequest
  <2>3. PICK l \in DOMAIN table : l = req[h].letter /\ req[h].result = table[l]
    BY <1>0, <2>1, <2>2 DEF Queued, CopiesFollow
  <2>4. copies' = With(copies, l, table[l])
    BY <2>1, <2>3
  <2>5. DOMAIN copies' \subseteq DOMAIN table' /\ \A k \in DOMAIN copies' : copies'[k].retries = table'[k].retries
    BY <2>1, <2>2, <2>3, <2>4 DEF With, CopiesFollow
  <2>6. req'[h].at = "idle" /\ \A g \in Handlers \ {h} : req'[g] = Idle
    BY <1>0, <2>1, <2>2, IdleAt DEF Finish
  <2>7. AtMostOne' /\ CopiesFollow'
    BY <2>5, <2>6, FollowOne
  <2> QED BY <2>1, <2>2, <2>7
<1> QED
  BY <1>2, <1>3, <1>4, <1>5, <1>6, <1>7, <1>8, <1>9, <1>10, <1>11, <1>12, <1>13, <1>14, <1>15, <1>16 DEF Next, Handle

\* An operation on the copies counts no less, and makes no copy.
LEMMA MemoryCounts ==
  ASSUME TypeOK, NEW l \in Letters, NEW by \in Operators, RedriveInMemory(l, by) \/ ResolveInMemory(l, by)
  PROVE  /\ DOMAIN copies' = DOMAIN copies
         /\ \A k \in DOMAIN copies : copies[k].retries \in Nat /\ copies'[k].retries >= copies[k].retries
         /\ RedriveInMemory(l, by) /\ l \in DOMAIN copies => copies'[l].retries = copies[l].retries + 1
<1>0. \A k \in DOMAIN copies : copies[k] \in LetterRecords /\ copies[k].retries \in Nat
  BY DEF TypeOK, LetterRecords
<1>1. CASE l \notin DOMAIN copies
  BY <1>0, <1>1 DEF RedriveInMemory, ResolveInMemory
<1>2. CASE l \in DOMAIN copies /\ RedriveInMemory(l, by)
  <2>1. copies' = [copies EXCEPT ![l] = Redriven(copies[l], by)]
    BY <1>2 DEF RedriveInMemory
  <2>2. Redriven(copies[l], by).retries = copies[l].retries + 1
    BY <1>0, <1>2, RedrivenFields
  <2>3. copies'[l].retries = copies[l].retries + 1
    BY <1>2, <2>1, <2>2
  <2> QED BY <1>0, <2>1, <2>3
<1>3. CASE l \in DOMAIN copies /\ ~RedriveInMemory(l, by)
  <2>1. copies' = [copies EXCEPT ![l] = Resolved(copies[l], by)]
    BY <1>3 DEF ResolveInMemory
  <2>2. Resolved(copies[l], by).retries = copies[l].retries
    BY <1>0, <1>3, ResolvedFields
  <2>3. copies'[l].retries = copies[l].retries
    BY <1>3, <2>1, <2>2
  <2> QED BY <1>0, <1>3, <2>1, <2>3
<1> QED BY <1>1, <1>2, <1>3

LEMMA SeenCounts ==
  ASSUME QueueInv, SeenInv, [Next]_vars, ~overlapped', restarts' = restarts,
         NEW l \in DOMAIN Seen, l \in DOMAIN Seen'
  PROVE  Seen'[l].retries >= Seen[l].retries
<1> USE DEF store, process, aux, bounds
<1>0. TypeOK /\ status \in {"ok", "degraded"}
      /\ (\A k \in DOMAIN table : table[k].retries \in Nat) /\ \A k \in DOMAIN copies : copies[k].retries \in Nat
  BY DEF QueueInv, TypeOK, LetterRecords
<1>1. ASSUME NEW h \in Handlers, StoreFails(h) PROVE Seen'[l].retries >= Seen[l].retries
  <2>1. ~overlapped /\ status' = "degraded" /\ req[h] # Idle /\ req[h].at # "idle"
    BY <1>1, IdleAt DEF StoreFails, MarkDegraded
  <2>2. /\ status = "ok" /\ CopiesFollow
        /\ req[h].at # "updated" => \A k \in DOMAIN copies : copies[k].retries = table[k].retries
        /\ \A k \in DOMAIN copies : k # req[h].letter => copies[k].retries = table[k].retries
    BY <2>1, TheOnlyRequest
  <2>3. l \in DOMAIN table /\ l \in DOMAIN copies' /\ Seen[l] = table[l] /\ Seen'[l] = copies'[l]
    BY <2>1, <2>2 DEF Seen
  <2>4. CASE req[h].at \in {"reject", "rejected"}
    <3>1. PICK m \in Letters : m \notin DOMAIN table /\ copies' = With(copies, m, Open)
      BY <1>1, <2>4 DEF StoreFails, RejectInMemory
    <3>2. l \in DOMAIN copies /\ copies'[l] = copies[l]
      BY <2>3, <3>1 DEF With
    <3>3. copies[l].retries = table[l].retries
      BY <2>2, <2>4, <3>2
    <3> QED BY <1>0, <2>3, <3>2, <3>3
  <2>5. CASE req[h].at \notin {"reject", "rejected"}
    <3>1. req[h] \in CloseType \cup PublishedType \cup UpdatedType \cup ResolvedType
      BY <1>0, <1>1, <2>5, RequestAtStep DEF StoreFails
    <3>2. PICK m \in Letters, by \in Operators : m = req[h].letter /\ by = req[h].by
      BY <3>1 DEF CloseType, PublishedType, UpdatedType, ResolvedType
    <3>3. /\ RedriveInMemory(m, by) \/ ResolveInMemory(m, by)
          /\ req[h].at = "updated" => RedriveInMemory(m, by)
      BY <1>1, <2>5, <3>2 DEF StoreFails
    <3>4. /\ DOMAIN copies' = DOMAIN copies
          /\ \A k \in DOMAIN copies : copies'[k].retries >= copies[k].retries
          /\ RedriveInMemory(m, by) /\ m \in DOMAIN copies => copies'[m].retries = copies[m].retries + 1
      BY <1>0, <3>3, MemoryCounts
    <3>5. l \in DOMAIN copies
      BY <2>3, <3>4
    <3>6. CASE copies[l].retries = table[l].retries
      BY <2>3, <3>4, <3>5, <3>6
    <3>7. CASE copies[l].retries # table[l].retries
      <4>1. req[h].at = "updated" /\ l = m /\ table[l].retries = copies[l].retries + 1
        BY <2>2, <3>2, <3>5, <3>7 DEF CopiesFollow
      <4>2. copies'[l].retries = table[l].retries
        BY <3>3, <3>4, <3>5, <4>1
      <4> QED BY <1>0, <2>3, <4>2
    <3> QED BY <3>6, <3>7
  <2> QED BY <2>4, <2>5
<1>2. ASSUME NEW h \in Handlers, RedriveDegraded(h) PROVE Seen'[l].retries >= Seen[l].retries
  <2>1. PICK m \in Letters, by \in Operators : m = req[h].letter /\ by = req[h].by
    BY <1>0, <1>2, RequestAtStep DEF RedriveDegraded, CloseType
  <2>2. RedriveInMemory(m, by) /\ status = "degraded" /\ status' = "degraded"
    BY <1>2, <2>1 DEF RedriveDegraded
  <2>3. DOMAIN copies' = DOMAIN copies /\ \A k \in DOMAIN copies : copies'[k].retries >= copies[k].retries
    BY <1>0, <2>2, MemoryCounts
  <2> QED BY <2>2, <2>3 DEF Seen
<1>3. ASSUME NEW h \in Handlers, NEW m \in Letters, NEW by \in Operators, OperateDegraded(h, m, by)
      PROVE  Seen'[l].retries >= Seen[l].retries
  <2>1. (RedriveInMemory(m, by) \/ ResolveInMemory(m, by)) /\ status = "degraded" /\ status' = "degraded"
    BY <1>3 DEF OperateDegraded
  <2>2. DOMAIN copies' = DOMAIN copies /\ \A k \in DOMAIN copies : copies'[k].retries >= copies[k].retries
    BY <1>0, <2>1, MemoryCounts
  <2> QED BY <2>1, <2>2 DEF Seen
<1>13. CASE RejectDegraded
  <2>1. PICK m \in Letters : m \notin DOMAIN copies /\ copies' = With(copies, m, Open)
    BY <1>13 DEF RejectDegraded, RejectInMemory
  <2>2. status = "degraded" /\ status' = "degraded"
    BY <1>13 DEF RejectDegraded
  <2>3. l \in DOMAIN copies /\ copies'[l] = copies[l]
    BY <2>1, <2>2 DEF Seen, With
  <2> QED BY <1>0, <2>2, <2>3 DEF Seen
<1>4. CASE Restart
  BY <1>0, <1>4 DEF Restart, QueueInv, TypeOK, NewProcess
<1>5. ASSUME UNCHANGED <<copies, status>>, table' = table PROVE Seen'[l].retries >= Seen[l].retries
  BY <1>0, <1>5 DEF Seen
<1>6. ASSUME NEW h \in Handlers, UpdateRedriven(h) PROVE Seen'[l].retries >= Seen[l].retries
  <2>1. ~overlapped /\ UNCHANGED <<copies, status>>
    BY <1>6 DEF UpdateRedriven
  <2>2. status = "ok"
    BY <1>6, <2>1, UpdateFields, TheOnlyRequest
  <2>3. l \in DOMAIN table /\ Seen[l] = table[l] /\ Seen'[l] = table'[l]
    BY <2>1, <2>2 DEF Seen
  <2>4. CASE l = req[h].letter
    <3>1. table'[l].retries = table[l].retries + 1
      BY <1>6, <2>4, UpdateFields, RedrivenFields
    <3> QED BY <1>0, <2>3, <3>1
  <2>5. CASE l # req[h].letter
    <3>1. table'[l] = table[l]
      BY <1>6, <2>3, <2>5, UpdateFields
    <3> QED BY <1>0, <2>3, <3>1
  <2> QED BY <2>4, <2>5
<1>7. ASSUME NEW h \in Handlers, PublishLetter(h) PROVE Seen'[l].retries >= Seen[l].retries
  BY <1>5, <1>7 DEF PublishLetter
<1>8. CASE status' = "ok" /\ status = "ok" /\ \A h \in Handlers : ~PublishLetter(h) /\ ~UpdateRedriven(h)
  <2>1. l \in DOMAIN table /\ l \in DOMAIN table' /\ Seen[l] = table[l] /\ Seen'[l] = table'[l]
    BY <1>8 DEF Seen
  <2>2. table'[l].retries = table[l].retries
    BY <1>8, <2>1, OtherSteps
  <2> QED BY <1>0, <2>1, <2>2
<1>9. ASSUME NEW h \in Handlers,
             InsertLetter(h) \/ RejectAnswered(h) \/ RedriveAnswered(h) \/ UpdateResolved(h) \/ ResolveAnswered(h)
      PROVE  status = "ok" /\ status' = "ok"
  <2>1. req[h] # Idle
    BY <1>9, IdleAt DEF InsertLetter, RejectAnswered, RedriveAnswered, UpdateResolved, ResolveAnswered
  <2>2. ~overlapped /\ status' = status
    BY <1>9 DEF InsertLetter, RejectAnswered, RedriveAnswered, UpdateResolved, ResolveAnswered
  <2> QED BY <2>1, <2>2, TheOnlyRequest
<1>10. ASSUME NEW h \in Handlers, NEW m \in Letters, Reject(h, m) PROVE status = "ok" /\ status' = "ok"
  BY <1>10 DEF Reject
<1>11. ASSUME NEW h \in Handlers, NEW m \in Letters, NEW by \in Operators, Redrive(h, m, by) \/ Resolve(h, m, by)
       PROVE  status = "ok" /\ status' = "ok"
  BY <1>11 DEF Redrive, Resolve
<1>12. CASE UNCHANGED vars
  BY <1>5, <1>12 DEF vars
<1> QED
  BY <1>1, <1>2, <1>3, <1>4, <1>6, <1>7, <1>8, <1>9, <1>10, <1>11, <1>12, <1>13 DEF Next, Handle

(* What an operator sees of a letter loses no counted re-drive while one     *)
(* process runs, also when the store is given up in the middle of a re-drive *)
(* and the copies take over, as long as requests come one after the other.   *)
THEOREM RetriesStayCounted == Spec => RetriesNeverLost
<1>1. Init => SeenInv
  <2>1. DOMAIN Empty = {}
    BY DEF Empty
  <2> QED BY <2>1, IdleAt DEF Init, SeenInv, AtMostOne, CopiesFollow, StoreInit
<1>2. QueueInv /\ SeenInv /\ [Next]_vars => SeenInv'
  BY SeenStep
<1>3. QueueInv /\ SeenInv /\ [Next]_vars =>
        [\A l \in DOMAIN Seen \cap DOMAIN Seen' :
           restarts' = restarts /\ ~overlapped' => Seen'[l].retries >= Seen[l].retries]_vars
  BY SeenCounts
<1> QED BY <1>1, <1>2, <1>3, QueueAlways, PTL DEF Spec, RetriesNeverLost

-----------------------------------------------------------------------------
(* The replay cursor.                                                        *)

CursorRequests == {Idle} \cup [at : {"get", "ack", "answered", "missing"}, offset : Offsets]

-----------------------------------------------------------------------------
LEMMA LargerIsUpperBound ==
  ASSUME NEW m \in Nat, NEW n \in Nat
  PROVE  Larger(m, n) \in {m, n} /\ Larger(m, n) >= m /\ Larger(m, n) >= n
BY DEF Larger

LEMMA OffsetsAreNat == Offsets \subseteq Nat
BY DEF Offsets

LEMMA LargerOffset ==
  ASSUME NEW m \in Offsets, NEW n \in Offsets
  PROVE  Larger(m, n) \in Offsets
BY DEF Larger

\* A handler that is not idle has a request with an offset.
LEMMA CursorRequestHasOffset ==
  ASSUME CursorTypeOK, NEW h \in Handlers, req[h].at \in {"get", "ack", "answered", "missing"}
  PROVE  req[h].offset \in Offsets
<1>1. req[h] \in CursorRequests
  BY DEF CursorTypeOK, CursorRequests
<1>2. Idle.at = "idle"
  BY DEF Idle
<1> QED BY <1>1, <1>2 DEF CursorRequests

LEMMA CursorTypeInit == CursorInit => CursorTypeOK
<1> SUFFICES ASSUME CursorInit PROVE CursorTypeOK
  OBVIOUS
<1>1. 0 \in Offsets
  BY DEF Offsets
<1> QED BY <1>1 DEF CursorInit, CursorTypeOK, StoreInit

LEMMA CursorTypeStep == CursorTypeOK /\ [CursorNext]_cursorVars => CursorTypeOK'
<1> SUFFICES ASSUME CursorTypeOK, [CursorNext]_cursorVars PROVE CursorTypeOK'
  OBVIOUS
<1> USE OffsetsAreNat DEF CursorTypeOK
<1>0. 0 \in Offsets
  BY DEF Offsets
<1>1. ASSUME NEW h \in Handlers, GetEdgeCursor(h) PROVE CursorTypeOK'
  BY <1>0, <1>1 DEF GetEdgeCursor, Begin
<1>2. ASSUME NEW h \in Handlers, NEW n \in Offsets, UpdateEdgeCursor(h, n) PROVE CursorTypeOK'
  BY <1>2 DEF UpdateEdgeCursor, Begin
<1>3. ASSUME NEW h \in Handlers, Select(h) PROVE CursorTypeOK'
  BY <1>3 DEF Select
<1>4. ASSUME NEW h \in Handlers, Upsert(h) PROVE CursorTypeOK'
  <2>1. row' \in Offsets
    BY <1>4, CursorRequestHasOffset, LargerOffset DEF Upsert
  <2> QED BY <1>4, <2>1 DEF Upsert
<1>5. ASSUME NEW h \in Handlers, StoreAnswers(h) PROVE CursorTypeOK'
  <2>1. cache' \in Offsets /\ promised' \in Offsets
    BY <1>5, CursorRequestHasOffset, LargerOffset DEF StoreAnswers, Answer, Finish
  <2> QED BY <1>5, <2>1 DEF StoreAnswers, Answer, Finish
<1>12. ASSUME NEW h \in Handlers, NoRowAnswered(h) PROVE CursorTypeOK'
  <2>1. promised' \in Offsets
    BY <1>0, <1>12, LargerOffset DEF NoRowAnswered, Answer, Finish
  <2> QED BY <1>12, <2>1 DEF NoRowAnswered, Answer, Finish
<1>6. ASSUME NEW h \in Handlers, GetFails(h) PROVE CursorTypeOK'
  <2>1. promised' \in Offsets
    BY <1>6, LargerOffset DEF GetFails, FallbackGet, Answer, MarkDegraded, Finish
  <2> QED BY <1>6, <2>1 DEF GetFails, FallbackGet, Answer, MarkDegraded, Finish
<1>7. ASSUME NEW h \in Handlers, AckFails(h) PROVE CursorTypeOK'
  <2>1. req[h].offset \in Offsets
    BY <1>7, CursorRequestHasOffset DEF AckFails, MarkDegraded
  <2>2. stored' \in BOOLEAN /\ row' \in Offsets
    BY <1>7, <2>1, LargerOffset DEF AckFails, MarkDegraded
  <2>4. cache' \in Offsets
    BY <1>7, <2>1, LargerOffset DEF AckFails, Acknowledge, MarkDegraded
  <2>3. promised' \in Offsets
    BY <1>7, <2>4, LargerOffset DEF AckFails, Acknowledge, Answer, MarkDegraded, Finish
  <2> QED BY <1>7, <2>2, <2>3, <2>4 DEF AckFails, Acknowledge, Answer, MarkDegraded, Finish
<1>8. ASSUME NEW h \in Handlers, GetDegraded(h) PROVE CursorTypeOK'
  <2>1. promised' \in Offsets
    BY <1>8, LargerOffset DEF GetDegraded, FallbackGet, Answer, Finish
  <2> QED BY <1>8, <2>1 DEF GetDegraded, FallbackGet, Answer, Finish
<1>9. ASSUME NEW h \in Handlers, NEW n \in Offsets, AckDegraded(h, n) PROVE CursorTypeOK'
  <2>1. cache' \in Offsets
    BY <1>9, LargerOffset DEF AckDegraded, Acknowledge
  <2>2. promised' \in Offsets
    BY <1>9, <2>1, LargerOffset DEF AckDegraded, Acknowledge, Answer, Finish
  <2> QED BY <1>9, <2>1, <2>2 DEF AckDegraded, Acknowledge, Answer, Finish
<1>10. CASE CursorRestart
  BY <1>0, <1>10 DEF CursorRestart, NewProcess
<1>11. CASE UNCHANGED cursorVars
  BY <1>11 DEF cursorVars
<1> QED
  BY <1>1, <1>2, <1>3, <1>4, <1>5, <1>12, <1>6, <1>7, <1>8, <1>9, <1>10, <1>11 DEF CursorNext

(* Type correctness of the cursor's row, copy and requests.                  *)
THEOREM CursorTypeCorrect == CursorSpec => []CursorTypeOK
<1> QED BY CursorTypeInit, CursorTypeStep, PTL DEF CursorSpec

-----------------------------------------------------------------------------
(* While the store answers, neither what was promised nor what a request has *)
(* been answered and not yet served is above the row.                        *)
CursorStoreInv ==
  faults = 0 =>
    /\ status = "ok"
    /\ promised <= row
    /\ \A h \in Handlers : req[h].at = "answered" => req[h].offset <= row

LEMMA CursorStoreInit == CursorInit => CursorStoreInv
BY DEF CursorInit, CursorStoreInv, Idle, StoreInit

LEMMA CursorStoreStep == CursorTypeOK /\ CursorStoreInv /\ [CursorNext]_cursorVars => CursorStoreInv'
<1> SUFFICES ASSUME CursorTypeOK, CursorStoreInv, [CursorNext]_cursorVars, faults' = 0 PROVE CursorStoreInv'
  BY DEF CursorStoreInv
<1>0. /\ faults \in Nat /\ row \in Nat /\ promised \in Nat
      /\ req \in [Handlers -> CursorRequests]
  BY OffsetsAreNat DEF CursorTypeOK, CursorRequests
<1>f. faults = 0
  <2>1. CASE CursorRestart
    BY <1>0, <2>1 DEF CursorRestart, NewProcess
  <2>2. ASSUME NEW h \in Handlers, GetFails(h) \/ AckFails(h) PROVE FALSE
    BY <1>0, <2>2 DEF GetFails, AckFails, MarkDegraded
  <2>3. CASE faults' = faults
    BY <2>3
  <2> QED BY <2>1, <2>2, <2>3 DEF CursorNext, cursorVars, GetEdgeCursor, UpdateEdgeCursor, Select,
       Upsert, StoreAnswers, NoRowAnswered, GetDegraded, AckDegraded
<1>i. /\ status = "ok" /\ promised <= row
      /\ \A h \in Handlers : req[h].at = "answered" => req[h].offset <= row
  BY <1>f DEF CursorStoreInv
<1>1. ASSUME NEW h \in Handlers, GetEdgeCursor(h) PROVE CursorStoreInv'
  BY <1>0, <1>i, <1>1 DEF GetEdgeCursor, Begin, CursorStoreInv
<1>2. ASSUME NEW h \in Handlers, NEW n \in Offsets, UpdateEdgeCursor(h, n) PROVE CursorStoreInv'
  BY <1>0, <1>i, <1>2 DEF UpdateEdgeCursor, Begin, CursorStoreInv
<1>3. ASSUME NEW h \in Handlers, Select(h) PROVE CursorStoreInv'
  BY <1>0, <1>i, <1>3 DEF Select, CursorStoreInv
<1>4. ASSUME NEW h \in Handlers, Upsert(h) PROVE CursorStoreInv'
  <2>1. req[h].offset \in Nat
    BY <1>4, CursorRequestHasOffset, OffsetsAreNat DEF Upsert
  <2>2. row' \in Nat /\ row' >= row
    BY <1>0, <1>4, <2>1, LargerIsUpperBound DEF Upsert
  <2>3. \A g \in Handlers : req[g].at = "answered" => req[g].offset \in Nat
    BY CursorRequestHasOffset, OffsetsAreNat
  <2> QED BY <1>0, <1>i, <1>4, <2>2, <2>3 DEF Upsert, CursorStoreInv
<1>5. ASSUME NEW h \in Handlers, StoreAnswers(h) PROVE CursorStoreInv'
  <2>1. req[h].offset \in Nat /\ req[h].offset <= row
    BY <1>i, <1>5, CursorRequestHasOffset, OffsetsAreNat DEF StoreAnswers
  <2>2. promised' <= row
    BY <1>0, <1>i, <1>5, <2>1 DEF StoreAnswers, Answer, Larger, Finish
  <2>3. \A g \in Handlers : req'[g] = req[g] \/ req'[g] = Idle
    BY <1>0, <1>5 DEF StoreAnswers, Answer, Finish
  <2> QED BY <1>i, <1>5, <2>2, <2>3 DEF StoreAnswers, CursorStoreInv, Idle
<1>10. ASSUME NEW h \in Handlers, NoRowAnswered(h) PROVE CursorStoreInv'
  <2>1. promised' = promised
    BY <1>0, <1>10 DEF NoRowAnswered, Answer, Larger, Finish
  <2>2. \A g \in Handlers : req'[g] = req[g] \/ req'[g] = Idle
    BY <1>0, <1>10 DEF NoRowAnswered, Answer, Finish
  <2> QED BY <1>i, <1>10, <2>1, <2>2 DEF NoRowAnswered, CursorStoreInv, Idle
<1>6. ASSUME NEW h \in Handlers, GetFails(h) \/ AckFails(h) PROVE CursorStoreInv'
  BY <1>0, <1>6 DEF GetFails, AckFails, MarkDegraded
<1>7. ASSUME NEW h \in Handlers,
             GetDegraded(h) \/ \E n \in Offsets : AckDegraded(h, n) PROVE CursorStoreInv'
  BY <1>i, <1>7 DEF GetDegraded, AckDegraded
<1>8. CASE CursorRestart
  BY <1>0, <1>i, <1>8 DEF CursorRestart, CursorStoreInv, Idle, NewProcess
<1>9. CASE UNCHANGED cursorVars
  BY <1>i, <1>9 DEF cursorVars, CursorStoreInv
<1> QED
  BY <1>1, <1>2, <1>3, <1>4, <1>5, <1>10, <1>6, <1>7, <1>8, <1>9 DEF CursorNext

(* While the store answers the cursor served never moves back, whichever     *)
(* requests race and whenever the API restarts.                              *)
THEOREM CursorIsMonotone == CursorSpec => []CursorNeverBack
<1>1. CursorTypeOK /\ CursorStoreInv => CursorNeverBack
  BY OffsetsAreNat DEF CursorTypeOK, CursorStoreInv, CursorNeverBack, Served
<1> QED BY <1>1, CursorTypeInit, CursorTypeStep, CursorStoreInit, CursorStoreStep, PTL DEF CursorSpec

-----------------------------------------------------------------------------
(* Requests that come one after the other: there is at most one, none once   *)
(* the store is given up, and the copy, which is all that is left then,      *)
(* already has what was promised.  What a request was answered by the store, *)
(* and has not served yet, is between what was promised and the row.         *)
Alone == \A g, h \in Handlers : req[g] # Idle /\ req[h] # Idle => g = h

CopyHolds ==
  /\ promised <= cache
  /\ status = "ok" => promised <= row
  /\ status # "ok" => \A h \in Handlers : req[h] = Idle
  /\ \A h \in Handlers :
       req[h].at = "answered" => promised <= req[h].offset /\ req[h].offset <= row

FallbackInv == restarts = 0 /\ ~overlapped => Alone /\ CopyHolds

LEMMA FallbackStart == CursorInit => FallbackInv
BY DEF CursorInit, FallbackInv, Alone, CopyHolds, Idle, StoreInit

\* A handler that finishes leaves no request behind.
LEMMA LastRequestLeaves ==
  ASSUME CursorTypeOK, Alone, NEW h \in Handlers, req[h] # Idle,
         req' = [req EXCEPT ![h] = Idle]
  PROVE  \A g \in Handlers : req'[g] = Idle
BY DEF CursorTypeOK, Alone

\* Nothing is pending where every request is idle.
LEMMA IdleIsNotAnswered ==
  ASSUME NEW h \in Handlers, req[h] = Idle
  PROVE  req[h].at = "idle"
BY DEF Idle

LEMMA FallbackStep == CursorTypeOK /\ FallbackInv /\ [CursorNext]_cursorVars => FallbackInv'
<1> SUFFICES ASSUME CursorTypeOK, FallbackInv, [CursorNext]_cursorVars, restarts' = 0, ~overlapped'
             PROVE  (Alone /\ CopyHolds)'
  BY DEF FallbackInv
<1>0. /\ restarts \in Nat /\ row \in Nat /\ cache \in Nat /\ promised \in Nat
      /\ req \in [Handlers -> CursorRequests] /\ overlapped \in BOOLEAN
  BY OffsetsAreNat DEF CursorTypeOK, CursorRequests
<1>n. ~CursorRestart
  BY <1>0 DEF CursorRestart, NewProcess
<1>s. restarts = 0 /\ ~overlapped
  BY <1>0, <1>n DEF CursorNext, cursorVars, GetEdgeCursor, UpdateEdgeCursor, Begin, Select, Upsert,
     StoreAnswers, NoRowAnswered, GetFails, AckFails, GetDegraded, AckDegraded, MarkDegraded
<1>i. Alone /\ CopyHolds
  BY <1>s DEF FallbackInv
<1>a. Idle.at = "idle"
  BY DEF Idle
<1>1. ASSUME NEW h \in Handlers, NEW r \in CursorRequests, r.at # "answered", status = "ok",
             Begin(h, r), UNCHANGED <<row, cache, status, promised>>
      PROVE  (Alone /\ CopyHolds)'
  <2>1. \A g \in Handlers : req[g] = Idle
    BY <1>1 DEF Begin
  <2>2. \A g \in Handlers : req'[g] = IF g = h THEN r ELSE Idle
    BY <1>0, <1>1, <2>1 DEF Begin
  <2>3. Alone'
    BY <2>2 DEF Alone
  <2>4. CopyHolds'
    BY <1>i, <1>a, <1>1, <2>2 DEF CopyHolds
  <2> QED BY <2>3, <2>4
<1>2. ASSUME NEW h \in Handlers, GetEdgeCursor(h) PROVE (Alone /\ CopyHolds)'
  <2>1. [at |-> "get", offset |-> 0] \in CursorRequests
    BY DEF CursorRequests, Offsets
  <2> QED BY <1>1, <1>2, <2>1 DEF GetEdgeCursor
<1>3. ASSUME NEW h \in Handlers, NEW n \in Offsets, UpdateEdgeCursor(h, n)
      PROVE  (Alone /\ CopyHolds)'
  <2>1. [at |-> "ack", offset |-> n] \in CursorRequests
    BY DEF CursorRequests
  <2> QED BY <1>1, <1>3, <2>1 DEF UpdateEdgeCursor
\* The store answers a request: it was the only one.
<1>4. ASSUME NEW h \in Handlers, req[h] # Idle, promised <= row', row' \in Nat,
             UNCHANGED <<cache, status, promised>>, NEW at \in {"answered", "missing"},
             req' = [req EXCEPT ![h] = [at |-> at, offset |-> row']]
      PROVE  (Alone /\ CopyHolds)'
  <2>1. \A g \in Handlers : g # h => req[g] = Idle
    BY <1>i, <1>4 DEF Alone
  <2>2. \A g \in Handlers : g # h => req'[g] = Idle
    BY <1>0, <1>4, <2>1
  <2>3. req'[h] = [at |-> at, offset |-> row']
    BY <1>0, <1>4
  <2>4. Alone'
    BY <2>2 DEF Alone
  <2>5. status = "ok"
    BY <1>i, <1>4 DEF CopyHolds
  <2>6. \A g \in Handlers : req'[g].at = "answered" => g = h
    BY <1>a, <2>2
  <2>7. promised' <= cache' /\ (status' = "ok" => promised' <= row')
    BY <1>0, <1>i, <1>4 DEF CopyHolds
  <2>8. CopyHolds'
    BY <1>0, <1>4, <2>3, <2>5, <2>6, <2>7 DEF CopyHolds
  <2> QED BY <2>4, <2>8
<1>5. ASSUME NEW h \in Handlers, Select(h) PROVE (Alone /\ CopyHolds)'
  <2>1. req[h] # Idle
    BY <1>a, <1>5 DEF Select
  <2>2. promised <= row
    BY <1>i, <2>1 DEF CopyHolds
  <2>3. PICK at \in {"answered", "missing"} : req' = [req EXCEPT ![h] = [at |-> at, offset |-> row']]
    BY <1>5 DEF Select
  <2> QED BY <1>0, <1>4, <1>5, <2>1, <2>2, <2>3 DEF Select
<1>6. ASSUME NEW h \in Handlers, Upsert(h) PROVE (Alone /\ CopyHolds)'
  <2>1. req[h] # Idle
    BY <1>a, <1>6 DEF Upsert
  <2>2. promised <= row
    BY <1>i, <2>1 DEF CopyHolds
  <2>3. req[h].offset \in Nat
    BY <1>6, CursorRequestHasOffset, OffsetsAreNat DEF Upsert
  <2>4. row' \in Nat /\ row' >= row
    BY <1>0, <1>6, <2>3, LargerIsUpperBound DEF Upsert
  <2>5. promised <= row'
    BY <1>0, <2>2, <2>4
  <2>6. req' = [req EXCEPT ![h] = [at |-> "answered", offset |-> row']]
    BY <1>6 DEF Upsert
  <2> QED BY <1>4, <1>6, <2>1, <2>4, <2>5, <2>6 DEF Upsert
\* A request ends and the copy has what it served.
<1>7. ASSUME NEW h \in Handlers, \A g \in Handlers : req'[g] = Idle,
             promised' <= cache', status' = "ok" => promised' <= row'
      PROVE  (Alone /\ CopyHolds)'
  BY <1>a, <1>7 DEF Alone, CopyHolds
<1>8. ASSUME NEW h \in Handlers, StoreAnswers(h) PROVE (Alone /\ CopyHolds)'
  <2>1. req[h] # Idle
    BY <1>a, <1>8 DEF StoreAnswers
  <2>2. \A g \in Handlers : req'[g] = Idle
    BY <1>i, <1>8, <2>1, LastRequestLeaves DEF StoreAnswers, Answer, Finish
  <2>3. /\ req[h].offset \in Nat
        /\ promised <= req[h].offset /\ req[h].offset <= row /\ promised <= cache
    BY <1>i, <1>8, CursorRequestHasOffset, OffsetsAreNat DEF StoreAnswers, CopyHolds
  <2>4. promised' = req[h].offset
    BY <1>0, <1>8, <2>3 DEF StoreAnswers, Answer, Larger, Finish
  <2>5. promised' <= cache' /\ promised' <= row'
    BY <1>0, <1>8, <2>3, <2>4 DEF StoreAnswers
  <2> QED BY <1>7, <2>2, <2>5
<1>15. ASSUME NEW h \in Handlers, NoRowAnswered(h) PROVE (Alone /\ CopyHolds)'
  <2>1. req[h] # Idle
    BY <1>a, <1>15 DEF NoRowAnswered
  <2>2. \A g \in Handlers : req'[g] = Idle
    BY <1>i, <1>15, <2>1, LastRequestLeaves DEF NoRowAnswered, Answer, Finish
  <2>3. promised' = promised
    BY <1>0, <1>15 DEF NoRowAnswered, Answer, Larger, Finish
  <2> QED BY <1>i, <1>7, <1>15, <2>2, <2>3 DEF NoRowAnswered, CopyHolds
<1>9. ASSUME NEW h \in Handlers, GetFails(h) PROVE (Alone /\ CopyHolds)'
  <2>1. req[h] # Idle
    BY <1>a, <1>9 DEF GetFails, MarkDegraded
  <2>2. \A g \in Handlers : req'[g] = Idle
    BY <1>i, <1>9, <2>1, LastRequestLeaves DEF GetFails, FallbackGet, Answer, MarkDegraded, Finish
  <2>3. promised' <= cache' /\ status' # "ok"
    BY <1>0, <1>i, <1>9 DEF GetFails, FallbackGet, Answer, Larger, CopyHolds, MarkDegraded, Finish
  <2> QED BY <1>7, <2>2, <2>3
\* Whatever offset is acknowledged to the copy, the copy holds what is served.
<1>10. ASSUME NEW h \in Handlers, NEW n \in Nat, Acknowledge(h, n) PROVE promised' <= cache'
  BY <1>0, <1>i, <1>10 DEF Acknowledge, Answer, Larger, CopyHolds, Finish
<1>11. ASSUME NEW h \in Handlers, AckFails(h) PROVE (Alone /\ CopyHolds)'
  <2>1. req[h] # Idle
    BY <1>a, <1>11 DEF AckFails, MarkDegraded
  <2>2. \A g \in Handlers : req'[g] = Idle
    BY <1>i, <1>11, <2>1, LastRequestLeaves DEF AckFails, Acknowledge, Answer, MarkDegraded, Finish
  <2>3. req[h].offset \in Nat
    BY <1>11, CursorRequestHasOffset, OffsetsAreNat DEF AckFails, MarkDegraded
  <2>4. promised' <= cache' /\ status' # "ok"
    BY <1>10, <1>11, <2>3 DEF AckFails, MarkDegraded
  <2> QED BY <1>7, <2>2, <2>4
<1>12. ASSUME NEW h \in Handlers, GetDegraded(h) PROVE (Alone /\ CopyHolds)'
  <2>1. \A g \in Handlers : req'[g] = Idle
    BY <1>0, <1>i, <1>12 DEF GetDegraded, FallbackGet, Answer, CopyHolds, Finish
  <2>2. promised' <= cache' /\ status' # "ok"
    BY <1>0, <1>i, <1>12 DEF GetDegraded, FallbackGet, Answer, Larger, CopyHolds, Finish
  <2> QED BY <1>7, <2>1, <2>2
<1>13. ASSUME NEW h \in Handlers, NEW n \in Offsets, AckDegraded(h, n)
       PROVE  (Alone /\ CopyHolds)'
  <2>1. \A g \in Handlers : req'[g] = Idle
    BY <1>0, <1>i, <1>13 DEF AckDegraded, Acknowledge, Answer, CopyHolds, Finish
  <2>2. promised' <= cache' /\ status' # "ok"
    BY <1>10, <1>13, OffsetsAreNat DEF AckDegraded
  <2> QED BY <1>7, <2>1, <2>2
<1>14. CASE UNCHANGED cursorVars
  BY <1>i, <1>14 DEF cursorVars, Alone, CopyHolds
<1> QED
  BY <1>n, <1>2, <1>3, <1>5, <1>6, <1>8, <1>15, <1>9, <1>11, <1>12, <1>13, <1>14 DEF CursorNext

(* As long as the process lives and its requests come one after the other,   *)
(* the cursor served does not move back when the store fails, at any         *)
(* statement and whether or not the statement took effect.                   *)
THEOREM FallbackIsMonotone == CursorSpec => []FallbackNeverBack
<1>1. CursorTypeOK /\ FallbackInv => FallbackNeverBack
  BY OffsetsAreNat
     DEF CursorTypeOK, FallbackInv, CopyHolds, FallbackNeverBack, Served
<1> QED BY <1>1, CursorTypeInit, CursorTypeStep, FallbackStart, FallbackStep, PTL DEF CursorSpec
=============================================================================
