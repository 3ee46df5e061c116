---------------------------- MODULE DeadLetters -----------------------------
(***************************************************************************)
(* The dead letter queue of the COP API.  An operator re-drives a rejected  *)
(* event, which publishes it and then updates the letter in a statement of  *)
(* its own, or resolves the letter.  The process keeps a copy of every      *)
(* letter it has handled and works on the copies after a store error.       *)
(***************************************************************************)
EXTENDS FederationStore, FiniteSets

CONSTANTS
  Letters,     \* dead letters
  Anonymous,   \* letters whose event has no id: each publication gets a new one
  Operators,   \* who closes letters
  MaxRedrives  \* bound on counted re-drives of one letter

ASSUME LetterAssumption ==
  /\ Anonymous \subseteq Letters
  /\ IsFiniteSet(Handlers)
  /\ MaxRedrives \in Nat

VARIABLES
  table,     \* cop_domain_dead_letters: a record for each stored letter
  published, \* cop_domain_events: publications of letters
  copies,    \* state.domainDeadLetters of the process
  known,     \* publications in state.domainEvents of the process
  rejected,  \* letters whose producer has had its 4xx answer
  fellBack   \* some process has left the store

store == <<table, published>>
process == <<copies, known, status>>
bounds == <<fellBack, faults, restarts>>
aux == <<rejected, bounds, overlapped>>
vars == <<store, process, req, aux>>

None == "none"
Open == [status |-> "open", retries |-> 0, closedBy |-> None]

\* Replaces or adds the entry of one letter.
With(f, l, v) == [k \in DOMAIN f \cup {l} |-> IF k = l THEN v ELSE f[k]]
Empty == [l \in {} |-> Open]

\* The first to close a letter stays recorded (COALESCE, ??=).
FirstCloser(letter, by) == IF letter.closedBy = None THEN by ELSE letter.closedBy

\* Mutant: the latest closer is recorded.
RedrivenByLatest(letter, by) ==
  [status |-> "redriven", retries |-> letter.retries + 1, closedBy |-> by]

Redriven(letter, by) ==
  [status |-> "redriven", retries |-> letter.retries + 1,
   closedBy |-> FirstCloser(letter, by)]

Resolved(letter, by) ==
  [letter EXCEPT !.status = "resolved", !.closedBy = FirstCloser(letter, by)]

\* The publication a re-drive of the letter makes now: the event id of the
\* letter, or a new one.
Publications(l) == {e \in published \cup known : e[1] = l}
Publication(l) == IF l \in Anonymous THEN <<l, Cardinality(Publications(l)) + 1>> ELSE <<l, 0>>

Init ==
  /\ StoreInit
  /\ table = Empty
  /\ published = {}
  /\ copies = Empty
  /\ known = {}
  /\ rejected = {}
  /\ fellBack = FALSE

MayRedrive(l) ==
  /\ l \in DOMAIN table => table[l].retries < MaxRedrives
  /\ l \in DOMAIN copies => copies[l].retries < MaxRedrives

GoTo(h, at) == req' = [req EXCEPT ![h].at = at]

-----------------------------------------------------------------------------
(* A producer's event is rejected: the letter is stored before the answer.   *)

Reject(h, l) ==
  /\ status = "ok"
  /\ l \notin DOMAIN table \cup DOMAIN copies
  /\ \A g \in Handlers : req[g] # Idle => req[g].letter # l
  /\ Begin(h, [at |-> "reject", letter |-> l, by |-> None])
  /\ UNCHANGED <<store, process, rejected, bounds>>

InsertLetter(h) ==
  /\ req[h].at = "reject"
  /\ table' = With(table, req[h].letter, Open)
  /\ GoTo(h, "rejected")
  /\ UNCHANGED <<published, process, aux>>

\* Mutant: the letter is answered while its insert is under way.
RejectAnsweredEarly(h) ==
  /\ req[h].at \in {"reject", "rejected"}
  /\ copies' = With(copies, req[h].letter, Open)
  /\ rejected' = rejected \cup {req[h].letter}
  /\ Finish(h)
  /\ UNCHANGED <<store, known, status, bounds, overlapped>>

RejectAnswered(h) ==
  /\ req[h].at = "rejected"
  /\ copies' = IF req[h].letter \in DOMAIN copies THEN copies
               ELSE With(copies, req[h].letter, Open)
  /\ rejected' = rejected \cup {req[h].letter}
  /\ Finish(h)
  /\ UNCHANGED <<store, known, status, bounds, overlapped>>

-----------------------------------------------------------------------------
(* POST dead-letter/:id/redrive: read the letter, publish, update, answer.   *)

Redrive(h, l, by) ==
  /\ status = "ok"
  /\ l \in DOMAIN table
  /\ MayRedrive(l)
  /\ copies' = IF l \in DOMAIN copies THEN copies ELSE With(copies, l, table[l])
  /\ Begin(h, [at |-> "redrive", letter |-> l, by |-> by])
  /\ UNCHANGED <<store, known, status, rejected, bounds>>

PublishLetter(h) ==
  /\ req[h].at = "redrive"
  /\ status = "ok"
  /\ published' = published \cup {Publication(req[h].letter)}
  /\ req' = [req EXCEPT ![h] =
       [at |-> "published", letter |-> @.letter, by |-> @.by,
        event |-> Publication(@.letter)]]
  /\ UNCHANGED <<table, process, aux>>

\* Mutant: the letter is updated before its event is published.
UpdateRedrivenFirst(h) ==
  /\ req[h].at \in {"redrive", "published"}
  /\ table' = [table EXCEPT ![req[h].letter] = Redriven(@, req[h].by)]
  /\ req' = [req EXCEPT ![h] =
       [at |-> "updated", letter |-> @.letter, by |-> @.by,
        event |-> Publication(@.letter), result |-> table'[@.letter]]]
  /\ UNCHANGED <<published, process, aux>>

UpdateRedriven(h) ==
  /\ req[h].at = "published"
  /\ table' = [table EXCEPT ![req[h].letter] = Redriven(@, req[h].by)]
  /\ req' = [req EXCEPT ![h] =
       [at |-> "updated", letter |-> @.letter, by |-> @.by,
        event |-> @.event, result |-> table'[@.letter]]]
  /\ UNCHANGED <<published, process, aux>>

\* Mutant: the copy is kept as it was read.
RedriveAnsweredStale(h) ==
  /\ req[h].at = "updated"
  /\ known' = known \cup {req[h].event}
  /\ Finish(h)
  /\ UNCHANGED <<store, copies, status, aux>>

RedriveAnswered(h) ==
  /\ req[h].at = "updated"
  /\ copies' = With(copies, req[h].letter, req[h].result)
  /\ known' = known \cup {req[h].event}
  /\ Finish(h)
  /\ UNCHANGED <<store, status, aux>>

-----------------------------------------------------------------------------
(* POST dead-letter/:id/resolve: one update, whatever the letter's status.   *)

Resolve(h, l, by) ==
  /\ status = "ok"
  /\ l \in DOMAIN table
  /\ Begin(h, [at |-> "resolve", letter |-> l, by |-> by])
  /\ UNCHANGED <<store, process, rejected, bounds>>

UpdateResolved(h) ==
  /\ req[h].at = "resolve"
  /\ table' = [table EXCEPT ![req[h].letter] = Resolved(@, req[h].by)]
  /\ req' = [req EXCEPT ![h] =
       [at |-> "resolved", letter |-> @.letter, by |-> @.by, result |-> table'[@.letter]]]
  /\ UNCHANGED <<published, process, aux>>

ResolveAnswered(h) ==
  /\ req[h].at = "resolved"
  /\ copies' = With(copies, req[h].letter, req[h].result)
  /\ Finish(h)
  /\ UNCHANGED <<store, known, status, aux>>

-----------------------------------------------------------------------------
(* Without the store: the same operations on the copies of the process.      *)

\* A letter nobody kept is "not found", which ends the request.
RedriveInMemory(l, by) ==
  /\ known' = known \cup {Publication(l)}
  /\ copies' = IF l \in DOMAIN copies
               THEN [copies EXCEPT ![l] = Redriven(@, by)] ELSE copies

ResolveInMemory(l, by) ==
  /\ copies' = IF l \in DOMAIN copies
               THEN [copies EXCEPT ![l] = Resolved(@, by)] ELSE copies
  /\ UNCHANGED known

\* The fallback makes a letter of its own, whatever became of the stored one.
RejectInMemory ==
  /\ \E l \in Letters \ (DOMAIN table \cup DOMAIN copies) :
       /\ \A g \in Handlers : req[g] # Idle => req[g].letter # l
       /\ copies' = With(copies, l, Open)
       /\ rejected' = rejected \cup {l}
  /\ UNCHANGED known

\* A producer's event is rejected once the store is given up.
RejectDegraded ==
  /\ status = "degraded"
  /\ RejectInMemory
  /\ UNCHANGED <<store, status, req, bounds, overlapped>>

\* A statement fails, or its answer is lost; what it did to the store stays.
StoreFails(h) ==
  /\ MarkDegraded
  /\ fellBack' = TRUE
  /\ \/ /\ req[h].at \in {"redrive", "published", "updated"}
        /\ RedriveInMemory(req[h].letter, req[h].by)
        /\ UNCHANGED rejected
     \/ /\ req[h].at \in {"resolve", "resolved"}
        /\ ResolveInMemory(req[h].letter, req[h].by)
        /\ UNCHANGED rejected
     \/ /\ req[h].at \in {"reject", "rejected"}
        /\ RejectInMemory
  /\ Finish(h)
  /\ UNCHANGED store

\* A re-drive that has read its letter finds the store given up meanwhile.
RedriveDegraded(h) ==
  /\ status = "degraded"
  /\ req[h].at = "redrive"
  /\ RedriveInMemory(req[h].letter, req[h].by)
  /\ Finish(h)
  /\ UNCHANGED <<store, status, aux>>

OperateDegraded(h, l, by) ==
  /\ status = "degraded"
  /\ req[h] = Idle
  /\ l \in DOMAIN copies
  /\ \/ MayRedrive(l) /\ RedriveInMemory(l, by)
     \/ ResolveInMemory(l, by)
  /\ UNCHANGED <<store, status, req, aux>>

Restart ==
  /\ NewProcess
  /\ copies' = Empty
  /\ known' = {}
  /\ fellBack' = (fellBack \/ status' = "degraded")
  /\ UNCHANGED <<store, rejected>>

-----------------------------------------------------------------------------
Handle(h) ==
  \/ InsertLetter(h) \/ RejectAnswered(h)
  \/ PublishLetter(h) \/ UpdateRedriven(h) \/ RedriveAnswered(h)
  \/ UpdateResolved(h) \/ ResolveAnswered(h)

Next ==
  \/ \E h \in Handlers :
       \/ Handle(h) \/ StoreFails(h) \/ RedriveDegraded(h)
       \/ \E l \in Letters : Reject(h, l)
       \/ \E l \in Letters, by \in Operators :
            Redrive(h, l, by) \/ Resolve(h, l, by) \/ OperateDegraded(h, l, by)
  \/ RejectDegraded
  \/ Restart

Spec == Init /\ [][Next]_vars

-----------------------------------------------------------------------------
LetterRecords == [status : {"open", "redriven", "resolved"}, retries : Nat,
                  closedBy : Operators \cup {None}]

RejectType == [at : {"reject", "rejected"}, letter : Letters, by : {None}]
CloseType == [at : {"redrive", "resolve"}, letter : Letters, by : Operators]
PublishedType == [at : {"published"}, letter : Letters, by : Operators, event : Letters \X Nat]
UpdatedType == [at : {"updated"}, letter : Letters, by : Operators, event : Letters \X Nat,
                result : LetterRecords]
ResolvedType == [at : {"resolved"}, letter : Letters, by : Operators, result : LetterRecords]

\* Every variable has its type.
TypeOK ==
  /\ DOMAIN table \subseteq Letters /\ \A l \in DOMAIN table : table[l] \in LetterRecords
  /\ DOMAIN copies \subseteq Letters /\ \A l \in DOMAIN copies : copies[l] \in LetterRecords
  /\ published \subseteq Letters \X Nat
  /\ known \subseteq Letters \X Nat
  /\ status \in {"ok", "degraded"}
  /\ req \in [Handlers -> {Idle} \cup RejectType \cup CloseType \cup PublishedType \cup UpdatedType \cup ResolvedType]
  /\ rejected \subseteq Letters
  /\ fellBack \in BOOLEAN /\ overlapped \in BOOLEAN
  /\ faults \in Nat
  /\ restarts \in Nat

(* A letter counts no re-drive whose event is not in the log, although the   *)
(* publication and the update are two statements and the process may end     *)
(* between them: an event without an id is published once per counted retry. *)
RetriesWerePublished ==
  \A l \in DOMAIN table :
    LET events == {e \in published : e[1] = l}
    IN IF l \in Anonymous THEN table[l].retries <= Cardinality(events)
       ELSE table[l].retries > 0 => events # {}

(* A rejection its producer was told about is in the queue, whatever         *)
(* restarts follow, as long as the store is in use.                          *)
RejectionIsKept == ~fellBack => rejected \subseteq DOMAIN table

(* The operator recorded as the first to close a letter stays recorded,      *)
(* through later re-drives and resolutions.                                  *)
FirstCloserStays ==
  [][\A l \in DOMAIN table :
       table[l].closedBy # None => l \in DOMAIN table' /\ table'[l].closedBy = table[l].closedBy]_vars

(* What an operator sees of a letter never loses a re-drive that was counted *)
(* before, also when the store fails during a re-drive, as long as requests  *)
(* come one after the other.  With two at once it does not hold: the answers *)
(* may be kept in the other order.                                           *)
Seen == IF status = "ok" THEN table ELSE copies

RetriesNeverLost ==
  [][\A l \in DOMAIN Seen \cap DOMAIN Seen' :
       restarts' = restarts /\ ~overlapped' => Seen'[l].retries >= Seen[l].retries]_vars

(* The documentation: the queue keeps the number of re-drive attempts.  It   *)
(* does not hold after a restart between the publication and the update.     *)
AttemptsAreCounted ==
  \A l \in DOMAIN table :
    (\A h \in Handlers : req[h] = Idle) /\ (\E e \in published : e[1] = l) =>
      table[l].retries > 0
=============================================================================
