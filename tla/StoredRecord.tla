----------------------------- MODULE StoredRecord -----------------------------
(***************************************************************************)
(* One record that the COP API keeps in a table, and the requests that edit *)
(* it: each reads the record, merges its patch in the process, and writes   *)
(* the result with a statement of its own, so that the requests of one or   *)
(* of several processes run in between.  What incidents and tasks, sketch   *)
(* drawings, community reports and user profiles have in common; each has a *)
(* module that extends this one, and RecordStores puts them together.       *)
(***************************************************************************)
EXTENDS Naturals, Sequences

CONSTANTS
  Requests,   \* requests in progress at once
  Values,     \* values of a field
  MaxWrites,  \* bound on the edits begun
  MaxFaults, MaxRestarts

ASSUME StoredAssumption ==
  /\ Values # {} /\ "absent" \notin Values
  /\ MaxWrites \in Nat /\ MaxFaults \in Nat /\ MaxRestarts \in Nat

VARIABLES
  kind,       \* what the record is
  exists,     \* its row is in the table, and not marked as deleted
  content,    \* the fields of the row
  latest,     \* the fields as the writes so far have set them, in their order
  degraded,   \* the status of the kind's store is not "ok"
  req,        \* what each request has read and what it does next
  overtaken,  \* a request wrote after another had since it read
  cut,        \* a request ended between its write and what follows from it
  faults, restarts

Kinds == {"incident", "task", "sketch", "report", "profile"}
Fields == {"status", "text"}
Contents == [Fields -> Values \cup {"absent"}]
Blank == [f \in Fields |-> "absent"]
Patches == {[Blank EXCEPT ![f] = v] : f \in Fields, v \in Values}
Idle == [at |-> "idle"]

\* The mutant forgets what the patch does not set.
Replaced(current, patch) == patch

Merge(current, patch) == [f \in Fields |-> IF patch[f] = "absent" THEN current[f] ELSE patch[f]]

row == <<kind, exists, content, latest, overtaken>>
world == <<kind, faults, restarts>>

Begin(r, request) ==
  /\ req[r] = Idle
  /\ req' = [req EXCEPT ![r] = request]

Goes(r, next) == req' = [req EXCEPT ![r] = next]

\* A write puts what the others have read out of date.
Stale(q) == IF req[q].at \in {"update", "write", "wait", "store"} THEN [req[q] EXCEPT !.fresh = FALSE] ELSE req[q]

Writes(r, next) ==
  /\ content' = req[r].value
  /\ latest' = [f \in Fields |-> IF req[r].patch[f] = "absent" THEN latest[f] ELSE req[r].patch[f]]
  /\ overtaken' = (overtaken \/ ~req[r].fresh)
  /\ req' = [q \in Requests |-> IF q = r THEN next ELSE Stale(q)]

\* The statement of a request is answered.
Answered == UNCHANGED <<degraded, cut, world>>

\* A statement fails, or its answer is lost.  The store is out of use until the
\* next start; the fallback, which does not have the record, answers, and what
\* follows from a write that took effect is left out.
Fault(follows) ==
  /\ faults < MaxFaults
  /\ faults' = faults + 1
  /\ degraded' = TRUE
  /\ cut' = (cut \/ follows)
  /\ UNCHANGED <<kind, restarts>>

\* It fails before it takes effect.  What a write that took effect does when
\* its answer is lost is told by the kinds.
StatementFails(r) ==
  /\ kind # "profile"
  /\ req[r].at \in {"idle", "update", "write", "audit"}
  /\ Fault(req[r].at = "audit")
  /\ Goes(r, Idle)
  /\ UNCHANGED row
=============================================================================
