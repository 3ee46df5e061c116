---------------------------- MODULE SketchDrawings ----------------------------
(***************************************************************************)
(* A sketch drawing and its audit: an update or a deletion raises the       *)
(* revision in the statement that writes, and then inserts an audit entry   *)
(* with a statement of its own.                                             *)
(***************************************************************************)
EXTENDS StoredRecord

VARIABLES
  revision,
  audit      \* the entries of cop_user_drawing_audit, in the order inserted

drawings == <<revision, audit>>

\* The route reads the drawing, and update() reads it again.
PatchSketch(r, patch) ==
  /\ kind = "sketch" /\ exists /\ ~degraded /\ revision <= MaxWrites
  /\ Begin(r, [at |-> "update", patch |-> patch, fresh |-> TRUE])
  /\ UNCHANGED <<row, degraded, cut, faults, restarts, drawings>>

UpdateSketch(r) ==
  /\ kind = "sketch" /\ req[r].at = "update"
  /\ Goes(r, IF exists /\ ~degraded
             THEN [at |-> "write", patch |-> req[r].patch, value |-> Merge(content, req[r].patch),
                   revision |-> revision + 1, fresh |-> TRUE]
             ELSE Idle)
  /\ UNCHANGED <<row, degraded, cut, faults, restarts, drawings>>

Entry(action, number) == [at |-> "audit", action |-> action, revision |-> number]

\* Mutant: the revision is the one after the drawing that was read.
WritesRevisionRead(r) ==
  /\ kind = "sketch" /\ req[r].at = "write" /\ exists
  /\ revision' = req[r].revision
  /\ Writes(r, Entry("updated", req[r].revision))
  /\ UNCHANGED <<exists, degraded, cut, audit, world>>

\* UPDATE ... SET revision = revision + 1 ... WHERE deleted_at IS NULL.
Updates(r, next) ==
  /\ kind = "sketch" /\ req[r].at = "write" /\ exists
  /\ revision' = revision + 1
  /\ Writes(r, next)
  /\ UNCHANGED <<exists, audit>>

WritesSketch(r) == Updates(r, Entry("updated", revision + 1)) /\ Answered

SketchMissed(r) ==
  /\ kind = "sketch" /\ req[r].at = "write" /\ ~exists
  /\ Goes(r, Idle)
  /\ UNCHANGED <<row, degraded, cut, faults, restarts, drawings>>

Deletes(r, next) ==
  /\ kind = "sketch" /\ exists /\ ~degraded
  /\ exists' = FALSE
  /\ revision' = revision + 1
  /\ Begin(r, next)
  /\ UNCHANGED <<content, latest, overtaken, audit>>

DeleteSketch(r) == Deletes(r, Entry("deleted", revision + 1)) /\ Answered

Inserts(r) ==
  /\ req[r].at = "audit"
  /\ audit' = Append(audit, [action |-> req[r].action, revision |-> req[r].revision])
  /\ Goes(r, Idle)
  /\ UNCHANGED <<exists, content, latest, overtaken, revision>>

AuditSketch(r) == Inserts(r) /\ Answered

SketchLost(r) ==
  \/ (Updates(r, Idle) \/ Deletes(r, Idle)) /\ Fault(TRUE)
  \/ Inserts(r) /\ Fault(FALSE)

SketchRequests ==
  [at : {"update"}, patch : Contents, fresh : BOOLEAN]
    \cup [at : {"write"}, patch : Contents, value : Contents, revision : Nat, fresh : BOOLEAN]
    \cup [at : {"audit"}, action : {"updated", "deleted"}, revision : Nat]

SketchInit ==
  /\ revision = 1
  /\ audit = <<[action |-> "created", revision |-> 1]>>

(* The audit tells the history of a drawing, however its updates overlap:    *)
(* no revision twice, none left out unless a request was cut off before its  *)
(* entry, and nothing after the deletion.                                    *)
AuditTellsHistory ==
  LET About(n) == {i \in DOMAIN audit : audit[i].revision = n}
      Pending(n) == {r \in Requests : req[r].at = "audit" /\ req[r].revision = n} IN
  kind = "sketch" =>
    /\ \A n \in 1..revision :
         /\ \A i, j \in About(n) : i = j
         /\ \A r \in Pending(n) : About(n) = {} /\ Pending(n) = {r}
         /\ cut \/ About(n) # {} \/ Pending(n) # {}
    /\ \A i \in DOMAIN audit : audit[i].revision <= revision
    /\ \A i \in DOMAIN audit : audit[i].action = "deleted" => audit[i].revision = revision /\ ~exists
=============================================================================
