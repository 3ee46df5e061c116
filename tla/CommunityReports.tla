--------------------------- MODULE CommunityReports ---------------------------
(***************************************************************************)
(* A community report: its owner edits, submits and deletes it.             *)
(***************************************************************************)
EXTENDS StoredRecord

VARIABLES
  status,     \* "draft" or "submitted"
  edits,      \* how many edits were begun
  submitted   \* a submission was answered with the report

reports == <<status, edits, submitted>>

UpdateReport(r, patch) ==
  /\ kind = "report" /\ exists /\ ~degraded /\ edits < MaxWrites
  /\ Begin(r, [at |-> "write", patch |-> patch, value |-> Merge(content, patch), fresh |-> TRUE])
  /\ edits' = edits + 1
  /\ UNCHANGED <<row, degraded, cut, faults, restarts, status, submitted>>

\* The statement writes every field but the status.
UpdatesReport(r) ==
  /\ kind = "report" /\ req[r].at = "write" /\ exists
  /\ Writes(r, Idle)
  /\ UNCHANGED <<exists, reports>>

WritesReport(r) == UpdatesReport(r) /\ Answered

ReportMissed(r) ==
  /\ kind = "report" /\ req[r].at = "write" /\ ~exists
  /\ Goes(r, Idle)
  /\ UNCHANGED <<row, degraded, cut, faults, restarts, reports>>

Submits ==
  /\ kind = "report" /\ exists /\ ~degraded
  /\ status' = "submitted"
  /\ UNCHANGED <<exists, content, latest, overtaken, req, edits>>

SubmitReport == Submits /\ submitted' = TRUE /\ Answered

DeletesReport ==
  /\ kind = "report" /\ exists /\ ~degraded
  /\ exists' = FALSE
  /\ UNCHANGED <<content, latest, overtaken, req, reports>>

DeleteReport == DeletesReport /\ Answered

ReportLost ==
  /\ DeletesReport \/ (Submits /\ UNCHANGED submitted) \/ \E r \in Requests : UpdatesReport(r)
  /\ Fault(FALSE)

ReportRequests == [at : {"write"}, patch : Contents, value : Contents, fresh : BOOLEAN]

ReportInit ==
  /\ status = "draft"
  /\ edits = 0
  /\ submitted = FALSE
=============================================================================
