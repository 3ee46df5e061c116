----------------------------- MODULE RecordStores -----------------------------
(***************************************************************************)
(* The stores of edited records together.  A behaviour follows one record,  *)
(* of a kind chosen at the start: the records share nothing but the process *)
(* that serves them and its restarts.                                       *)
(***************************************************************************)
EXTENDS IncidentRecords, SketchDrawings, CommunityReports, UserProfiles

vars == <<row, degraded, req, cut, faults, restarts, records, drawings, reports, profiles>>

Init ==
  /\ kind \in Kinds
  /\ exists = (kind # "profile")
  /\ content = IF exists THEN [f \in Fields |-> CHOOSE v \in Values : TRUE] ELSE Blank
  /\ latest = content
  /\ degraded = FALSE
  /\ req = [r \in Requests |-> Idle]
  /\ overtaken = FALSE
  /\ cut = FALSE
  /\ faults = 0
  /\ restarts = 0
  /\ IncidentInit /\ SketchInit /\ ReportInit /\ ProfileInit

-----------------------------------------------------------------------------
\* A new process finds the rows, and an empty memory; its store is degraded
\* from the start if it cannot be initialised.
Restart ==
  /\ restarts < MaxRestarts
  /\ restarts' = restarts + 1
  /\ \/ degraded' = FALSE /\ UNCHANGED faults
     \/ degraded' = TRUE /\ faults < MaxFaults /\ faults' = faults + 1
  /\ cut' = (cut \/ \E r \in Requests : req[r].at \in {"publish", "audit"})
  /\ req' = [r \in Requests |-> Idle]
  /\ memory' = Unknown
  /\ recovering' = FALSE
  /\ UNCHANGED <<row, records, drawings, reports, missed, begun>>

IncidentSteps(r) ==
  /\ UpdateTask(r) \/ UpsertRecord(r) \/ PublishEvent(r)
  /\ UNCHANGED <<drawings, reports, profiles>>

SketchSteps(r) ==
  /\ UpdateSketch(r) \/ WritesSketch(r) \/ SketchMissed(r) \/ AuditSketch(r)
  /\ UNCHANGED <<records, reports, profiles>>

ReportSteps(r) ==
  /\ WritesReport(r) \/ ReportMissed(r)
  /\ UNCHANGED <<records, drawings, profiles>>

ProfileSteps(r) ==
  /\ ReadProfile(r) \/ UpsertProfile(r)
  /\ UNCHANGED <<records, drawings, reports>>

Steps(r) == IncidentSteps(r) \/ SketchSteps(r) \/ ReportSteps(r) \/ ProfileSteps(r)

Recovery ==
  /\ RecoverySucceeds \/ RecoveryFails
  /\ UNCHANGED <<records, drawings, reports>>

Requested(r) ==
  \/ /\ \E patch \in Patches : PatchIncident(r, patch) \/ PatchTask(r, patch)
     /\ UNCHANGED <<drawings, reports, profiles>>
  \/ /\ DeleteSketch(r) \/ \E patch \in Patches : PatchSketch(r, patch)
     /\ UNCHANGED <<records, reports, profiles>>
  \/ /\ \E patch \in Patches : UpdateReport(r, patch)
     /\ UNCHANGED <<records, drawings, profiles>>
  \/ /\ \E patch \in Patches \cup {Blank} : Preferences(r, patch)
     /\ UNCHANGED <<records, drawings, reports>>

Fails(r) ==
  \/ StatementFails(r) /\ UNCHANGED <<records, drawings, reports, profiles>>
  \/ UpsertLost(r) /\ UNCHANGED <<drawings, reports, profiles>>
  \/ SketchLost(r) /\ UNCHANGED <<records, reports, profiles>>
  \/ ProfileFails(r) /\ UNCHANGED <<records, drawings, reports>>

Next ==
  \/ \E r \in Requests : Requested(r) \/ Steps(r) \/ Fails(r)
  \/ (SubmitReport \/ DeleteReport \/ ReportLost) /\ UNCHANGED <<records, drawings, profiles>>
  \/ Recovery
  \/ Restart

\* A request goes on: its statements are answered, or fail.
Spec ==
  /\ Init /\ [][Next]_vars
  /\ \A r \in Requests : WF_vars(Steps(r))
  /\ WF_vars(Recovery)

-----------------------------------------------------------------------------
RequestsOf ==
  [incident |-> IncidentRequests, task |-> IncidentRequests, sketch |-> SketchRequests,
   report |-> ReportRequests, profile |-> ProfileRequests]

\* Every variable has its type.
TypeOK ==
  /\ kind \in Kinds
  /\ exists \in BOOLEAN
  /\ content \in Contents
  /\ latest \in Contents
  /\ degraded \in BOOLEAN
  /\ req \in [Requests -> {Idle} \cup RequestsOf[kind]]
  /\ overtaken \in BOOLEAN
  /\ cut \in BOOLEAN
  /\ faults \in 0..MaxFaults
  /\ restarts \in 0..MaxRestarts
  /\ written \in Seq(Contents)
  /\ events \in Seq(Event)
  /\ revision \in Nat
  /\ audit \in Seq([action : {"created", "updated", "deleted"}, revision : Nat])
  /\ status \in {"draft", "submitted"}
  /\ edits \in Nat
  /\ submitted \in BOOLEAN
  /\ memory \in [known : BOOLEAN, content : Contents]
  /\ recovering \in BOOLEAN
  /\ missed \in BOOLEAN
  /\ begun \in Nat

(* What edits set stays until an edit sets it again, in a record that is     *)
(* still there, unless an edit was written that another had overtaken or, of *)
(* a profile, settings were taken from or left in the fallback store; and a  *)
(* report that was submitted stays so, whatever overlaps its submission.     *)
EditsKept ==
  exists =>
    /\ ~overtaken /\ ~missed => content = latest
    /\ submitted => status = "submitted"

(* Every request is answered, those that wait for one recovery of the        *)
(* profile store included, whether the recovery succeeds or fails.           *)
RequestsAnswered == \A r \in Requests : req[r] # Idle ~> req[r] = Idle
=============================================================================
