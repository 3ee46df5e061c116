-------------------------- MODULE RecordStoresProofs --------------------------
(***************************************************************************)
(* Proofs about RecordStores, for any requests and values, and any number   *)
(* of edits, store errors and restarts.                                     *)
(***************************************************************************)
EXTENDS RecordStores, TLAPS

USE StoredAssumption

RequestType == {Idle} \cup RequestsOf[kind]

-----------------------------------------------------------------------------
(* Facts about the data.                                                     *)

LEMMA IdleAt == Idle.at = "idle"
BY DEF Idle

LEMMA MergeType ==
  ASSUME NEW c \in Contents, NEW p \in Contents
  PROVE  Merge(c, p) \in Contents
BY DEF Merge, Contents

\* A patch that is merged again changes nothing.
LEMMA MergeTwice ==
  ASSUME NEW c \in Contents, NEW p \in Contents
  PROVE  Merge(Merge(c, p), p) = Merge(c, p)
BY DEF Merge, Contents

LEMMA PatchType == Blank \in Contents /\ Patches \subseteq Contents
<1>1. Blank \in Contents
  BY DEF Blank, Contents
<1>2. ASSUME NEW f \in Fields, NEW v \in Values PROVE [Blank EXCEPT ![f] = v] \in Contents
  BY DEF Blank, Contents
<1> QED BY <1>1, <1>2 DEF Patches

LEMMA RequestsOfKind ==
  ASSUME kind \in Kinds
  PROVE  /\ kind \in {"incident", "task"} => RequestsOf[kind] = IncidentRequests
         /\ kind = "sketch" => RequestsOf[kind] = SketchRequests
         /\ kind = "report" => RequestsOf[kind] = ReportRequests
         /\ kind = "profile" => RequestsOf[kind] = ProfileRequests
BY DEF RequestsOf, Kinds

\* The steps at which requests of the kinds are.
LEMMA RequestSteps ==
  /\ \A x \in IncidentRequests : x.at \in {"update", "write", "publish"}
  /\ \A x \in SketchRequests : x.at \in {"update", "write", "audit"}
  /\ \A x \in ReportRequests : x.at = "write"
  /\ \A x \in ProfileRequests : x.at \in {"wait", "store"}
BY DEF IncidentRequests, SketchRequests, ReportRequests, ProfileRequests

\* A request at a step has the fields of that step, and belongs to its kind.
LEMMA RequestAtStep ==
  ASSUME TypeOK, NEW r \in Requests
  PROVE  /\ req[r] \in RequestType
         /\ req[r].at = "idle" <=> req[r] = Idle
         /\ req[r].at = "publish" => kind \in {"incident", "task"}
         /\ req[r].at = "audit" => kind = "sketch"
         /\ req[r].at \in {"wait", "store"} => kind = "profile" /\ req[r] \in ProfileRequests
         /\ req[r].at = "update" => kind \in {"incident", "task", "sketch"}
         /\ req[r].at = "write" => kind \in {"incident", "task", "sketch", "report"}
         /\ kind \in {"incident", "task"} /\ req[r] # Idle => req[r] \in IncidentRequests
         /\ kind = "sketch" /\ req[r] # Idle => req[r] \in SketchRequests
         /\ kind = "report" /\ req[r] # Idle => req[r] \in ReportRequests
         /\ kind = "profile" /\ req[r] # Idle => req[r] \in ProfileRequests
<1>1. kind \in Kinds /\ req[r] \in RequestType
  BY DEF TypeOK, RequestType
<1>2. CASE req[r] = Idle
  BY <1>1, <1>2, IdleAt
<1>3. CASE req[r] # Idle
  <2>1. req[r] \in RequestsOf[kind]
    BY <1>1, <1>3 DEF RequestType
  <2>2. /\ kind \in {"incident", "task"} => req[r] \in IncidentRequests
        /\ kind = "sketch" => req[r] \in SketchRequests
        /\ kind = "report" => req[r] \in ReportRequests
        /\ kind = "profile" => req[r] \in ProfileRequests
    BY <1>1, <2>1, RequestsOfKind
  <2>3. kind \in {"incident", "task"} \/ kind = "sketch" \/ kind = "report" \/ kind = "profile"
    BY <1>1 DEF Kinds
  <2> QED BY <1>1, <1>3, <2>2, <2>3, RequestSteps
<1> QED BY <1>2, <1>3

LEMMA UpdateFields ==
  ASSUME TypeOK, NEW r \in Requests, req[r].at = "update"
  PROVE  /\ req[r].patch \in Contents /\ req[r].fresh \in BOOLEAN
         /\ kind # "sketch" => req[r].seen \in Values \cup {"absent"}
BY RequestAtStep, IdleAt DEF IncidentRequests, SketchRequests

LEMMA WriteFields ==
  ASSUME TypeOK, NEW r \in Requests, req[r].at \in {"write", "wait", "store"}
  PROVE  /\ req[r].patch \in Contents /\ req[r].value \in Contents /\ req[r].fresh \in BOOLEAN
         /\ kind \in {"incident", "task"} => req[r].seen \in Values \cup {"absent"}
<1>1. req[r] \in IncidentRequests \cup SketchRequests \cup ReportRequests \cup ProfileRequests
  BY RequestAtStep
<1>2. CASE kind \in {"incident", "task"}
  BY <1>2, RequestAtStep, IdleAt DEF IncidentRequests
<1>3. CASE kind = "sketch"
  BY <1>3, RequestAtStep, IdleAt DEF SketchRequests
<1>4. CASE kind = "report"
  BY <1>4, RequestAtStep, IdleAt DEF ReportRequests
<1>5. CASE kind = "profile"
  BY <1>5, RequestAtStep, IdleAt DEF ProfileRequests
<1> QED BY <1>2, <1>3, <1>4, <1>5 DEF TypeOK, Kinds

LEMMA LastFields ==
  ASSUME TypeOK, NEW r \in Requests
  PROVE  /\ req[r].at = "publish" => req[r] \in [at : {"publish"}, value : Contents, version : Nat]
         /\ req[r].at = "audit" => req[r] \in [at : {"audit"}, action : {"updated", "deleted"}, revision : Nat]
<1>1. req[r].at = "publish" => req[r] \in [at : {"publish"}, value : Contents, version : Nat]
  BY RequestAtStep, IdleAt DEF IncidentRequests
<1>2. req[r].at = "audit" => req[r] \in [at : {"audit"}, action : {"updated", "deleted"}, revision : Nat]
  BY RequestAtStep, IdleAt DEF SketchRequests
<1> QED BY <1>1, <1>2

\* What a write of another request leaves of this one.
LEMMA StaleFields ==
  ASSUME TypeOK, NEW q \in Requests
  PROVE  /\ Stale(q) \in RequestType /\ Stale(q).at = req[q].at
         /\ req[q].at \in {"update", "write", "wait", "store"} => ~Stale(q).fresh
         /\ req[q].at \in {"update", "write", "wait", "store"} => Stale(q).patch = req[q].patch
         /\ req[q].at \notin {"update", "write", "wait", "store"} => Stale(q) = req[q]
<1>1. CASE req[q].at \notin {"update", "write", "wait", "store"}
  BY <1>1, RequestAtStep DEF Stale
<1>2. CASE req[q].at \in {"update", "write", "wait", "store"}
  <2>1. Stale(q) = [req[q] EXCEPT !.fresh = FALSE]
    BY <1>2 DEF Stale
  <2>2. req[q] # Idle /\ req[q] \in RequestsOf[kind]
    BY <1>2, IdleAt, RequestAtStep DEF RequestType
  <2>3. CASE kind \in {"incident", "task"}
    <3>1. req[q] \in IncidentRequests
      BY <2>2, <2>3, RequestAtStep
    <3>2. /\ Stale(q) \in IncidentRequests /\ Stale(q).at = req[q].at
          /\ ~Stale(q).fresh /\ Stale(q).patch = req[q].patch
      BY <1>2, <2>1, <3>1 DEF IncidentRequests
    <3> QED BY <1>2, <2>3, <3>2, RequestsOfKind DEF TypeOK, RequestType
  <2>4. CASE kind = "sketch"
    <3>1. req[q] \in SketchRequests
      BY <2>2, <2>4, RequestAtStep
    <3>2. /\ Stale(q) \in SketchRequests /\ Stale(q).at = req[q].at
          /\ ~Stale(q).fresh /\ Stale(q).patch = req[q].patch
      BY <1>2, <2>1, <3>1 DEF SketchRequests
    <3> QED BY <1>2, <2>4, <3>2, RequestsOfKind DEF TypeOK, RequestType
  <2>5. CASE kind = "report"
    <3>1. req[q] \in ReportRequests
      BY <2>2, <2>5, RequestAtStep
    <3>2. /\ Stale(q) \in ReportRequests /\ Stale(q).at = req[q].at
          /\ ~Stale(q).fresh /\ Stale(q).patch = req[q].patch
      BY <1>2, <2>1, <3>1 DEF ReportRequests
    <3> QED BY <1>2, <2>5, <3>2, RequestsOfKind DEF TypeOK, RequestType
  <2>6. CASE kind = "profile"
    <3>1. req[q] \in ProfileRequests
      BY <2>2, <2>6, RequestAtStep
    <3>2. /\ Stale(q) \in ProfileRequests /\ Stale(q).at = req[q].at
          /\ ~Stale(q).fresh /\ Stale(q).patch = req[q].patch
      BY <1>2, <2>1, <3>1 DEF ProfileRequests
    <3> QED BY <1>2, <2>6, <3>2, RequestsOfKind DEF TypeOK, RequestType
  <2> QED BY <2>3, <2>4, <2>5, <2>6 DEF TypeOK, Kinds
<1> QED BY <1>1, <1>2

\* What a request that writes does to the record and to the others.
LEMMA WritesFields ==
  ASSUME TypeOK, NEW r \in Requests, NEW next \in RequestType, Writes(r, next),
         req[r].at \in {"write", "store"}
  PROVE  /\ content' \in Contents /\ content' = req[r].value
         /\ latest' \in Contents /\ latest' = Merge(latest, req[r].patch)
         /\ overtaken' \in BOOLEAN /\ overtaken' = (overtaken \/ ~req[r].fresh)
         /\ req' \in [Requests -> RequestType]
         /\ req'[r] = next /\ \A q \in Requests \ {r} : req'[q] = Stale(q)
<1>1. /\ content' = req[r].value /\ latest' = Merge(latest, req[r].patch)
      /\ overtaken' = (overtaken \/ ~req[r].fresh)
      /\ req' = [q \in Requests |-> IF q = r THEN next ELSE Stale(q)]
  BY DEF Writes, Merge
<1>2. content' \in Contents /\ latest' \in Contents
  BY <1>1, WriteFields, MergeType DEF TypeOK
<1>3. \A q \in Requests : Stale(q) \in RequestType
  BY StaleFields
<1> QED BY <1>1, <1>2, <1>3 DEF TypeOK

\* A step that changes one request.
LEMMA OneRequest ==
  ASSUME TypeOK, NEW r \in Requests, NEW x \in RequestType, Goes(r, x) \/ Begin(r, x)
  PROVE  /\ req' \in [Requests -> RequestType]
         /\ req'[r] = x /\ \A q \in Requests \ {r} : req'[q] = req[q]
BY DEF TypeOK, RequestType, Goes, Begin

-----------------------------------------------------------------------------
LEMMA TypeInit == Init => TypeOK
<1> SUFFICES ASSUME Init PROVE TypeOK
  OBVIOUS
<1>1. content \in Contents /\ latest \in Contents
  <2> DEFINE any == CHOOSE v \in Values : TRUE
  <2>1. any \in Values
    OBVIOUS
  <2>2. content = (IF exists THEN [f \in Fields |-> any] ELSE Blank) /\ latest = content
    BY DEF Init
  <2> HIDE DEF any
  <2>3. [f \in Fields |-> any] \in Contents
    BY <2>1 DEF Contents
  <2> QED BY <2>2, <2>3, PatchType
<1>2. req \in [Requests -> {Idle} \cup RequestsOf[kind]]
  BY DEF Init
<1>3. memory \in [known : BOOLEAN, content : Contents]
  BY PatchType DEF Init, ProfileInit, Unknown
<1>4. written \in Seq(Contents) /\ events \in Seq(Event)
  <2>1. written = <<content>> /\ events = <<[version |-> 1, value |-> content]>>
    BY DEF Init, IncidentInit
  <2>2. [version |-> 1, value |-> content] \in Event
    BY <1>1 DEF Event
  <2> QED BY <1>1, <2>1, <2>2
<1>5. audit \in Seq([action : {"created", "updated", "deleted"}, revision : Nat]) /\ revision \in Nat
  BY DEF Init, SketchInit
<1>6. kind \in Kinds /\ exists \in BOOLEAN /\ degraded \in BOOLEAN /\ overtaken \in BOOLEAN /\ cut \in BOOLEAN
  BY DEF Init
<1>7. faults \in 0..MaxFaults /\ restarts \in 0..MaxRestarts
  BY DEF Init
<1>8. /\ status \in {"draft", "submitted"} /\ edits \in Nat /\ submitted \in BOOLEAN
      /\ recovering \in BOOLEAN /\ missed \in BOOLEAN /\ begun \in Nat
  BY DEF Init, ReportInit, ProfileInit
<1> QED BY <1>1, <1>2, <1>3, <1>4, <1>5, <1>6, <1>7, <1>8 DEF TypeOK

\* What an answered statement, and one that fails, leave of the world.
Served ==
  /\ UNCHANGED <<kind, restarts>>
  /\ degraded' \in BOOLEAN /\ cut' \in BOOLEAN /\ faults' \in 0..MaxFaults

LEMMA AnsweredServed ==
  ASSUME TypeOK, Answered
  PROVE  Served /\ UNCHANGED <<kind, cut>>
BY DEF Answered, Served, TypeOK, world

LEMMA FaultServed ==
  ASSUME TypeOK, NEW follows \in BOOLEAN, Fault(follows)
  PROVE  Served /\ UNCHANGED kind /\ cut' = (cut \/ follows)
BY DEF Fault, Served, TypeOK

\* A step that changes one request and, of the rest, only counters and flags.
LEMMA TypeOfRequest ==
  ASSUME TypeOK, NEW r \in Requests, NEW x \in RequestType, Goes(r, x) \/ Begin(r, x),
         UNCHANGED <<content, latest, overtaken>>,
         exists' \in BOOLEAN, Served,
         UNCHANGED written, events' \in Seq(Event),
         revision' \in Nat, audit' \in Seq([action : {"created", "updated", "deleted"}, revision : Nat]),
         UNCHANGED <<status, submitted>>, edits' \in Nat,
         memory' \in [known : BOOLEAN, content : Contents], recovering' \in BOOLEAN,
         missed' \in BOOLEAN, begun' \in Nat
  PROVE  TypeOK'
<1>1. req' \in [Requests -> {Idle} \cup RequestsOf[kind]]
  BY OneRequest DEF RequestType
<1> QED BY <1>1 DEF TypeOK, Served

\* A step that writes the record.
LEMMA TypeOfWrite ==
  ASSUME TypeOK, NEW r \in Requests, NEW x \in RequestType, Writes(r, x),
         req[r].at \in {"write", "store"},
         exists' \in BOOLEAN, Served,
         written' \in Seq(Contents), UNCHANGED events, revision' \in Nat,
         UNCHANGED <<audit, reports, profiles>>
  PROVE  TypeOK'
<1>1. req' \in [Requests -> {Idle} \cup RequestsOf[kind]]
  BY WritesFields DEF RequestType
<1>2. content' \in Contents /\ latest' \in Contents /\ overtaken' \in BOOLEAN
  BY WritesFields
<1> QED BY <1>1, <1>2 DEF TypeOK, Served, reports, profiles

LEMMA IncidentTypes ==
  ASSUME TypeOK, NEW r \in Requests, NEW patch \in Patches,
         PatchIncident(r, patch) \/ PatchTask(r, patch), UNCHANGED <<drawings, reports, profiles>>
  PROVE  TypeOK'
<1> DEFINE x == [at |-> "write", patch |-> patch, seen |-> "absent",
                 value |-> Merge(content, patch), fresh |-> TRUE]
           y == [at |-> "update", patch |-> patch, seen |-> content["status"], fresh |-> TRUE]
<1>1. patch \in Contents /\ Merge(content, patch) \in Contents /\ content["status"] \in Values \cup {"absent"}
  BY PatchType, MergeType DEF TypeOK, Contents, Fields
<1>2. x \in IncidentRequests /\ y \in IncidentRequests
  BY <1>1 DEF IncidentRequests
<1>3. kind \in {"incident", "task"} /\ (Begin(r, x) \/ Begin(r, y))
      /\ UNCHANGED <<row, degraded, cut, faults, restarts, records>>
  BY DEF PatchIncident, PatchTask
<1>4. x \in RequestType /\ y \in RequestType
  BY <1>2, <1>3, RequestsOfKind DEF RequestType, Kinds
<1> HIDE DEF x, y
<1> QED BY <1>3, <1>4, TypeOfRequest DEF row, records, drawings, reports, profiles, TypeOK, Served

LEMMA TellingType ==
  ASSUME TypeOK, NEW r \in Requests, kind \in {"incident", "task"}, req[r].at = "write"
  PROVE  Telling(r) \in IncidentRequests /\ Telling(r) \in RequestType /\ Telling(r).at = "publish"
<1>1. Telling(r) \in IncidentRequests /\ Telling(r).at = "publish"
  <2>1. req[r].value \in Contents /\ Len(written) + 1 \in Nat
    BY WriteFields DEF TypeOK
  <2> QED BY <2>1 DEF Telling, IncidentRequests
<1> QED BY <1>1, RequestsOfKind DEF RequestType, Kinds

LEMMA UpsertTypes ==
  ASSUME TypeOK, NEW r \in Requests, NEW next \in RequestType, Upserts(r, next), Served,
         UNCHANGED <<drawings, reports, profiles>>
  PROVE  TypeOK'
<1>1. Writes(r, next) /\ req[r].at = "write"
  BY DEF Upserts
<1>2. written' \in Seq(Contents)
  BY <1>1, WriteFields DEF Upserts, TypeOK
<1>3. exists' \in BOOLEAN /\ revision' \in Nat /\ UNCHANGED <<events, audit>>
  BY DEF Upserts, drawings, TypeOK
<1> QED BY <1>1, <1>2, <1>3, TypeOfWrite

LEMMA IncidentStepTypes ==
  ASSUME TypeOK, NEW r \in Requests, IncidentSteps(r)
  PROVE  TypeOK'
<1>0. UNCHANGED <<drawings, reports, profiles>>
  BY DEF IncidentSteps
<1>1. CASE UpdateTask(r)
  <2> DEFINE x == [at |-> "write", patch |-> req[r].patch, seen |-> req[r].seen,
                   value |-> Merge(content, req[r].patch), fresh |-> req[r].fresh]
  <2>1. kind = "task" /\ req[r].at = "update"
    BY <1>1 DEF UpdateTask
  <2>2. req[r].patch \in Contents /\ req[r].fresh \in BOOLEAN /\ req[r].seen \in Values \cup {"absent"}
    BY <2>1, UpdateFields
  <2>3. Merge(content, req[r].patch) \in Contents
    BY <2>2, MergeType DEF TypeOK
  <2>4. x \in IncidentRequests
    BY <2>2, <2>3 DEF IncidentRequests
  <2>5. x \in RequestType /\ Idle \in RequestType
    BY <2>1, <2>4, RequestsOfKind DEF RequestType, Kinds
  <2>6. Goes(r, x) \/ Goes(r, Idle)
    BY <1>1 DEF UpdateTask
  <2> HIDE DEF x
  <2> QED BY <1>0, <1>1, <2>5, <2>6, TypeOfRequest
          DEF UpdateTask, row, records, drawings, reports, profiles, TypeOK, Served
<1>2. CASE UpsertRecord(r)
  <2>1. kind \in {"incident", "task"} /\ req[r].at = "write"
    BY <1>2 DEF UpsertRecord, Upserts
  <2>2. Upserts(r, Telling(r)) \/ Upserts(r, Idle)
    BY <1>2 DEF UpsertRecord
  <2> QED BY <1>0, <1>2, <2>1, <2>2, UpsertTypes, TellingType, AnsweredServed DEF UpsertRecord, RequestType
<1>3. CASE PublishEvent(r)
  <2>1. req[r].at = "publish" /\ Goes(r, Idle) /\ Idle \in RequestType
    BY <1>3 DEF PublishEvent, RequestType
  <2>2. EventOf(req[r]) \in Event
    BY <2>1, LastFields DEF EventOf, Event
  <2>4. events' \in Seq(Event)
    BY <1>3, <2>2 DEF PublishEvent, TypeOK
  <2> QED BY <1>0, <1>3, <2>1, <2>4, TypeOfRequest
          DEF PublishEvent, row, drawings, reports, profiles, TypeOK, Served
<1> QED BY <1>1, <1>2, <1>3 DEF IncidentSteps

\* The statements of a drawing, whether their answer is lost or not.
LEMMA SketchStatementTypes ==
  ASSUME TypeOK, NEW r \in Requests, NEW x \in RequestType,
         Updates(r, x) \/ Deletes(r, x) \/ Inserts(r), Served, UNCHANGED <<records, reports, profiles>>
  PROVE  TypeOK'
<1>1. CASE Updates(r, x)
  <2>1. Writes(r, x) /\ req[r].at = "write" /\ exists' \in BOOLEAN /\ revision' \in Nat /\ UNCHANGED audit
    BY <1>1 DEF Updates, TypeOK
  <2>2. written' \in Seq(Contents) /\ UNCHANGED events
    BY DEF records, TypeOK
  <2> QED BY <2>1, <2>2, TypeOfWrite
<1>2. CASE Deletes(r, x)
  <2>1. Begin(r, x) /\ exists' = FALSE /\ revision' = revision + 1 /\ UNCHANGED <<content, latest, overtaken, audit>>
    BY <1>2 DEF Deletes
  <2>2. revision' \in Nat /\ audit' \in Seq([action : {"created", "updated", "deleted"}, revision : Nat])
    BY <2>1 DEF TypeOK
  <2> QED BY <2>1, <2>2, TypeOfRequest DEF records, reports, profiles, TypeOK
<1>3. CASE Inserts(r)
  <2>1. [action |-> req[r].action, revision |-> req[r].revision]
          \in [action : {"created", "updated", "deleted"}, revision : Nat]
    BY <1>3, LastFields DEF Inserts
  <2>2. audit' \in Seq([action : {"created", "updated", "deleted"}, revision : Nat])
    BY <1>3, <2>1 DEF Inserts, TypeOK
  <2>3. Goes(r, Idle) /\ Idle \in RequestType /\ UNCHANGED <<exists, content, latest, overtaken, revision>>
    BY <1>3 DEF Inserts, RequestType
  <2> QED BY <2>2, <2>3, TypeOfRequest DEF records, reports, profiles, TypeOK, Served
<1> QED BY <1>1, <1>2, <1>3

LEMMA EntryType ==
  ASSUME TypeOK, kind = "sketch", NEW action \in {"updated", "deleted"}
  PROVE  Entry(action, revision + 1) \in SketchRequests /\ Entry(action, revision + 1) \in RequestType
<1>1. Entry(action, revision + 1) \in SketchRequests
  BY DEF SketchRequests, TypeOK, Entry
<1> QED BY <1>1, RequestsOfKind DEF RequestType, Kinds

LEMMA SketchTypes ==
  ASSUME TypeOK, NEW r \in Requests, UNCHANGED <<records, reports, profiles>>,
         DeleteSketch(r) \/ \E patch \in Patches : PatchSketch(r, patch)
  PROVE  TypeOK'
<1>1. CASE DeleteSketch(r)
  <2>1. kind = "sketch"
    BY <1>1 DEF DeleteSketch, Deletes
  <2> QED BY <1>1, <2>1, EntryType, SketchStatementTypes, AnsweredServed DEF DeleteSketch
<1>2. ASSUME NEW patch \in Patches, PatchSketch(r, patch) PROVE TypeOK'
  <2> DEFINE x == [at |-> "update", patch |-> patch, fresh |-> TRUE]
  <2>1. x \in SketchRequests
    BY PatchType DEF SketchRequests
  <2>2. kind = "sketch" /\ x \in RequestType
    BY <1>2, <2>1, RequestsOfKind DEF PatchSketch, RequestType, Kinds
  <2>3. Begin(r, x) /\ UNCHANGED <<row, degraded, cut, faults, restarts, drawings>>
    BY <1>2 DEF PatchSketch
  <2> HIDE DEF x
  <2> QED BY <2>2, <2>3, TypeOfRequest DEF row, drawings, records, reports, profiles, TypeOK, Served
<1> QED BY <1>1, <1>2

LEMMA SketchStepTypes ==
  ASSUME TypeOK, NEW r \in Requests, SketchSteps(r)
  PROVE  TypeOK'
<1>0. UNCHANGED <<records, reports, profiles>> /\ Idle \in RequestType
  BY DEF SketchSteps, RequestType
<1>1. CASE UpdateSketch(r)
  <2> DEFINE x == [at |-> "write", patch |-> req[r].patch, value |-> Merge(content, req[r].patch),
                   revision |-> revision + 1, fresh |-> TRUE]
  <2>1. kind = "sketch" /\ req[r].at = "update"
    BY <1>1 DEF UpdateSketch
  <2>2. Merge(content, req[r].patch) \in Contents /\ req[r].patch \in Contents
    BY <2>1, UpdateFields, MergeType DEF TypeOK
  <2>3. x \in SketchRequests
    BY <2>2 DEF SketchRequests, TypeOK
  <2>4. x \in RequestType
    BY <2>1, <2>3, RequestsOfKind DEF RequestType, Kinds
  <2>5. Goes(r, x) \/ Goes(r, Idle)
    BY <1>1 DEF UpdateSketch
  <2> HIDE DEF x
  <2> QED BY <1>0, <1>1, <2>4, <2>5, TypeOfRequest
          DEF UpdateSketch, row, drawings, records, reports, profiles, TypeOK, Served
<1>2. CASE WritesSketch(r)
  <2>1. kind = "sketch"
    BY <1>2 DEF WritesSketch, Updates
  <2> QED BY <1>0, <1>2, <2>1, EntryType, SketchStatementTypes, AnsweredServed DEF WritesSketch
<1>3. CASE SketchMissed(r)
  BY <1>0, <1>3, TypeOfRequest DEF SketchMissed, row, drawings, records, reports, profiles, TypeOK, Served
<1>4. CASE AuditSketch(r)
  BY <1>0, <1>4, SketchStatementTypes, AnsweredServed DEF AuditSketch
<1> QED BY <1>1, <1>2, <1>3, <1>4 DEF SketchSteps

\* The statements of a report, whether their answer is lost or not.
LEMMA ReportStatementTypes ==
  ASSUME TypeOK, UNCHANGED <<records, drawings, profiles>>, Served,
         \/ Submits /\ submitted' \in BOOLEAN
         \/ DeletesReport
         \/ \E r \in Requests : UpdatesReport(r)
  PROVE  TypeOK'
<1>1. CASE Submits /\ submitted' \in BOOLEAN
  BY <1>1 DEF Submits, Served, records, drawings, profiles, TypeOK
<1>2. CASE DeletesReport
  BY <1>2 DEF DeletesReport, Served, reports, records, drawings, profiles, TypeOK
<1>3. ASSUME NEW r \in Requests, UpdatesReport(r) PROVE TypeOK'
  <2>1. Writes(r, Idle) /\ req[r].at = "write" /\ exists' \in BOOLEAN /\ UNCHANGED reports
    BY <1>3 DEF UpdatesReport, TypeOK
  <2>2. /\ written' \in Seq(Contents) /\ UNCHANGED events
        /\ revision' \in Nat /\ UNCHANGED audit /\ Idle \in RequestType
    BY DEF TypeOK, records, drawings, RequestType
  <2> QED BY <2>1, <2>2, TypeOfWrite
<1> QED BY <1>1, <1>2, <1>3

LEMMA ReportTypes ==
  ASSUME TypeOK, UNCHANGED <<records, drawings, profiles>>,
         \/ SubmitReport \/ DeleteReport \/ ReportLost
         \/ \E r \in Requests : ReportSteps(r) \/ \E patch \in Patches : UpdateReport(r, patch)
  PROVE  TypeOK'
<1>0. Idle \in RequestType
  BY DEF RequestType
<1>1. CASE SubmitReport
  BY <1>1, ReportStatementTypes, AnsweredServed DEF SubmitReport
<1>2. CASE DeleteReport
  BY <1>2, ReportStatementTypes, AnsweredServed DEF DeleteReport
<1>3. ASSUME NEW r \in Requests, WritesReport(r) PROVE TypeOK'
  BY <1>3, ReportStatementTypes, AnsweredServed DEF WritesReport
<1>6. CASE ReportLost
  <2>1. Submits /\ UNCHANGED submitted => submitted' \in BOOLEAN
    BY DEF TypeOK
  <2> QED BY <1>6, <2>1, ReportStatementTypes, FaultServed DEF ReportLost
<1>4. ASSUME NEW r \in Requests, ReportMissed(r) PROVE TypeOK'
  BY <1>0, <1>4, TypeOfRequest DEF ReportMissed, row, drawings, records, reports, profiles, TypeOK, Served
<1>5. ASSUME NEW r \in Requests, NEW patch \in Patches, UpdateReport(r, patch) PROVE TypeOK'
  <2> DEFINE x == [at |-> "write", patch |-> patch, value |-> Merge(content, patch), fresh |-> TRUE]
  <2>1. x \in ReportRequests
    BY PatchType, MergeType DEF ReportRequests, TypeOK
  <2>2. kind = "report" /\ x \in RequestType
    BY <1>5, <2>1, RequestsOfKind DEF UpdateReport, RequestType, Kinds
  <2>3. Begin(r, x) /\ edits' \in Nat /\ UNCHANGED <<row, degraded, cut, faults, restarts, status, submitted>>
    BY <1>5 DEF UpdateReport, TypeOK
  <2> HIDE DEF x
  <2> QED BY <2>2, <2>3, TypeOfRequest DEF row, drawings, records, profiles, TypeOK, Served
<1> QED BY <1>1, <1>2, <1>3, <1>4, <1>5, <1>6 DEF ReportSteps

\* A request of a profile that goes on or waits.
LEMMA ProfileNext ==
  ASSUME TypeOK, NEW x \in ProfileRequests
  PROVE  /\ \A on \in {"postgres", "memory"} :
              Ready(x, on) \in ProfileRequests /\ Ready(x, on).at = "store" /\ Ready(x, on).on = on
         /\ Ensured(x) \in ProfileRequests
         /\ \A y \in {Ready(x, "postgres"), Ready(x, "memory"), Ensured(x)} :
              y.does = x.does /\ y.patch = x.patch /\ y.value = x.value /\ y.fresh = x.fresh
<1>1. ASSUME NEW on \in {"postgres", "memory"}
      PROVE  /\ Ready(x, on) \in ProfileRequests /\ Ready(x, on).at = "store" /\ Ready(x, on).on = on
             /\ Ready(x, on).does = x.does /\ Ready(x, on).patch = x.patch
             /\ Ready(x, on).value = x.value /\ Ready(x, on).fresh = x.fresh
  BY DEF Ready, ProfileRequests
<1>2. /\ [x EXCEPT !.at = "wait"] \in ProfileRequests
      /\ [x EXCEPT !.at = "wait"].does = x.does /\ [x EXCEPT !.at = "wait"].patch = x.patch
      /\ [x EXCEPT !.at = "wait"].value = x.value /\ [x EXCEPT !.at = "wait"].fresh = x.fresh
  BY DEF ProfileRequests
<1> QED BY <1>1, <1>2 DEF Ensured

\* What a request of a profile finds is merged with its patch.
LEMMA ReadFields ==
  ASSUME TypeOK, NEW r \in Requests, ReadProfile(r)
  PROVE  /\ req[r] \in ProfileRequests /\ kind = "profile" /\ Idle \in RequestType
         /\ Goes(r, Idle) \/ \E x \in ProfileRequests :
              /\ Goes(r, x) /\ x.does = "write" /\ x.patch = req[r].patch
              /\ x.value = Merge(Stored(req[r].on).content, req[r].patch)
              /\ missed' = (missed \/ req[r].on = "memory")
<1>1. req[r].at = "store" /\ req[r] \in ProfileRequests /\ kind = "profile"
  BY RequestAtStep DEF ReadProfile
<1>2. CASE ~Goes(r, Idle)
  <2> DEFINE v == Merge(Stored(req[r].on).content, req[r].patch)
             y == [req[r] EXCEPT !.does = "write", !.value = v, !.fresh = TRUE]
  <2>1. Goes(r, Ensured(y)) /\ missed' = (missed \/ req[r].on = "memory")
    BY <1>2 DEF ReadProfile
  <2>2. Stored(req[r].on).content \in Contents
    BY DEF Stored, TypeOK
  <2>3. v \in Contents
    BY <1>1, <2>2, MergeType DEF ProfileRequests
  <2> HIDE DEF v
  <2>4. y \in ProfileRequests /\ y.does = "write" /\ y.patch = req[r].patch /\ y.value = v
    BY <1>1, <2>3 DEF ProfileRequests
  <2> HIDE DEF y
  <2>5. /\ Ensured(y) \in ProfileRequests /\ Ensured(y).does = y.does
        /\ Ensured(y).patch = y.patch /\ Ensured(y).value = y.value
    BY <2>4, ProfileNext
  <2> QED BY <1>1, <2>1, <2>4, <2>5 DEF v, RequestType
<1> QED BY <1>1, <1>2 DEF RequestType

LEMMA ProfileTypes ==
  ASSUME TypeOK, NEW r \in Requests, UNCHANGED <<records, drawings, reports>>,
         ReadProfile(r) \/ UpsertProfile(r) \/ ProfileFails(r)
  PROVE  TypeOK'
<1>0. Idle \in RequestType
  BY DEF RequestType
<1>1. CASE ReadProfile(r)
  <2>1. \E x \in RequestType : Goes(r, x)
    BY <1>1, ReadFields, RequestsOfKind DEF RequestType, TypeOK
  <2>2. recovering' \in BOOLEAN
    BY <1>1 DEF ReadProfile, Recovers, TypeOK
  <2>3. missed' \in BOOLEAN
    BY <1>1 DEF ReadProfile, TypeOK
  <2>4. UNCHANGED <<row, degraded, cut, faults, restarts, memory, begun>>
    BY <1>1 DEF ReadProfile
  <2> QED BY <2>1, <2>2, <2>3, <2>4, TypeOfRequest DEF row, records, drawings, reports, TypeOK, Served
<1>2. CASE UpsertProfile(r)
  <2>0. /\ req[r].at = "store" /\ req[r].value \in Contents
        /\ UNCHANGED <<degraded, cut, kind, faults, restarts, recovering, begun>>
    BY <1>2, WriteFields DEF UpsertProfile, world
  <2>1. CASE Goes(r, Idle)
    <3>1. memory' \in [known : BOOLEAN, content : Contents] /\ missed' \in BOOLEAN
      <4>1. memory \in [known : BOOLEAN, content : Contents] /\ missed \in BOOLEAN
        BY DEF TypeOK
      <4>2. \/ UNCHANGED <<memory, missed>>
            \/ memory' = [known |-> TRUE, content |-> req[r].value] /\ missed' = TRUE
        BY <1>2 DEF UpsertProfile
      <4>3. [known |-> TRUE, content |-> req[r].value] \in [known : BOOLEAN, content : Contents]
        BY <2>0
      <4>4. TRUE \in BOOLEAN
        OBVIOUS
      <4>5. CASE UNCHANGED <<memory, missed>>
        BY <4>1, <4>5
      <4>6. CASE memory' = [known |-> TRUE, content |-> req[r].value] /\ missed' = TRUE
        BY <4>3, <4>4, <4>6
      <4> QED BY <4>2, <4>5, <4>6
    <3>2. CASE req[r].on # "postgres"
      <4>1. UNCHANGED <<exists, content, latest, overtaken>>
        BY <1>2, <3>2 DEF UpsertProfile
      <4> QED BY <1>0, <2>0, <2>1, <3>1, <4>1, TypeOfRequest DEF records, drawings, reports, TypeOK, Served
    <3>3. CASE req[r].on = "postgres"
      <4>1. Writes(r, Idle) /\ exists' \in BOOLEAN /\ UNCHANGED <<memory, missed>>
        BY <1>2, <3>3 DEF UpsertProfile
      <4> QED BY <1>0, <2>0, <4>1, TypeOfWrite DEF Served, records, drawings, reports, profiles, TypeOK
    <3> QED BY <3>2, <3>3
  <2>2. CASE ~Goes(r, Idle)
    <3>1. Writes(r, Idle) /\ exists' \in BOOLEAN /\ UNCHANGED <<memory, missed>>
      BY <1>2, <2>2 DEF UpsertProfile
    <3> QED BY <1>0, <2>0, <3>1, TypeOfWrite DEF Served, records, drawings, reports, profiles, TypeOK
  <2> QED BY <2>1, <2>2
<1>3. CASE ProfileFails(r)
  <2>1. req[r] \in ProfileRequests /\ kind = "profile"
    BY <1>3, RequestAtStep DEF ProfileFails
  <2>2. Ready(req[r], "memory") \in RequestType
    BY <2>1, ProfileNext, RequestsOfKind DEF RequestType, TypeOK
  <2>3. Served /\ UNCHANGED profiles /\ req[r].at = "store"
    BY <1>3, FaultServed DEF ProfileFails
  <2>4. CASE Writes(r, Ready(req[r], "memory")) /\ exists' = TRUE
    <3>1. /\ written' \in Seq(Contents) /\ UNCHANGED events
          /\ revision' \in Nat /\ UNCHANGED audit /\ exists' \in BOOLEAN
      BY <2>4 DEF TypeOK, records, drawings
    <3> QED BY <2>2, <2>3, <2>4, <3>1, TypeOfWrite
  <2>5. CASE Goes(r, Ready(req[r], "memory")) /\ UNCHANGED <<exists, content, latest, overtaken>>
    BY <2>2, <2>3, <2>5, TypeOfRequest DEF profiles, records, drawings, reports, TypeOK
  <2> QED BY <1>3, <2>4, <2>5 DEF ProfileFails
<1> QED BY <1>1, <1>2, <1>3

LEMMA PreferencesTypes ==
  ASSUME TypeOK, NEW r \in Requests, NEW patch \in Patches \cup {Blank}, Preferences(r, patch),
         UNCHANGED <<records, drawings, reports>>
  PROVE  TypeOK'
<1> DEFINE x == [at |-> "wait", does |-> "read", on |-> "postgres", patch |-> patch,
                 value |-> Blank, fresh |-> TRUE]
<1>1. x \in ProfileRequests
  BY PatchType DEF ProfileRequests
<1>2. Begin(r, Ensured(x)) /\ kind = "profile"
  BY DEF Preferences
<1> HIDE DEF x
<1>3. Ensured(x) \in RequestType
  BY <1>1, <1>2, ProfileNext, RequestsOfKind DEF RequestType, TypeOK
<1>4. recovering' \in BOOLEAN /\ begun' \in Nat
  BY DEF Preferences, Recovers, TypeOK
<1> QED BY <1>2, <1>3, <1>4, TypeOfRequest DEF Preferences, row, records, drawings, reports, TypeOK, Served

LEMMA RecoveryFields ==
  ASSUME TypeOK, NEW ok \in BOOLEAN, RecoveryEnds(ok)
  PROVE  /\ req' \in [Requests -> RequestType] /\ degraded' \in BOOLEAN /\ recovering' \in BOOLEAN
         /\ \A r \in Requests :
              /\ req[r].at # "wait" => req'[r] = req[r]
              /\ req[r].at = "wait" =>
                   /\ req'[r].at = "store" /\ req'[r].does = req[r].does
                   /\ req'[r].patch = req[r].patch /\ req'[r].value = req[r].value
                   /\ req'[r].fresh = req[r].fresh
<1> DEFINE on == IF ok THEN "postgres" ELSE "memory"
<1>1. /\ req' = [r \in Requests |-> IF req[r].at = "wait" THEN Ready(req[r], on) ELSE req[r]]
      /\ degraded' \in BOOLEAN /\ recovering' \in BOOLEAN
  BY DEF RecoveryEnds
<1>2. on \in {"postgres", "memory"}
  OBVIOUS
<1> HIDE DEF on
<1>3. ASSUME NEW r \in Requests, req[r].at = "wait"
      PROVE  /\ Ready(req[r], on) \in RequestType /\ Ready(req[r], on).at = "store"
             /\ Ready(req[r], on).does = req[r].does /\ Ready(req[r], on).patch = req[r].patch
             /\ Ready(req[r], on).value = req[r].value /\ Ready(req[r], on).fresh = req[r].fresh
  <2>1. req[r] \in ProfileRequests /\ kind = "profile"
    BY <1>3, RequestAtStep
  <2>2. Ready(req[r], on) \in {Ready(req[r], "postgres"), Ready(req[r], "memory"), Ensured(req[r])}
    BY <1>2
  <2> QED BY <1>2, <2>1, <2>2, ProfileNext, RequestsOfKind DEF RequestType, TypeOK
<1>4. \A r \in Requests : req[r] \in RequestType
  BY RequestAtStep
<1> QED BY <1>1, <1>3, <1>4

LEMMA RecoveryTypes ==
  ASSUME TypeOK, Recovery
  PROVE  TypeOK'
<1>1. \E ok \in BOOLEAN : RecoveryEnds(ok)
  BY DEF Recovery, RecoverySucceeds, RecoveryFails
<1>2. req' \in [Requests -> {Idle} \cup RequestsOf[kind]] /\ degraded' \in BOOLEAN /\ recovering' \in BOOLEAN
  BY <1>1, RecoveryFields DEF RequestType
<1>3. faults' \in 0..MaxFaults
  <2>1. CASE RecoverySucceeds
    BY <2>1 DEF RecoverySucceeds, TypeOK
  <2>2. CASE RecoveryFails
    BY <2>2 DEF RecoveryFails, TypeOK
  <2> QED BY <2>1, <2>2 DEF Recovery
<1>4. UNCHANGED <<row, cut, restarts, memory, missed, begun, records, drawings, reports>>
  BY DEF Recovery, RecoverySucceeds, RecoveryFails
<1> QED BY <1>2, <1>3, <1>4 DEF row, records, drawings, reports, TypeOK

LEMMA FailTypes ==
  ASSUME TypeOK, NEW r \in Requests, Fails(r)
  PROVE  TypeOK'
<1>0. Idle \in RequestType
  BY DEF RequestType
<1>1. CASE StatementFails(r) /\ UNCHANGED <<records, drawings, reports, profiles>>
  <2>1. Goes(r, Idle) /\ Served /\ UNCHANGED row
    BY <1>1, FaultServed DEF StatementFails
  <2> QED BY <1>0, <1>1, <2>1, TypeOfRequest DEF row, records, drawings, reports, profiles, TypeOK
<1>2. CASE UpsertLost(r) /\ UNCHANGED <<drawings, reports, profiles>>
  BY <1>0, <1>2, UpsertTypes, FaultServed DEF UpsertLost, Tells
<1>3. CASE SketchLost(r) /\ UNCHANGED <<records, reports, profiles>>
  <2>1. Served /\ (Updates(r, Idle) \/ Deletes(r, Idle) \/ Inserts(r))
    BY <1>3, FaultServed DEF SketchLost
  <2> QED BY <1>0, <1>3, <2>1, SketchStatementTypes
<1>4. CASE ProfileFails(r) /\ UNCHANGED <<records, drawings, reports>>
  BY <1>4, ProfileTypes
<1> QED BY <1>1, <1>2, <1>3, <1>4 DEF Fails

LEMMA RestartTypes ==
  ASSUME TypeOK, Restart
  PROVE  TypeOK'
<1>1. req' \in [Requests -> {Idle} \cup RequestsOf[kind]]
  BY DEF Restart
<1>2. faults' \in 0..MaxFaults /\ restarts' \in 0..MaxRestarts
  BY DEF Restart, TypeOK
<1>3. degraded' \in BOOLEAN /\ cut' \in BOOLEAN /\ recovering' \in BOOLEAN
  BY DEF Restart, TypeOK
<1>4. memory' \in [known : BOOLEAN, content : Contents]
  BY PatchType DEF Restart, Unknown
<1>5. UNCHANGED <<row, records, drawings, reports, missed, begun>>
  BY DEF Restart
<1> QED BY <1>1, <1>2, <1>3, <1>4, <1>5 DEF row, records, drawings, reports, TypeOK

LEMMA TypeStep == TypeOK /\ [Next]_vars => TypeOK'
<1> SUFFICES ASSUME TypeOK, [Next]_vars PROVE TypeOK'
  OBVIOUS
<1>1. ASSUME NEW r \in Requests, Requested(r) PROVE TypeOK'
  <2>1. ASSUME NEW patch \in Patches, PatchIncident(r, patch) \/ PatchTask(r, patch),
               UNCHANGED <<drawings, reports, profiles>>
        PROVE  TypeOK'
    BY <2>1, IncidentTypes
  <2>2. CASE /\ DeleteSketch(r) \/ \E patch \in Patches : PatchSketch(r, patch)
             /\ UNCHANGED <<records, reports, profiles>>
    BY <2>2, SketchTypes
  <2>3. CASE (\E patch \in Patches : UpdateReport(r, patch)) /\ UNCHANGED <<records, drawings, profiles>>
    BY <2>3, ReportTypes
  <2>4. ASSUME NEW patch \in Patches \cup {Blank}, Preferences(r, patch), UNCHANGED <<records, drawings, reports>>
        PROVE  TypeOK'
    BY <2>4, PreferencesTypes
  <2> QED BY <1>1, <2>1, <2>2, <2>3, <2>4 DEF Requested
<1>2. ASSUME NEW r \in Requests, Steps(r) PROVE TypeOK'
  <2>1. CASE IncidentSteps(r)
    BY <2>1, IncidentStepTypes
  <2>2. CASE SketchSteps(r)
    BY <2>2, SketchStepTypes
  <2>3. CASE ReportSteps(r)
    BY <2>3, ReportTypes DEF ReportSteps
  <2>4. CASE ProfileSteps(r)
    BY <2>4, ProfileTypes DEF ProfileSteps
  <2> QED BY <1>2, <2>1, <2>2, <2>3, <2>4 DEF Steps
<1>3. ASSUME NEW r \in Requests, Fails(r) PROVE TypeOK'
  BY <1>3, FailTypes
<1>4. CASE (SubmitReport \/ DeleteReport \/ ReportLost) /\ UNCHANGED <<records, drawings, profiles>>
  BY <1>4, ReportTypes
<1>5. CASE Recovery
  BY <1>5, RecoveryTypes
<1>6. CASE Restart
  BY <1>6, RestartTypes
<1>7. CASE UNCHANGED vars
  BY <1>7 DEF vars, row, records, drawings, reports, profiles, TypeOK
<1> QED BY <1>1, <1>2, <1>3, <1>4, <1>5, <1>6, <1>7 DEF Next

(* Every variable has its type: requests have the fields of their kind and   *)
(* step.                                                                     *)
THEOREM RecordsTypeCorrect == Spec => []TypeOK
<1> QED BY TypeInit, TypeStep, PTL DEF Spec

-----------------------------------------------------------------------------
(* Edits.  As long as no settings went through the fallback store, what a    *)
(* request is about to write, if nobody wrote since it read, is the stored   *)
(* record with its patch.                                                    *)
Writing(x) == x.at = "write" \/ (x.at \in {"wait", "store"} /\ x.does = "write")

FreshWrites ==
  \A r \in Requests : Writing(req[r]) /\ req[r].fresh => req[r].value = Merge(content, req[r].patch)

KeptInv ==
  /\ submitted => status = "submitted"
  /\ ~missed => FreshWrites /\ (~overtaken => content = latest)

\* A step that changes one request and leaves the record alone.
LEMMA KeptByRequest ==
  ASSUME TypeOK, KeptInv, NEW r \in Requests, NEW x \in RequestType, Goes(r, x) \/ Begin(r, x),
         UNCHANGED <<content, latest, overtaken, status, submitted>>, missed => missed',
         Writing(x) /\ x.fresh /\ ~missed' => x.value = Merge(content, x.patch)
  PROVE  KeptInv'
<1>1. req'[r] = x /\ \A q \in Requests \ {r} : req'[q] = req[q]
  BY OneRequest
<1>2. ~missed' => FreshWrites'
  BY <1>1 DEF KeptInv, FreshWrites
<1> QED BY <1>2 DEF KeptInv

\* A step that writes the record.
LEMMA KeptByWrite ==
  ASSUME TypeOK, KeptInv, NEW r \in Requests, NEW x \in RequestType, Writes(r, x),
         req[r].at \in {"write", "store"}, Writing(req[r]),
         Writing(x) => (~missed /\ x.fresh => x.value = Merge(req[r].value, x.patch)),
         UNCHANGED <<status, submitted, missed>>
  PROVE  KeptInv'
<1>1. /\ content' = req[r].value /\ latest' = Merge(latest, req[r].patch)
      /\ overtaken' = (overtaken \/ ~req[r].fresh)
      /\ req'[r] = x /\ \A q \in Requests \ {r} : req'[q] = Stale(q)
  BY WritesFields
<1>2. ~missed => \A q \in Requests :
        Writing(req'[q]) /\ req'[q].fresh => req'[q].value = Merge(content', req'[q].patch)
  BY <1>1, StaleFields DEF Writing
<1>3. ASSUME ~missed, ~overtaken' PROVE content' = latest'
  <2>1. ~overtaken /\ req[r].fresh
    BY <1>1, <1>3 DEF TypeOK
  <2> QED BY <1>1, <1>3, <2>1 DEF KeptInv, FreshWrites
<1> QED BY <1>2, <1>3 DEF KeptInv, FreshWrites

LEMMA KeptStep == TypeOK /\ KeptInv /\ [Next]_vars => KeptInv'
<1> SUFFICES ASSUME TypeOK, KeptInv, [Next]_vars PROVE KeptInv'
  OBVIOUS
<1>0. Idle \in RequestType /\ ~Writing(Idle)
  BY IdleAt DEF RequestType, Writing
\* Incidents and tasks.
<1>1. ASSUME NEW r \in Requests, NEW patch \in Patches,
             PatchIncident(r, patch) \/ PatchTask(r, patch), UNCHANGED <<drawings, reports, profiles>>
      PROVE  KeptInv'
  <2> DEFINE x == [at |-> "write", patch |-> patch, seen |-> "absent",
                   value |-> Merge(content, patch), fresh |-> TRUE]
             y == [at |-> "update", patch |-> patch, seen |-> content["status"], fresh |-> TRUE]
  <2>1. UNCHANGED <<content, latest, overtaken, status, submitted, missed>>
    BY <1>1 DEF PatchIncident, PatchTask, row, reports, profiles
  <2>2. x.value = Merge(content, x.patch) /\ ~Writing(y)
    BY DEF Writing
  <2>3. Goes(r, x) \/ Goes(r, y)
    BY <1>1 DEF PatchIncident, PatchTask, Begin, Goes
  <2>4. x \in RequestType /\ y \in RequestType
    <3>1. kind \in {"incident", "task"}
      BY <1>1 DEF PatchIncident, PatchTask
    <3>2. patch \in Contents /\ Merge(content, patch) \in Contents
          /\ content["status"] \in Values \cup {"absent"}
      BY PatchType, MergeType DEF TypeOK, Contents, Fields
    <3>3. x \in IncidentRequests /\ y \in IncidentRequests
      BY <3>2 DEF IncidentRequests
    <3> QED BY <3>1, <3>3, RequestsOfKind DEF RequestType, Kinds
  <2> HIDE DEF x, y
  <2> QED BY <2>1, <2>2, <2>3, <2>4, KeptByRequest
<1>2. ASSUME NEW r \in Requests, UpdateTask(r), UNCHANGED <<reports, profiles>> PROVE KeptInv'
  <2> DEFINE x == [at |-> "write", patch |-> req[r].patch, seen |-> req[r].seen,
                   value |-> Merge(content, req[r].patch), fresh |-> req[r].fresh]
  <2>1. UNCHANGED <<content, latest, overtaken, status, submitted, missed>>
    BY <1>2 DEF UpdateTask, row, reports, profiles
  <2>2. x.value = Merge(content, x.patch)
    OBVIOUS
  <2>3. Goes(r, x) \/ Goes(r, Idle)
    BY <1>2 DEF UpdateTask
  <2>4. x \in RequestType
    <3>1. kind = "task" /\ req[r].at = "update"
      BY <1>2 DEF UpdateTask
    <3>2. /\ req[r].patch \in Contents /\ req[r].fresh \in BOOLEAN /\ req[r].seen \in Values \cup {"absent"}
          /\ Merge(content, req[r].patch) \in Contents
      BY <3>1, UpdateFields, MergeType DEF TypeOK
    <3>3. x \in IncidentRequests
      BY <3>2 DEF IncidentRequests
    <3> QED BY <3>1, <3>3, RequestsOfKind DEF RequestType, Kinds
  <2> HIDE DEF x
  <2> QED BY <1>0, <2>1, <2>2, <2>3, <2>4, KeptByRequest
<1>3. ASSUME NEW r \in Requests, UpsertRecord(r) \/ UpsertLost(r), UNCHANGED <<reports, profiles>> PROVE KeptInv'
  <2>1. kind \in {"incident", "task"} /\ req[r].at = "write" /\ Writing(req[r])
    BY <1>3 DEF UpsertRecord, UpsertLost, Upserts, Writing
  <2>2. Telling(r) \in RequestType /\ ~Writing(Telling(r))
    BY <2>1, TellingType DEF Writing
  <2>3. Writes(r, Telling(r)) \/ Writes(r, Idle)
    BY <1>3 DEF UpsertRecord, UpsertLost, Upserts
  <2>4. UNCHANGED <<status, submitted, missed>>
    BY <1>3 DEF reports, profiles
  <2> QED BY <1>0, <2>1, <2>2, <2>3, <2>4, KeptByWrite
<1>4. ASSUME NEW r \in Requests,
             PublishEvent(r) \/ SketchMissed(r) \/ Inserts(r) \/ ReportMissed(r) \/ StatementFails(r),
             UNCHANGED <<status, submitted, profiles>>
      PROVE  KeptInv'
  <2>1. Goes(r, Idle) /\ UNCHANGED <<content, latest, overtaken>>
    BY <1>4 DEF PublishEvent, SketchMissed, Inserts, ReportMissed, StatementFails, row
  <2> QED BY <1>0, <1>4, <2>1, KeptByRequest DEF profiles
\* Sketches.
<1>5. ASSUME NEW r \in Requests, NEW patch \in Patches, PatchSketch(r, patch), UNCHANGED <<reports, profiles>>
      PROVE  KeptInv'
  <2> DEFINE x == [at |-> "update", patch |-> patch, fresh |-> TRUE]
  <2>1. x \in SketchRequests /\ ~Writing(x)
    BY PatchType DEF SketchRequests, Writing
  <2>2. Begin(r, x) /\ kind = "sketch" /\ UNCHANGED <<content, latest, overtaken, status, submitted, missed>>
    BY <1>5 DEF PatchSketch, row, reports, profiles
  <2>3. x \in RequestType
    BY <2>1, <2>2, RequestsOfKind DEF RequestType, Kinds
  <2> HIDE DEF x
  <2> QED BY <2>1, <2>2, <2>3, KeptByRequest
<1>6. ASSUME NEW r \in Requests, NEW x \in {Idle, Entry("deleted", revision + 1)}, Deletes(r, x),
             UNCHANGED <<reports, profiles>>
      PROVE  KeptInv'
  <2>1. Begin(r, x) /\ kind = "sketch" /\ UNCHANGED <<content, latest, overtaken, status, submitted, missed>>
    BY <1>6 DEF Deletes, reports, profiles
  <2>2. x \in RequestType /\ ~Writing(x)
    BY <1>0, <2>1, EntryType DEF Entry, Writing
  <2> QED BY <2>1, <2>2, KeptByRequest
<1>7. ASSUME NEW r \in Requests, UpdateSketch(r), UNCHANGED <<reports, profiles>> PROVE KeptInv'
  <2> DEFINE x == [at |-> "write", patch |-> req[r].patch, value |-> Merge(content, req[r].patch),
                   revision |-> revision + 1, fresh |-> TRUE]
  <2>1. x.value = Merge(content, x.patch)
    OBVIOUS
  <2>2. kind = "sketch" /\ req[r].at = "update" /\ (Goes(r, x) \/ Goes(r, Idle))
    BY <1>7 DEF UpdateSketch
  <2>3. x \in SketchRequests
    BY <2>2, UpdateFields, MergeType DEF SketchRequests, TypeOK
  <2>4. x \in RequestType
    BY <2>2, <2>3, RequestsOfKind DEF RequestType, Kinds
  <2>5. UNCHANGED <<content, latest, overtaken, status, submitted, missed>>
    BY <1>7 DEF UpdateSketch, row, reports, profiles
  <2> HIDE DEF x
  <2> QED BY <1>0, <2>1, <2>2, <2>4, <2>5, KeptByRequest
<1>8. ASSUME NEW r \in Requests, NEW x \in {Idle, Entry("updated", revision + 1)}, Updates(r, x),
             UNCHANGED <<reports, profiles>>
      PROVE  KeptInv'
  <2>1. Writes(r, x) /\ kind = "sketch" /\ req[r].at = "write" /\ Writing(req[r])
    BY <1>8 DEF Updates, Writing
  <2>2. x \in RequestType /\ ~Writing(x)
    BY <1>0, <2>1, EntryType DEF Entry, Writing
  <2>3. UNCHANGED <<status, submitted, missed>>
    BY <1>8 DEF reports, profiles
  <2> QED BY <2>1, <2>2, <2>3, KeptByWrite
\* Reports.
<1>9. ASSUME NEW r \in Requests, NEW patch \in Patches, UpdateReport(r, patch), UNCHANGED profiles PROVE KeptInv'
  <2> DEFINE x == [at |-> "write", patch |-> patch, value |-> Merge(content, patch), fresh |-> TRUE]
  <2>1. x \in ReportRequests /\ x.value = Merge(content, x.patch)
    BY PatchType, MergeType DEF ReportRequests, TypeOK
  <2>2. Begin(r, x) /\ kind = "report" /\ UNCHANGED <<content, latest, overtaken, status, submitted, missed>>
    BY <1>9 DEF UpdateReport, row, profiles
  <2>3. x \in RequestType
    BY <2>1, <2>2, RequestsOfKind DEF RequestType, Kinds
  <2> HIDE DEF x
  <2> QED BY <2>1, <2>2, <2>3, KeptByRequest
<1>10. ASSUME NEW r \in Requests, UpdatesReport(r), UNCHANGED profiles PROVE KeptInv'
  <2>1. Writes(r, Idle) /\ req[r].at = "write" /\ Writing(req[r]) /\ UNCHANGED <<status, submitted, missed>>
    BY <1>10 DEF UpdatesReport, Writing, reports, profiles
  <2> QED BY <1>0, <2>1, KeptByWrite
<1>11. CASE (SubmitReport \/ DeleteReport \/ ReportLost) /\ UNCHANGED <<records, drawings, profiles>>
  <2>1. CASE Submits \/ DeletesReport
    <3>1. UNCHANGED <<content, latest, overtaken, req, missed>> /\ (submitted' => status' = "submitted")
      BY <1>11, <2>1 DEF Submits, DeletesReport, reports, profiles, KeptInv
    <3> QED BY <3>1 DEF KeptInv, FreshWrites
  <2> QED BY <1>10, <1>11, <2>1 DEF SubmitReport, DeleteReport, ReportLost, profiles
\* Profiles.
<1>12. ASSUME NEW r \in Requests, NEW patch \in Patches \cup {Blank}, Preferences(r, patch), UNCHANGED reports
       PROVE  KeptInv'
  <2> DEFINE x == [at |-> "wait", does |-> "read", on |-> "postgres", patch |-> patch,
                   value |-> Blank, fresh |-> TRUE]
  <2>1. x \in ProfileRequests /\ x.does = "read"
    BY PatchType DEF ProfileRequests
  <2>2. Begin(r, Ensured(x)) /\ kind = "profile" /\ UNCHANGED <<content, latest, overtaken, status, submitted, missed>>
    BY <1>12 DEF Preferences, row, reports
  <2> HIDE DEF x
  <2>3. Ensured(x) \in ProfileRequests /\ Ensured(x).does = "read"
    BY <2>1, ProfileNext
  <2>4. Ensured(x) \in RequestType /\ ~Writing(Ensured(x))
    BY <2>2, <2>3, RequestsOfKind, RequestSteps DEF RequestType, TypeOK, Writing
  <2> QED BY <2>2, <2>4, KeptByRequest
<1>13. ASSUME NEW r \in Requests, ReadProfile(r), UNCHANGED reports PROVE KeptInv'
  <2>1. UNCHANGED <<content, latest, overtaken, status, submitted>> /\ (missed => missed')
    BY <1>13 DEF ReadProfile, row, reports
  <2>2. CASE Goes(r, Idle)
    BY <1>0, <2>1, <2>2, KeptByRequest
  <2>3. ASSUME NEW x \in ProfileRequests, Goes(r, x), missed' = (missed \/ req[r].on = "memory"),
               x.patch = req[r].patch, x.value = Merge(Stored(req[r].on).content, req[r].patch)
        PROVE  KeptInv'
    <3>1. x \in RequestType
      BY <1>13, ReadFields, RequestsOfKind DEF RequestType, TypeOK
    <3>2. ~missed' => x.value = Merge(content, x.patch)
      BY <2>3 DEF Stored
    <3> QED BY <2>1, <2>3, <3>1, <3>2, KeptByRequest
  <2> QED BY <1>13, <2>2, <2>3, ReadFields
<1>14. ASSUME NEW r \in Requests, UpsertProfile(r), UNCHANGED reports PROVE KeptInv'
  <2>1. req[r].at = "store" /\ Writing(req[r]) /\ UNCHANGED <<status, submitted>>
    BY <1>14 DEF UpsertProfile, Writing, reports
  <2>2. CASE req[r].on = "postgres"
    BY <1>0, <1>14, <2>1, <2>2, KeptByWrite DEF UpsertProfile
  <2>3. CASE req[r].on # "postgres"
    BY <1>0, <1>14, <2>1, <2>3, KeptByRequest DEF UpsertProfile
  <2> QED BY <2>2, <2>3
<1>15. ASSUME NEW r \in Requests, ProfileFails(r), UNCHANGED reports PROVE KeptInv'
  <2> DEFINE x == Ready(req[r], "memory")
  <2>1. req[r] \in ProfileRequests /\ kind = "profile" /\ req[r].at = "store"
    BY <1>15, RequestAtStep DEF ProfileFails
  <2>2. /\ x \in ProfileRequests /\ x.does = req[r].does /\ x.patch = req[r].patch
        /\ x.value = req[r].value /\ x.fresh = req[r].fresh
    BY <2>1, ProfileNext
  <2>3. UNCHANGED <<status, submitted, missed>>
    BY <1>15 DEF ProfileFails, reports, profiles
  <2>4. x \in RequestType /\ (Writing(x) => Writing(req[r]))
    BY <2>1, <2>2, RequestsOfKind, RequestSteps DEF RequestType, TypeOK, Writing
  <2>5. CASE Goes(r, x) /\ UNCHANGED <<exists, content, latest, overtaken>>
    <3> HIDE DEF x
    <3> QED BY <2>2, <2>3, <2>4, <2>5, KeptByRequest DEF KeptInv, FreshWrites
  <2>6. CASE req[r].does = "write" /\ Writes(r, x)
    <3>1. Writing(req[r]) /\ req[r].value \in Contents /\ req[r].patch \in Contents
      BY <2>1, <2>6, WriteFields DEF Writing
    <3> HIDE DEF x
    <3>2. ~missed /\ x.fresh => x.value = Merge(req[r].value, x.patch)
      <4>1. ~missed /\ req[r].fresh => req[r].value = Merge(content, req[r].patch)
        BY <3>1 DEF KeptInv, FreshWrites
      <4> QED BY <2>2, <3>1, <4>1, MergeTwice DEF TypeOK
    <3>3. Writes(r, x) /\ req[r].at \in {"write", "store"} /\ x \in RequestType
      BY <2>1, <2>4, <2>6
    <3> QED BY <2>3, <3>1, <3>2, <3>3, KeptByWrite
  <2> QED BY <1>15, <2>5, <2>6 DEF ProfileFails
<1>16. CASE Recovery
  <2>1. \E ok \in BOOLEAN : RecoveryEnds(ok)
    BY <1>16 DEF Recovery, RecoverySucceeds, RecoveryFails
  <2>2. \A r \in Requests : Writing(req'[r]) /\ req'[r].fresh =>
          /\ Writing(req[r]) /\ req[r].fresh
          /\ req'[r].value = req[r].value /\ req'[r].patch = req[r].patch
    BY <2>1, RecoveryFields DEF Writing
  <2>3. UNCHANGED <<content, latest, overtaken, status, submitted, missed>>
    BY <1>16 DEF Recovery, RecoverySucceeds, RecoveryFails, row, reports
  <2> QED BY <2>2, <2>3 DEF KeptInv, FreshWrites
<1>17. CASE Restart
  <2>1. UNCHANGED <<content, latest, overtaken, status, submitted, missed>> /\ \A r \in Requests : req'[r] = Idle
    BY <1>17 DEF Restart, row, reports
  <2> QED BY <1>0, <2>1 DEF KeptInv, FreshWrites
<1>18. CASE UNCHANGED vars
  BY <1>18 DEF vars, row, reports, profiles, KeptInv, FreshWrites
<1>19. ASSUME NEW r \in Requests, Requested(r) PROVE KeptInv'
  BY <1>1, <1>5, <1>6, <1>9, <1>12, <1>19 DEF Requested, DeleteSketch
<1>20. ASSUME NEW r \in Requests, Steps(r) PROVE KeptInv'
  <2>1. CASE IncidentSteps(r)
    BY <1>2, <1>3, <1>4, <2>1 DEF IncidentSteps, reports
  <2>2. CASE SketchSteps(r)
    BY <1>4, <1>7, <1>8, <2>2 DEF SketchSteps, WritesSketch, AuditSketch, reports
  <2>3. CASE ReportSteps(r)
    BY <1>4, <1>10, <2>3 DEF ReportSteps, WritesReport, ReportMissed, reports
  <2>4. CASE ProfileSteps(r)
    BY <1>13, <1>14, <2>4 DEF ProfileSteps
  <2> QED BY <1>20, <2>1, <2>2, <2>3, <2>4 DEF Steps
<1>21. ASSUME NEW r \in Requests, Fails(r) PROVE KeptInv'
  <2>1. CASE SketchLost(r) /\ UNCHANGED <<records, reports, profiles>>
    BY <1>4, <1>6, <1>8, <2>1 DEF SketchLost, reports
  <2> QED BY <1>3, <1>4, <1>15, <1>21, <2>1 DEF Fails, reports
<1> QED BY <1>11, <1>16, <1>17, <1>18, <1>19, <1>20, <1>21 DEF Next

LEMMA KeptInit == Init => KeptInv
<1>1. Init => submitted = FALSE /\ content = latest /\ \A r \in Requests : req[r] = Idle
  BY DEF Init, ReportInit
<1> QED BY <1>1, IdleAt DEF KeptInv, FreshWrites, Writing

(* What edits set stays, unless an edit was written that another had         *)
(* overtaken or settings went through the fallback; a submitted report stays *)
(* submitted.                                                                *)
THEOREM RecordEditsKept == Spec => []EditsKept
<1>1. KeptInv => EditsKept
  BY DEF KeptInv, EditsKept
<1> QED BY <1>1, TypeInit, TypeStep, KeptInit, KeptStep, PTL DEF Spec

-----------------------------------------------------------------------------
(* The audit of a sketch.  Each revision has an entry or a request that is   *)
(* about to insert it, never two of them, unless a request was cut off; and  *)
(* what tells of a deletion tells of the last revision.                      *)
Auditing == {r \in Requests : req[r].at = "audit"}
EntryOf(n) == \E i \in DOMAIN audit : audit[i].revision = n
PendingOf(n) == \E r \in Auditing : req[r].revision = n

AuditInv ==
  kind = "sketch" =>
    /\ \A i \in DOMAIN audit :
         /\ audit[i].revision \in 1..revision
         /\ audit[i].action = "deleted" => audit[i].revision = revision /\ ~exists
    /\ \A r \in Auditing :
         /\ req[r].revision \in 1..revision
         /\ req[r].action = "deleted" => req[r].revision = revision /\ ~exists
    /\ \A i, j \in DOMAIN audit : audit[i].revision = audit[j].revision => i = j
    /\ \A r, q \in Auditing : req[r].revision = req[q].revision => r = q
    /\ \A r \in Auditing, i \in DOMAIN audit : audit[i].revision # req[r].revision
    /\ cut \/ \A n \in 1..revision : EntryOf(n) \/ PendingOf(n)

\* The four ways a step bears on the audit.
AuditsSame ==
  /\ UNCHANGED <<exists, revision, audit>>
  /\ \A q \in Requests : req'[q].at = "audit" => req'[q] = req[q]
  /\ cut => cut'
  /\ cut' \/ \A q \in Requests : req[q].at = "audit" => req'[q] = req[q]

Raises(r, action) ==
  /\ exists /\ revision' = revision + 1 /\ UNCHANGED <<audit, cut>>
  /\ action = "deleted" => ~exists'
  /\ req'[r] = Entry(action, revision + 1)
  /\ req[r].at # "audit"
  /\ \A q \in Requests \ {r} : req'[q].at = "audit" \/ req[q].at = "audit" => req'[q] = req[q]

RaisesCut ==
  /\ exists /\ revision' = revision + 1 /\ UNCHANGED audit /\ cut'
  /\ \A q \in Requests : req'[q].at = "audit" \/ req[q].at = "audit" => req'[q] = req[q]

Audited(r) ==
  /\ UNCHANGED <<exists, revision, cut>>
  /\ req[r].at = "audit" /\ req'[r].at # "audit"
  /\ audit' = Append(audit, [action |-> req[r].action, revision |-> req[r].revision])
  /\ \A q \in Requests \ {r} : req'[q] = req[q]

LEMMA AuditSame ==
  ASSUME TypeOK, AuditInv, kind = "sketch", AuditsSame
  PROVE  AuditInv'
<1>1. ASSUME NEW q \in Auditing' PROVE q \in Auditing /\ req'[q] = req[q]
  BY <1>1 DEF Auditing, AuditsSame
<1>2. \/ cut'
      \/ ~cut /\ Auditing \subseteq Auditing' /\ \A q \in Auditing : req'[q] = req[q]
  BY DEF Auditing, AuditsSame
<1>3. exists' = exists /\ revision' = revision /\ audit' = audit
  BY DEF AuditsSame
<1>4. cut' \/ \A n \in 1..revision' : EntryOf(n)' \/ PendingOf(n)'
  BY <1>2, <1>3 DEF AuditInv, EntryOf, PendingOf
<1> QED BY <1>1, <1>3, <1>4 DEF AuditInv

LEMMA AuditRaised ==
  ASSUME TypeOK, AuditInv, kind = "sketch",
         NEW r \in Requests, NEW action \in {"updated", "deleted"}, Raises(r, action)
  PROVE  AuditInv'
<1>1. /\ exists /\ revision' = revision + 1 /\ audit' = audit /\ cut' = cut
      /\ action = "deleted" => ~exists'
      /\ req'[r].at = "audit" /\ req'[r].action = action /\ req'[r].revision = revision + 1
  BY DEF Raises, Entry
<1>2. r \notin Auditing /\ Auditing' = Auditing \cup {r} /\ \A q \in Auditing : req'[q] = req[q]
  BY <1>1 DEF Raises, Auditing
<1>3. revision \in Nat
  BY DEF TypeOK
<1>4. \A i \in DOMAIN audit : audit[i].revision \in 1..revision /\ audit[i].action # "deleted"
  BY <1>1 DEF AuditInv
<1>5. \A q \in Auditing : req[q].revision \in 1..revision /\ req[q].action # "deleted"
  BY <1>1 DEF AuditInv
<1>6. \A i \in DOMAIN audit' :
         /\ audit'[i].revision \in 1..revision'
         /\ audit'[i].action # "deleted" /\ audit'[i].revision # revision + 1
  BY <1>1, <1>3, <1>4
<1>7. \A q \in Auditing' :
         /\ req'[q].revision \in 1..revision'
         /\ req'[q].action = "deleted" => req'[q].revision = revision' /\ ~exists'
  BY <1>1, <1>2, <1>3, <1>5
<1>8. \A s, q \in Auditing' : req'[s].revision = req'[q].revision => s = q
  BY <1>1, <1>2, <1>3, <1>5 DEF AuditInv
<1>9. \A q \in Auditing', i \in DOMAIN audit' : audit'[i].revision # req'[q].revision
  BY <1>1, <1>2, <1>6 DEF AuditInv
<1>10. cut' \/ \A n \in 1..revision' : EntryOf(n)' \/ PendingOf(n)'
  <2> SUFFICES ASSUME ~cut, NEW n \in 1..revision' PROVE EntryOf(n)' \/ PendingOf(n)'
    BY <1>1
  <2>1. CASE n = revision + 1
    BY <1>1, <1>2, <2>1 DEF PendingOf
  <2>2. CASE n \in 1..revision
    BY <1>1, <1>2, <2>2 DEF AuditInv, EntryOf, PendingOf
  <2> QED BY <1>1, <1>3, <2>1, <2>2
<1>11. \A i, j \in DOMAIN audit' : audit'[i].revision = audit'[j].revision => i = j
  BY <1>1 DEF AuditInv
<1> QED BY <1>6, <1>7, <1>8, <1>9, <1>10, <1>11 DEF AuditInv

LEMMA AuditCut ==
  ASSUME TypeOK, AuditInv, kind = "sketch", RaisesCut
  PROVE  AuditInv'
<1>1. exists /\ revision' = revision + 1 /\ audit' = audit /\ cut' /\ revision \in Nat
  BY DEF RaisesCut, TypeOK
<1>2. Auditing' = Auditing /\ \A q \in Auditing : req'[q] = req[q]
  BY DEF RaisesCut, Auditing
<1>3. \A i \in DOMAIN audit : audit[i].revision \in 1..revision' /\ audit[i].action # "deleted"
  BY <1>1 DEF AuditInv
<1>4. \A q \in Auditing : req[q].revision \in 1..revision' /\ req[q].action # "deleted"
  BY <1>1 DEF AuditInv
<1> QED BY <1>1, <1>2, <1>3, <1>4 DEF AuditInv

LEMMA AuditEntered ==
  ASSUME TypeOK, AuditInv, kind = "sketch", NEW r \in Requests, Audited(r)
  PROVE  AuditInv'
<1> DEFINE e == [action |-> req[r].action, revision |-> req[r].revision]
<1>1. /\ exists' = exists /\ revision' = revision /\ cut' = cut
      /\ r \in Auditing /\ audit' = Append(audit, e)
  BY DEF Audited, Auditing
<1>2. Auditing' = Auditing \ {r} /\ \A q \in Auditing' : req'[q] = req[q]
  BY DEF Audited, Auditing
<1>3. e \in [action : {"created", "updated", "deleted"}, revision : Nat]
  BY <1>1, LastFields DEF Auditing
<1>4. /\ DOMAIN audit = 1..Len(audit) /\ DOMAIN audit' = 1..(Len(audit) + 1) /\ Len(audit) \in Nat
      /\ \A i \in DOMAIN audit : audit'[i] = audit[i]
      /\ audit'[Len(audit) + 1] = e
  <2> HIDE DEF e
  <2> QED BY <1>1, <1>3 DEF TypeOK
<1>5. e.revision = req[r].revision /\ e.action = req[r].action
  OBVIOUS
<1> HIDE DEF e
<1>6. ASSUME NEW i \in DOMAIN audit' PROVE i \in DOMAIN audit \/ i = Len(audit) + 1
  BY <1>4, <1>6
<1>7. ASSUME NEW i \in DOMAIN audit'
      PROVE  /\ audit'[i].revision \in 1..revision'
             /\ audit'[i].action = "deleted" => audit'[i].revision = revision' /\ ~exists'
  BY <1>1, <1>4, <1>5, <1>6 DEF AuditInv
<1>8. ASSUME NEW q \in Auditing'
      PROVE  /\ req'[q].revision \in 1..revision'
             /\ req'[q].action = "deleted" => req'[q].revision = revision' /\ ~exists'
  BY <1>1, <1>2, <1>8 DEF AuditInv
<1>9. ASSUME NEW i \in DOMAIN audit', NEW j \in DOMAIN audit', audit'[i].revision = audit'[j].revision
      PROVE  i = j
  BY <1>1, <1>4, <1>5, <1>6, <1>9 DEF AuditInv
<1>10. ASSUME NEW s \in Auditing', NEW q \in Auditing', req'[s].revision = req'[q].revision PROVE s = q
  BY <1>2, <1>10 DEF AuditInv
<1>11. ASSUME NEW q \in Auditing', NEW i \in DOMAIN audit' PROVE audit'[i].revision # req'[q].revision
  BY <1>1, <1>2, <1>4, <1>5, <1>6, <1>11 DEF AuditInv
<1>12. ASSUME ~cut', NEW n \in 1..revision' PROVE EntryOf(n)' \/ PendingOf(n)'
  <2>1. CASE EntryOf(n)
    BY <1>4, <2>1 DEF EntryOf
  <2>2. CASE n = req[r].revision
    BY <1>4, <1>5, <2>2 DEF EntryOf
  <2>3. CASE PendingOf(n) /\ n # req[r].revision
    BY <1>2, <2>3 DEF PendingOf
  <2> QED BY <1>1, <1>12, <2>1, <2>2, <2>3 DEF AuditInv
<1> QED BY <1>7, <1>8, <1>9, <1>10, <1>11, <1>12 DEF AuditInv

\* The kind of the record does not change.
LEMMA KindSame == [Next]_vars => kind' = kind
<1> SUFFICES ASSUME [Next]_vars PROVE kind' = kind
  OBVIOUS
<1>1. ASSUME NEW r \in Requests, Requested(r) PROVE kind' = kind
  BY <1>1 DEF Requested, PatchIncident, PatchTask, DeleteSketch, PatchSketch, UpdateReport, Preferences,
              Answered, row, world
<1>2. ASSUME NEW r \in Requests, Steps(r) PROVE kind' = kind
  BY <1>2 DEF Steps, IncidentSteps, SketchSteps, ReportSteps, ProfileSteps, UpdateTask, UpsertRecord,
              PublishEvent, UpdateSketch, WritesSketch, SketchMissed, AuditSketch, WritesReport,
              ReportMissed, ReadProfile, UpsertProfile, Answered, row, world
<1>3. ASSUME NEW r \in Requests, Fails(r) PROVE kind' = kind
  BY <1>3 DEF Fails, StatementFails, UpsertLost, SketchLost, ProfileFails, Fault
<1> QED BY <1>1, <1>2, <1>3 DEF Next, SubmitReport, DeleteReport, ReportLost, Fault, Answered, Recovery,
                                RecoverySucceeds, RecoveryFails, Restart, vars, row, world

\* A sketch drawing takes one of the four ways.
LEMMA SketchWays ==
  ASSUME TypeOK, kind = "sketch", [Next]_vars
  PROVE  \/ AuditsSame \/ RaisesCut
         \/ \E r \in Requests : Audited(r) \/ \E action \in {"updated", "deleted"} : Raises(r, action)
<1>1. CASE UNCHANGED vars
  BY <1>1 DEF vars, row, drawings, AuditsSame
<1>2. CASE Restart
  <2>1. /\ UNCHANGED <<exists, revision, audit>> /\ \A q \in Requests : req'[q] = Idle
        /\ cut' = (cut \/ \E q \in Requests : req[q].at \in {"publish", "audit"})
    BY <1>2 DEF Restart, row, drawings
  <2> QED BY <2>1, IdleAt DEF AuditsSame
<1>3. CASE Recovery
  <2>1. \E ok \in BOOLEAN : RecoveryEnds(ok)
    BY <1>3 DEF Recovery, RecoverySucceeds, RecoveryFails
  <2>2. UNCHANGED <<exists, revision, audit, cut>>
    BY <1>3 DEF Recovery, RecoverySucceeds, RecoveryFails, row, drawings
  <2>3. \A q \in Requests : req[q].at # "wait"
    BY RequestAtStep
  <2> QED BY <2>1, <2>2, <2>3, RecoveryFields DEF AuditsSame
<1>4. ~((SubmitReport \/ DeleteReport \/ ReportLost) /\ UNCHANGED <<records, drawings, profiles>>)
  BY DEF SubmitReport, DeleteReport, ReportLost, Submits, DeletesReport, UpdatesReport
\* A request that is not at its entry, and does not come to it.
<1>5. ASSUME NEW r \in Requests, NEW x \in RequestType, Goes(r, x) \/ Begin(r, x),
             req[r].at # "audit", x.at # "audit", UNCHANGED <<exists, revision, audit, cut>>
      PROVE  AuditsSame
  BY <1>5, OneRequest DEF AuditsSame
<1>6. Idle \in RequestType /\ Idle.at = "idle"
  BY IdleAt DEF RequestType
<1>7. ASSUME NEW r \in Requests, Requested(r)
      PROVE  AuditsSame \/ Raises(r, "deleted")
  <2>1. req[r].at # "audit"
    BY <1>6, <1>7 DEF Requested, PatchIncident, PatchTask, DeleteSketch, Deletes, PatchSketch, UpdateReport,
                      Preferences, Begin
  <2>2. ASSUME NEW patch \in Patches, PatchSketch(r, patch) PROVE AuditsSame
    <3> DEFINE x == [at |-> "update", patch |-> patch, fresh |-> TRUE]
    <3>1. x \in SketchRequests /\ x.at # "audit"
      BY PatchType DEF SketchRequests
    <3>2. x \in RequestType
      BY <3>1, RequestsOfKind DEF RequestType, Kinds
    <3>3. Begin(r, x) /\ UNCHANGED <<exists, revision, audit, cut>>
      BY <2>2 DEF PatchSketch, row, drawings
    <3> HIDE DEF x
    <3> QED BY <1>5, <2>1, <3>1, <3>2, <3>3
  <2>3. CASE DeleteSketch(r)
    <3>1. /\ req'[r] = Entry("deleted", revision + 1)
          /\ \A q \in Requests \ {r} : req'[q] = req[q]
      BY <2>3, EntryType, OneRequest DEF DeleteSketch, Deletes
    <3> QED BY <2>1, <2>3, <3>1, AnsweredServed DEF DeleteSketch, Deletes, Raises
  <2>4. \/ DeleteSketch(r) \/ \E patch \in Patches : PatchSketch(r, patch)
    BY <1>7 DEF Requested, PatchIncident, PatchTask, UpdateReport, Preferences
  <2> QED BY <2>2, <2>3, <2>4
<1>8. ASSUME NEW r \in Requests, Steps(r)
      PROVE  AuditsSame \/ Raises(r, "updated") \/ Audited(r)
  <2>1. /\ req[r].at \in {"idle", "update", "write", "audit"}
        /\ req[r].at = "update" => req[r].patch \in Contents
    <3>1. req[r].at # "idle" => req[r] \in SketchRequests
      BY RequestAtStep
    <3> QED BY <3>1, RequestSteps, UpdateFields
  <2>2. CASE UpdateSketch(r)
    <3> DEFINE x == [at |-> "write", patch |-> req[r].patch, value |-> Merge(content, req[r].patch),
                     revision |-> revision + 1, fresh |-> TRUE]
    <3>1. req[r].at = "update" /\ (Goes(r, x) \/ Goes(r, Idle))
      BY <2>2 DEF UpdateSketch
    <3>2. x \in SketchRequests /\ x.at # "audit"
      BY <2>1, <3>1, MergeType DEF SketchRequests, TypeOK
    <3>3. x \in RequestType
      BY <3>2, RequestsOfKind DEF RequestType, Kinds
    <3>4. UNCHANGED <<exists, revision, audit, cut>>
      BY <2>2 DEF UpdateSketch, row, drawings
    <3> HIDE DEF x
    <3> QED BY <1>5, <1>6, <3>1, <3>2, <3>3, <3>4
  <2>3. CASE WritesSketch(r)
    <3> DEFINE x == Entry("updated", revision + 1)
    <3>1. req[r].at = "write" /\ req'[r] = x /\ \A q \in Requests \ {r} : req'[q] = Stale(q)
      BY <2>3, EntryType, WritesFields DEF WritesSketch, Updates
    <3>2. \A q \in Requests : Stale(q).at = "audit" \/ req[q].at = "audit" => Stale(q) = req[q]
      BY StaleFields
    <3> QED BY <2>3, <3>1, <3>2, AnsweredServed DEF WritesSketch, Updates, Raises
  <2>4. CASE SketchMissed(r)
    BY <1>5, <1>6, <2>4 DEF SketchMissed, row, drawings
  <2>5. CASE AuditSketch(r)
    BY <1>6, <2>5, OneRequest, AnsweredServed DEF AuditSketch, Inserts, Audited
  <2>6. UpdateSketch(r) \/ WritesSketch(r) \/ SketchMissed(r) \/ AuditSketch(r)
    BY <1>8, <2>1 DEF Steps, IncidentSteps, SketchSteps, ReportSteps, ProfileSteps, UpdateTask, UpsertRecord, Upserts,
                      PublishEvent, WritesReport, UpdatesReport, ReportMissed, ReadProfile, UpsertProfile
  <2> QED BY <2>2, <2>3, <2>4, <2>5, <2>6
<1>9. ASSUME NEW r \in Requests, Fails(r) PROVE AuditsSame \/ RaisesCut \/ Audited(r)
  <2>1. req[r].at # "store"
    BY RequestAtStep
  <2>2. CASE StatementFails(r) /\ UNCHANGED drawings
    <3>1. /\ req'[r] = Idle /\ \A q \in Requests \ {r} : req'[q] = req[q]
          /\ UNCHANGED <<exists, revision, audit>> /\ cut' = (cut \/ req[r].at = "audit")
      BY <1>6, <2>2, OneRequest DEF StatementFails, Fault, row, drawings
    <3> QED BY <1>6, <3>1 DEF AuditsSame
  <2>3. CASE Updates(r, Idle) /\ Fault(TRUE)
    <3>1. req[r].at = "write" /\ req'[r] = Idle /\ \A q \in Requests \ {r} : req'[q] = Stale(q)
      BY <1>6, <2>3, WritesFields DEF Updates
    <3>2. \A q \in Requests : Stale(q).at = "audit" \/ req[q].at = "audit" => Stale(q) = req[q]
      BY StaleFields
    <3> QED BY <1>6, <2>3, <3>1, <3>2 DEF Updates, Fault, RaisesCut
  <2>4. CASE Deletes(r, Idle) /\ Fault(TRUE)
    <3>1. req[r] = Idle /\ req'[r] = Idle /\ \A q \in Requests \ {r} : req'[q] = req[q]
      BY <1>6, <2>4, OneRequest DEF Deletes, Begin
    <3> QED BY <1>6, <2>4, <3>1 DEF Deletes, Fault, RaisesCut
  <2>5. CASE Inserts(r) /\ Fault(FALSE)
    <3>1. req'[r] = Idle /\ \A q \in Requests \ {r} : req'[q] = req[q]
      BY <1>6, <2>5, OneRequest DEF Inserts
    <3>2. cut' = cut
      BY <2>5 DEF Fault, TypeOK
    <3> QED BY <1>6, <2>5, <3>1, <3>2 DEF Inserts, Audited
  <2> QED BY <1>9, <2>1, <2>2, <2>3, <2>4, <2>5 DEF Fails, SketchLost, UpsertLost, Upserts, ProfileFails
<1> QED BY <1>1, <1>2, <1>3, <1>4, <1>7, <1>8, <1>9 DEF Next

LEMMA AuditStep == TypeOK /\ AuditInv /\ [Next]_vars => AuditInv'
<1> SUFFICES ASSUME TypeOK, AuditInv, [Next]_vars PROVE AuditInv'
  OBVIOUS
<1>1. CASE kind = "sketch"
  BY <1>1, SketchWays, AuditSame, AuditRaised, AuditCut, AuditEntered
<1>2. CASE kind # "sketch"
  BY <1>2, KindSame DEF AuditInv
<1> QED BY <1>1, <1>2

(* The audit tells the history of a drawing: no revision twice, none left    *)
(* out unless a request was cut off, and nothing after the deletion.         *)
THEOREM SketchAuditTells == Spec => []AuditTellsHistory
<1>1. Init => AuditInv
  <2> SUFFICES ASSUME Init PROVE AuditInv
    OBVIOUS
  <2>1. /\ revision = 1 /\ audit = <<[action |-> "created", revision |-> 1]>>
        /\ \A r \in Requests : req[r] = Idle
    BY DEF Init, SketchInit
  <2>2. Auditing = {}
    BY <2>1, IdleAt DEF Auditing
  <2>3. /\ DOMAIN audit = {1} /\ audit[1].revision = 1 /\ audit[1].action = "created"
        /\ 1..revision = {1}
    BY <2>1
  <2> QED BY <2>1, <2>2, <2>3 DEF AuditInv, EntryOf
<1>2. TypeOK /\ AuditInv => AuditTellsHistory
  <2> SUFFICES ASSUME TypeOK, AuditInv, kind = "sketch"
               PROVE  AuditTellsHistory
    BY DEF AuditTellsHistory
  <2> DEFINE About(n) == {i \in DOMAIN audit : audit[i].revision = n}
             Pending(n) == {r \in Requests : req[r].at = "audit" /\ req[r].revision = n}
  <2>1. ASSUME NEW n \in 1..revision
        PROVE  /\ \A i, j \in About(n) : i = j
               /\ \A r \in Pending(n) : About(n) = {} /\ Pending(n) = {r}
               /\ cut \/ About(n) # {} \/ Pending(n) # {}
    <3>1. \A i, j \in About(n) : i = j
      BY DEF AuditInv
    <3>2. ASSUME NEW r \in Pending(n) PROVE About(n) = {} /\ Pending(n) = {r}
      BY <3>2 DEF AuditInv, Auditing
    <3>3. cut \/ About(n) # {} \/ Pending(n) # {}
      BY DEF AuditInv, Auditing, EntryOf, PendingOf
    <3> QED BY <3>1, <3>2, <3>3
  <2>2. \A i \in DOMAIN audit :
          /\ audit[i].revision <= revision
          /\ audit[i].action = "deleted" => audit[i].revision = revision /\ ~exists
    BY DEF AuditInv, TypeOK
  <2> QED BY <2>1, <2>2 DEF AuditTellsHistory
<1> QED BY <1>1, <1>2, TypeInit, TypeStep, AuditStep, PTL DEF Spec

-----------------------------------------------------------------------------
(* The events of an incident or a task.  An event that is published, or that *)
(* a request is about to publish, shows its write, and a write has one event *)
(* at most; it has one if it changed what the events are about, and the one  *)
(* of the latest such write tells of the record as it is.                    *)
Publishing == {r \in Requests : req[r].at = "publish"}
Events == {events[i] : i \in DOMAIN events} \cup {EventOf(req[r]) : r \in Publishing}
Newest(x) == x \in Events /\ \A y \in Events : y.version <= x.version
Changes(n) == n = 1 \/ kind = "incident" \/ written[n]["status"] # written[n - 1]["status"]
ToldOf(n) == \E x \in Events : x.version = n
Undisturbed == ~cut /\ (kind = "task" => ~overtaken)

SeenFresh(x) == kind = "task" /\ x.at \in {"update", "write"} /\ x.fresh => x.seen = content["status"]

Tell(x) ==
  /\ kind = "incident" => x.value = content
  /\ kind = "task" /\ ~overtaken => x.value["status"] = content["status"]

OnePerWrite ==
  /\ \A i, j \in DOMAIN events : events[i].version = events[j].version => i = j
  /\ \A r, q \in Publishing : req[r].version = req[q].version => r = q
  /\ \A i \in DOMAIN events, r \in Publishing : events[i].version # req[r].version

EventInv ==
  kind \in {"incident", "task"} =>
    /\ ~missed
    /\ events # <<>> /\ written # <<>> /\ content = written[Len(written)]
    /\ \A x \in Events : x.version \in DOMAIN written /\ x.value = written[x.version]
    /\ OnePerWrite
    /\ \A r \in Requests : SeenFresh(req[r])
    /\ Undisturbed => \A n \in DOMAIN written : Changes(n) <=> ToldOf(n)
    /\ ~cut => \A x \in Events : Newest(x) => Tell(x)

\* Two of the three ways a step bears on the events.
EventsSame ==
  /\ UNCHANGED <<kind, content, written, events, overtaken, missed>>
  /\ \A q \in Requests : req'[q].at = "publish" => req'[q] = req[q]
  /\ cut => cut'
  /\ cut' \/ \A q \in Requests : req[q].at = "publish" => req'[q] = req[q]
  /\ \A q \in Requests : req'[q] = req[q] \/ SeenFresh(req'[q])

EventWrites(r, next) ==
  /\ Upserts(r, next) /\ UNCHANGED <<kind, missed>> /\ cut \in BOOLEAN /\ cut' \in BOOLEAN
  /\ \/ next = Telling(r) /\ Tells(r) /\ cut' = cut
     \/ next = Idle /\ (cut' \/ ~Tells(r)) /\ (cut => cut')

LEMMA EventsType ==
  ASSUME TypeOK
  PROVE  /\ Events \subseteq Event
         /\ \A r \in Publishing : req[r].version \in Nat /\ EventOf(req[r]) \in Event
         /\ \A r \in Requests : EventOf(req[r]).version = req[r].version /\ EventOf(req[r]).value = req[r].value
<1>1. \A r \in Publishing : req[r].version \in Nat /\ EventOf(req[r]) \in Event
  BY LastFields DEF Publishing, EventOf, Event
<1>2. \A i \in DOMAIN events : events[i] \in Event
  BY DEF TypeOK
<1> QED BY <1>1, <1>2 DEF Events, EventOf

LEMMA EventSame ==
  ASSUME TypeOK, EventInv, kind \in {"incident", "task"}, EventsSame
  PROVE  EventInv'
<1>1. UNCHANGED <<kind, content, written, events, overtaken, missed>>
  BY DEF EventsSame
<1>2. Publishing' \subseteq Publishing /\ \A q \in Publishing' : req'[q] = req[q]
  BY DEF EventsSame, Publishing
<1>3. Events' \subseteq Events
  BY <1>1, <1>2 DEF Events
<1>4. \A q \in Requests : SeenFresh(req[q])'
  BY <1>1 DEF EventsSame, EventInv, SeenFresh
<1>5. ASSUME ~cut' PROVE ~cut /\ Events' = Events
  <2>1. ~cut /\ \A q \in Requests : req[q].at = "publish" => req'[q] = req[q]
    BY <1>5 DEF EventsSame
  <2>2. Publishing' = Publishing /\ \A q \in Publishing : req'[q] = req[q]
    BY <1>2, <2>1 DEF Publishing
  <2> QED BY <1>1, <2>1, <2>2 DEF Events
<1>6. ASSUME ~cut', NEW x \in Events', Newest(x)' PROVE Tell(x)'
  <2>1. Newest(x) /\ ~cut
    BY <1>5, <1>6 DEF Newest
  <2>2. Tell(x)
    BY <2>1 DEF EventInv, Newest
  <2> QED BY <1>1, <2>2 DEF Tell
<1>7. OnePerWrite'
  BY <1>1, <1>2 DEF EventInv, OnePerWrite
<1>8. ASSUME Undisturbed', NEW n \in DOMAIN written' PROVE (Changes(n) <=> ToldOf(n))'
  <2>1. Undisturbed /\ Events' = Events
    BY <1>1, <1>5, <1>8 DEF Undisturbed
  <2>2. Changes(n) <=> ToldOf(n)
    BY <1>1, <1>8, <2>1 DEF EventInv
  <2> QED BY <1>1, <2>1, <2>2 DEF Changes, ToldOf
<1> QED BY <1>1, <1>3, <1>4, <1>6, <1>7, <1>8 DEF EventInv

\* Publishing moves an event from the request to the published ones.
LEMMA EventPublished ==
  ASSUME TypeOK, EventInv, kind \in {"incident", "task"}, NEW r \in Requests, PublishEvent(r),
         UNCHANGED missed
  PROVE  EventInv'
<1>0. Idle \in RequestType /\ Idle.at = "idle"
  BY IdleAt DEF RequestType
<1> DEFINE e == EventOf(req[r])
<1>1. /\ r \in Publishing /\ req'[r] = Idle /\ \A q \in Requests \ {r} : req'[q] = req[q]
      /\ events' = Append(events, e) /\ e \in Event /\ e.version = req[r].version
      /\ UNCHANGED <<kind, content, written, overtaken, cut>>
  BY <1>0, OneRequest, EventsType DEF PublishEvent, Publishing, row
<1>2. Publishing' = Publishing \ {r} /\ \A q \in Publishing' : req'[q] = req[q]
  BY <1>0, <1>1 DEF Publishing
<1> HIDE DEF e
<1>3. /\ DOMAIN events = 1..Len(events) /\ DOMAIN events' = 1..(Len(events) + 1) /\ Len(events) \in Nat
      /\ \A i \in DOMAIN events : events'[i] = events[i]
      /\ events'[Len(events) + 1] = e
  BY <1>1 DEF TypeOK
<1>4. \A i \in DOMAIN events' : i \in DOMAIN events \/ i = Len(events) + 1
  BY <1>3
<1>5. {events'[i] : i \in DOMAIN events'} = {events[i] : i \in DOMAIN events} \cup {e}
  BY <1>3, <1>4
<1>6. {EventOf(req[q]) : q \in Publishing} = {EventOf(req[q]) : q \in Publishing \ {r}} \cup {e}
  BY <1>1 DEF e
<1>7. {EventOf(req'[q]) : q \in Publishing'} = {EventOf(req[q]) : q \in Publishing \ {r}}
  BY <1>2
<1>8. Events' = Events
  BY <1>5, <1>6, <1>7 DEF Events
<1>9. \A q \in Requests : SeenFresh(req[q])'
  BY <1>0, <1>1 DEF EventInv, SeenFresh
<1>10. OnePerWrite'
  <2>1. ASSUME NEW i \in DOMAIN events', NEW j \in DOMAIN events', events'[i].version = events'[j].version
        PROVE  i = j
    BY <1>1, <1>3, <1>4, <2>1 DEF EventInv, OnePerWrite
  <2>2. ASSUME NEW q \in Publishing', NEW s \in Publishing', req'[q].version = req'[s].version PROVE q = s
    BY <1>2, <2>2 DEF EventInv, OnePerWrite
  <2>3. ASSUME NEW i \in DOMAIN events', NEW q \in Publishing' PROVE events'[i].version # req'[q].version
    <3>1. q \in Publishing /\ q # r /\ req'[q] = req[q]
      BY <1>2
    <3>2. CASE i \in DOMAIN events
      BY <1>3, <3>1, <3>2 DEF EventInv, OnePerWrite
    <3>3. CASE i = Len(events) + 1
      BY <1>1, <1>3, <3>1, <3>3 DEF EventInv, OnePerWrite
    <3> QED BY <1>4, <3>2, <3>3
  <2> QED BY <2>1, <2>2, <2>3 DEF OnePerWrite
<1>11. events' # <<>>
  BY <1>3
<1> QED BY <1>1, <1>8, <1>9, <1>10, <1>11 DEF EventInv, Newest, Tell, Undisturbed, Changes, ToldOf

\* A write adds the event that its request is about to publish, or none.
LEMMA EventWritten ==
  ASSUME TypeOK, KeptInv, EventInv, kind \in {"incident", "task"},
         NEW r \in Requests, NEW next \in RequestType, EventWrites(r, next)
  PROVE  EventInv'
<1> DEFINE N == Len(written)
           value == req[r].value
           new == [version |-> N + 1, value |-> value]
<1>0. Idle \in RequestType /\ Idle.at = "idle"
  BY IdleAt DEF RequestType
<1>1. /\ req[r].at = "write" /\ written' = Append(written, value) /\ Writes(r, next)
      /\ kind' = kind /\ missed' = missed /\ events' = events /\ written \in Seq(Contents)
  BY DEF EventWrites, Upserts, TypeOK
<1>2. value \in Contents /\ req[r].patch \in Contents
  BY <1>1, WriteFields
<1>3. /\ content' = value /\ overtaken' = (overtaken \/ ~req[r].fresh)
      /\ req'[r] = next /\ \A q \in Requests \ {r} : req'[q] = Stale(q)
  BY <1>1, WritesFields
<1> HIDE DEF value
<1>4. /\ N \in Nat /\ N >= 1 /\ DOMAIN written = 1..N /\ DOMAIN written' = 1..(N + 1)
      /\ \A n \in 1..N : written'[n] = written[n]
      /\ written'[N + 1] = value /\ content = written[N] /\ Len(written') = N + 1 /\ written' # <<>>
  BY <1>1, <1>2 DEF EventInv
<1> HIDE DEF N
<1>5. Telling(r).at = "publish" /\ Telling(r).version = N + 1 /\ Telling(r).value = value
      /\ EventOf(Telling(r)) = new
  BY DEF Telling, EventOf, N, value
<1>6. /\ \A q \in Requests \ {r} : req'[q].at = req[q].at /\ (q \in Publishing => req'[q] = req[q])
      /\ next = Telling(r) \/ next = Idle
  BY <1>3, StaleFields DEF Publishing, EventWrites
<1>7. /\ r \notin Publishing
      /\ next = Telling(r) => Publishing' = Publishing \cup {r}
      /\ next = Idle => Publishing' = Publishing
      /\ \A q \in Publishing : req'[q] = req[q]
  BY <1>0, <1>1, <1>3, <1>5, <1>6 DEF Publishing
<1>8. Telling(r) # Idle
  BY <1>0, <1>5
<1>9. /\ next = Telling(r) => Events' = Events \cup {new}
      /\ next = Idle => Events' = Events
  <2>1. {EventOf(req'[q]) : q \in Publishing} = {EventOf(req[q]) : q \in Publishing}
    BY <1>7
  <2>2. Events' = {events[i] : i \in DOMAIN events} \cup {EventOf(req'[q]) : q \in Publishing'}
    BY <1>1 DEF Events
  <2>3. CASE next = Telling(r)
    <3>1. {EventOf(req'[q]) : q \in Publishing'} = {EventOf(req'[q]) : q \in Publishing} \cup {EventOf(next)}
      BY <1>3, <1>7, <2>3
    <3> QED BY <1>5, <1>8, <2>1, <2>2, <2>3, <3>1 DEF Events
  <2>4. CASE next = Idle
    BY <1>7, <1>8, <2>1, <2>2, <2>4 DEF Events
  <2> QED BY <1>6, <2>3, <2>4
<1>10. \A x \in Events : x.version \in 1..N /\ x.value = written[x.version]
  BY <1>4 DEF EventInv
<1>11. \A x \in Events' : x.version \in DOMAIN written' /\ x.value = written'[x.version]
  BY <1>4, <1>6, <1>9, <1>10
<1>12. \A q \in Requests : SeenFresh(req[q])'
  <2>1. ~(req'[r].at \in {"update", "write"})
    BY <1>0, <1>3, <1>5, <1>6
  <2>2. \A q \in Requests \ {r} : req'[q].at \in {"update", "write"} => ~req'[q].fresh
    BY <1>3, StaleFields
  <2> QED BY <2>1, <2>2 DEF SeenFresh
<1>13. OnePerWrite'
  <2>1. \A q \in Publishing : req[q].version \in 1..N
    BY <1>10, EventsType DEF Events, Publishing
  <2>2. \A i \in DOMAIN events : events[i].version \in 1..N
    BY <1>10 DEF Events
  <2>3. ASSUME NEW q \in Publishing', NEW s \in Publishing', req'[q].version = req'[s].version PROVE q = s
    <3>1. \A u \in Publishing' : u # r => u \in Publishing /\ req'[u] = req[u]
      BY <1>6, <1>7
    <3>2. r \in Publishing' => req'[r].version = N + 1
      BY <1>3, <1>5, <1>6, <1>7
    <3> QED BY <1>4, <2>1, <2>3, <3>1, <3>2 DEF EventInv, OnePerWrite
  <2>4. ASSUME NEW i \in DOMAIN events', NEW q \in Publishing' PROVE events'[i].version # req'[q].version
    <3>1. q # r => q \in Publishing /\ req'[q] = req[q]
      BY <1>6, <1>7
    <3>2. q = r => req'[q].version = N + 1
      BY <1>3, <1>5, <1>6, <1>7, <2>4
    <3> QED BY <1>1, <1>4, <2>2, <2>4, <3>1, <3>2 DEF EventInv, OnePerWrite
  <2> QED BY <1>1, <2>3, <2>4 DEF EventInv, OnePerWrite
\* The status is another one exactly if the request tells of it.
<1>14. ASSUME kind = "task", ~overtaken'
       PROVE  value["status"] # content["status"] <=> Tells(r)
  <2>1. req[r].fresh
    BY <1>3, <1>14
  <2>2. req[r].seen = content["status"]
    BY <1>1, <1>14, <2>1 DEF EventInv, SeenFresh
  <2>3. value = Merge(content, req[r].patch)
    BY <1>1, <1>14, <2>1 DEF KeptInv, FreshWrites, EventInv, Writing, value
  <2>4. value["status"] = IF req[r].patch["status"] = "absent" THEN content["status"] ELSE req[r].patch["status"]
    BY <2>3 DEF Merge, Fields
  <2> QED BY <1>14, <2>2, <2>4 DEF Tells
<1>15. ~cut' => ~cut /\ (next = Telling(r) <=> Tells(r))
  BY <1>8 DEF EventWrites
<1>16. ~overtaken' => ~overtaken
  BY <1>3
<1>17. ASSUME Undisturbed', NEW n \in DOMAIN written' PROVE (Changes(n) <=> ToldOf(n))'
  <2>1. Undisturbed
    BY <1>1, <1>15, <1>16, <1>17 DEF Undisturbed
  <2>2. CASE n \in 1..N
    <3>1. Changes(n) <=> ToldOf(n)
      BY <1>4, <2>1, <2>2 DEF EventInv
    <3>2. Changes(n)' <=> Changes(n)
      <4>1. n # 1 => n - 1 \in 1..N
        BY <1>4, <2>2
      <4> QED BY <1>1, <1>4, <2>2, <4>1 DEF Changes
    <3>3. ToldOf(n)' <=> ToldOf(n)
      <4>1. n # N + 1
        BY <1>4, <2>2
      <4> QED BY <1>6, <1>9, <4>1 DEF ToldOf
    <3> QED BY <3>1, <3>2, <3>3
  <2>3. CASE n = N + 1
    <3>1. ToldOf(n)' <=> next = Telling(r)
      <4>1. \A x \in Events : x.version # n
        BY <1>4, <1>10, <2>3
      <4>2. new.version = n
        BY <2>3
      <4> QED BY <1>6, <1>8, <1>9, <4>1, <4>2 DEF ToldOf
    <3>2. Changes(n)' <=> kind = "incident" \/ value["status"] # content["status"]
      <4>1. n # 1 /\ n - 1 = N /\ N \in 1..N
        BY <1>4, <2>3
      <4> QED BY <1>1, <1>4, <2>3, <4>1 DEF Changes
    <3>3. next = Telling(r) <=> Tells(r)
      BY <1>15, <1>17 DEF Undisturbed
    <3>4. CASE kind = "incident"
      BY <3>1, <3>2, <3>3, <3>4 DEF Tells
    <3>5. CASE kind = "task"
      BY <1>1, <1>14, <1>17, <3>1, <3>2, <3>3, <3>5 DEF Undisturbed
    <3> QED BY <3>4, <3>5
  <2> QED BY <1>4, <1>17, <2>2, <2>3
<1>18. ASSUME ~cut', NEW x \in Events', Newest(x)' PROVE Tell(x)'
  <2>1. CASE next = Telling(r)
    <3>1. new \in Events' /\ new.version = N + 1 /\ new.value = value
      BY <1>9, <2>1
    <3>2. N + 1 <= x.version
      BY <1>18, <3>1 DEF Newest
    <3>3. x = new
      BY <1>4, <1>9, <1>10, <1>18, <2>1, <3>2
    <3> QED BY <1>3, <3>1, <3>3 DEF Tell
  <2>2. CASE next = Idle
    <3>1. Newest(x) /\ ~Tells(r)
      BY <1>8, <1>9, <1>15, <1>18, <2>2 DEF Newest
    <3>2. Tell(x) /\ kind = "task"
      BY <1>15, <1>18, <3>1 DEF EventInv, Newest, Tells
    <3> QED BY <1>1, <1>3, <1>14, <1>16, <3>1, <3>2 DEF Tell
  <2> QED BY <1>6, <2>1, <2>2
<1> QED BY <1>1, <1>3, <1>4, <1>11, <1>12, <1>13, <1>17, <1>18 DEF EventInv

\* An incident or a task takes one of the three ways.
LEMMA EventStep == TypeOK /\ KeptInv /\ EventInv /\ [Next]_vars => EventInv'
<1> SUFFICES ASSUME TypeOK, KeptInv, EventInv, [Next]_vars, kind \in {"incident", "task"} PROVE EventInv'
  BY KindSame DEF EventInv
<1>0. Idle \in RequestType /\ Idle.at = "idle"
  BY IdleAt DEF RequestType
<1>1. CASE UNCHANGED vars
  <2>1. EventsSame
    BY <1>1 DEF vars, row, records, profiles, EventsSame
  <2> QED BY <2>1, EventSame
<1>2. CASE Restart
  <2>1. /\ UNCHANGED <<kind, content, written, events, overtaken, missed>> /\ \A q \in Requests : req'[q] = Idle
        /\ cut' = (cut \/ \E q \in Requests : req[q].at \in {"publish", "audit"})
    BY <1>2 DEF Restart, row, records
  <2>2. EventsSame
    BY <1>0, <2>1 DEF EventsSame, SeenFresh
  <2> QED BY <2>2, EventSame
<1>3. CASE Recovery
  <2>1. \E ok \in BOOLEAN : RecoveryEnds(ok)
    BY <1>3 DEF Recovery, RecoverySucceeds, RecoveryFails
  <2>2. UNCHANGED <<kind, content, written, events, overtaken, missed, cut>>
    BY <1>3 DEF Recovery, RecoverySucceeds, RecoveryFails, row, records
  <2>3. \A q \in Requests : req[q].at # "wait"
    BY RequestAtStep
  <2>4. EventsSame
    BY <2>1, <2>2, <2>3, RecoveryFields DEF EventsSame
  <2> QED BY <2>4, EventSame
<1>4. ~((SubmitReport \/ DeleteReport \/ ReportLost) /\ UNCHANGED <<records, drawings, profiles>>)
  BY DEF SubmitReport, DeleteReport, ReportLost, Submits, DeletesReport, UpdatesReport
\* A request that has no event to publish, and comes to none.
<1>5. ASSUME NEW r \in Requests, NEW x \in RequestType, Goes(r, x) \/ Begin(r, x),
             req[r].at # "publish", x.at # "publish", SeenFresh(x),
             UNCHANGED <<kind, content, written, events, overtaken, missed, cut>>
      PROVE  EventInv'
  <2>1. EventsSame
    BY <1>5, OneRequest DEF EventsSame
  <2> QED BY <2>1, EventSame
<1>6. ASSUME NEW r \in Requests, Requested(r) PROVE EventInv'
  <2>1. PICK patch \in Patches :
          (PatchIncident(r, patch) \/ PatchTask(r, patch)) /\ UNCHANGED <<drawings, reports, profiles>>
    BY <1>6 DEF Requested, DeleteSketch, Deletes, PatchSketch, UpdateReport, Preferences
  <2> DEFINE x == [at |-> "write", patch |-> patch, seen |-> "absent",
                   value |-> Merge(content, patch), fresh |-> TRUE]
             y == [at |-> "update", patch |-> patch, seen |-> content["status"], fresh |-> TRUE]
  <2>2. patch \in Contents /\ Merge(content, patch) \in Contents /\ content["status"] \in Values \cup {"absent"}
    BY PatchType, MergeType DEF TypeOK, Contents, Fields
  <2>3. x \in IncidentRequests /\ y \in IncidentRequests /\ x.at # "publish" /\ y.at # "publish" /\ SeenFresh(y)
    BY <2>2 DEF IncidentRequests, SeenFresh
  <2>4. x \in RequestType /\ y \in RequestType
    BY <2>3, RequestsOfKind DEF RequestType, Kinds
  <2>5. /\ (Begin(r, x) /\ SeenFresh(x)) \/ Begin(r, y)
        /\ UNCHANGED <<kind, content, written, events, overtaken, missed, cut>>
    BY <2>1 DEF PatchIncident, PatchTask, SeenFresh, row, records, profiles
  <2> HIDE DEF x, y
  <2>6. req[r].at # "publish"
    BY <1>0, <2>5 DEF Begin
  <2> QED BY <1>5, <2>3, <2>4, <2>5, <2>6
<1>7. ASSUME NEW r \in Requests, Steps(r) PROVE EventInv'
  <2>0. req[r].at \in {"idle", "update", "write", "publish"}
    <3>1. req[r].at # "idle" => req[r] \in IncidentRequests
      BY RequestAtStep
    <3> QED BY <3>1, RequestSteps
  <2>1. UNCHANGED missed /\ (UpdateTask(r) \/ UpsertRecord(r) \/ PublishEvent(r))
    BY <1>7, <2>0 DEF Steps, IncidentSteps, SketchSteps, ReportSteps, ProfileSteps, UpdateSketch, WritesSketch,
                      Updates, SketchMissed, AuditSketch, Inserts, WritesReport, UpdatesReport, ReportMissed, ReadProfile, UpsertProfile, profiles
  <2>2. CASE UpdateTask(r)
    <3> DEFINE x == [at |-> "write", patch |-> req[r].patch, seen |-> req[r].seen,
                     value |-> Merge(content, req[r].patch), fresh |-> req[r].fresh]
    <3>1. req[r].at = "update" /\ (Goes(r, x) \/ Goes(r, Idle))
      BY <2>2 DEF UpdateTask
    <3>2. /\ req[r].patch \in Contents /\ req[r].fresh \in BOOLEAN /\ req[r].seen \in Values \cup {"absent"}
          /\ Merge(content, req[r].patch) \in Contents
      BY <3>1, UpdateFields, MergeType DEF TypeOK
    <3>3. x \in IncidentRequests /\ x.at # "publish" /\ SeenFresh(x)
      <4>1. x \in IncidentRequests /\ x.at # "publish"
        BY <3>2 DEF IncidentRequests
      <4>2. SeenFresh(req[r])
        BY DEF EventInv
      <4> QED BY <3>1, <4>1, <4>2 DEF SeenFresh
    <3>4. x \in RequestType /\ SeenFresh(Idle)
      BY <1>0, <3>3, RequestsOfKind DEF RequestType, Kinds, SeenFresh
    <3>5. UNCHANGED <<kind, content, written, events, overtaken, missed, cut>>
      BY <2>1, <2>2 DEF UpdateTask, row, records
    <3> HIDE DEF x
    <3> QED BY <1>0, <1>5, <3>1, <3>3, <3>4, <3>5
  <2>3. CASE UpsertRecord(r)
    <3>1. req[r].at = "write" /\ cut' = cut /\ cut \in BOOLEAN /\ kind' = kind
      BY <2>3, AnsweredServed DEF UpsertRecord, Upserts, TypeOK
    <3>2. EventWrites(r, IF Tells(r) THEN Telling(r) ELSE Idle)
      BY <2>1, <2>3, <3>1 DEF UpsertRecord, EventWrites
    <3> QED BY <1>0, <3>1, <3>2, TellingType, EventWritten
  <2> QED BY <2>1, <2>2, <2>3, EventPublished
<1>8. ASSUME NEW r \in Requests, Fails(r) PROVE EventInv'
  <2>1. req[r].at # "store" /\ req[r].at # "audit"
    BY RequestAtStep
  <2>4. CASE UpsertLost(r) /\ UNCHANGED profiles
    <3>1. Upserts(r, Idle) /\ Fault(Tells(r)) /\ Tells(r) \in BOOLEAN
      BY <2>4 DEF UpsertLost, Tells
    <3>2. cut' = (cut \/ Tells(r)) /\ kind' = kind /\ cut \in BOOLEAN /\ cut' \in BOOLEAN
      BY <3>1, FaultServed DEF Served, TypeOK
    <3>3. EventWrites(r, Idle)
      BY <2>4, <3>1, <3>2 DEF EventWrites, profiles
    <3> QED BY <1>0, <3>3, EventWritten
  <2>5. CASE StatementFails(r) /\ UNCHANGED <<records, profiles>>
    <3>1. /\ Goes(r, Idle) /\ req[r].at # "publish" /\ SeenFresh(Idle)
          /\ UNCHANGED <<kind, content, written, events, overtaken, missed, cut>>
      BY <1>0, <2>1, <2>5 DEF StatementFails, Fault, row, records, profiles, SeenFresh, TypeOK
    <3> QED BY <1>0, <1>5, <3>1
  <2> QED BY <1>8, <2>1, <2>4, <2>5 DEF Fails, SketchLost, Updates, Deletes, Inserts, ProfileFails
<1> QED BY <1>1, <1>2, <1>3, <1>4, <1>6, <1>7, <1>8 DEF Next

LEMMA EventInit == Init => EventInv
<1> SUFFICES ASSUME Init PROVE EventInv
  OBVIOUS
<1>1. /\ written = <<content>> /\ events = <<[version |-> 1, value |-> content]>> /\ missed = FALSE
      /\ \A r \in Requests : req[r] = Idle
  BY DEF Init, IncidentInit, ProfileInit
<1>2. Publishing = {} /\ \A r \in Requests : SeenFresh(req[r])
  BY <1>1, IdleAt DEF Publishing, SeenFresh
<1>3. /\ DOMAIN events = {1} /\ DOMAIN written = {1} /\ Len(written) = 1 /\ written[1] = content
      /\ events[1].version = 1 /\ events[1].value = content /\ events # <<>> /\ written # <<>>
  BY <1>1
<1>4. Events = {events[1]}
  BY <1>2, <1>3 DEF Events
<1> QED BY <1>1, <1>2, <1>3, <1>4 DEF EventInv, OnePerWrite, Changes, ToldOf, Tell

(* However updates overlap and in whatever order they publish: a write has   *)
(* one event at most, which shows the record as the write left it, and has   *)
(* one if it changed the incident, or the status of the task, unless a       *)
(* request was cut off or, of a task, an update was overtaken.               *)
THEOREM RecordEventsTell == Spec => []EventsTellWrites
<1>1. TypeOK /\ EventInv => EventsTellWrites
  <2> SUFFICES ASSUME TypeOK, EventInv, kind \in {"incident", "task"}, NEW n \in DOMAIN written
               PROVE
                 LET Told(m) == {i \in DOMAIN events : events[i].version = m}
                     Pending(m) == {r \in Requests : req[r].at = "publish" /\ req[r].version = m} IN
                   /\ \A i, j \in Told(n) : i = j
                   /\ \A r \in Pending(n) : Told(n) = {} /\ Pending(n) = {r} /\ req[r].value = written[n]
                   /\ \A i \in Told(n) : events[i].value = written[n]
                   /\ Undisturbed => (Changes(n) <=> Told(n) # {} \/ Pending(n) # {})
    BY DEF EventsTellWrites, Undisturbed, Changes
  <2> DEFINE Told(m) == {i \in DOMAIN events : events[i].version = m}
             Pending(m) == {r \in Requests : req[r].at = "publish" /\ req[r].version = m}
  <2>1. \A i, j \in Told(n) : i = j
    BY DEF EventInv, OnePerWrite
  <2>2. ASSUME NEW r \in Pending(n) PROVE Told(n) = {} /\ Pending(n) = {r} /\ req[r].value = written[n]
    <3>1. r \in Publishing /\ req[r].version = n /\ EventOf(req[r]) \in Events
      BY <2>2 DEF Publishing, Events
    <3>2. Told(n) = {} /\ Pending(n) = {r}
      BY <3>1 DEF EventInv, OnePerWrite, Publishing
    <3>3. req[r].value = written[n]
      BY <3>1, EventsType DEF EventInv
    <3> QED BY <3>2, <3>3
  <2>3. \A i \in Told(n) : events[i].value = written[n]
    BY DEF EventInv, Events
  <2>4. Told(n) # {} \/ Pending(n) # {} <=> ToldOf(n)
    <3>1. ToldOf(n) <=> \/ \E i \in DOMAIN events : events[i].version = n
                        \/ \E r \in Publishing : req[r].version = n
      BY EventsType DEF ToldOf, Events, Publishing
    <3> QED BY <3>1 DEF Publishing
  <2> QED BY <2>1, <2>2, <2>3, <2>4 DEF EventInv
<1> QED BY <1>1, TypeInit, TypeStep, KeptInit, KeptStep, EventInit, EventStep, PTL DEF Spec

(* Once nobody is about to publish, the newest event of an incident shows    *)
(* the incident as it is stored, and that of a task its status, unless the   *)
(* events of two writes were published in the other order, a request was cut *)
(* off or, of a task, an update was overtaken.                               *)
THEOREM RecordNewestTells == Spec => []NewestEventTells
<1>1. TypeOK /\ EventInv => NewestEventTells
  <2> DEFINE last == events[Len(events)]
  <2> SUFFICES ASSUME TypeOK, EventInv, \A r \in Requests : req[r].at # "publish", ~cut,
                      \A i, j \in DOMAIN events : i < j => events[i].version < events[j].version,
                      kind \in {"incident", "task"}
               PROVE  Tell(last)
    BY DEF NewestEventTells, Tell
  <2>1. /\ DOMAIN events = 1..Len(events) /\ Len(events) \in Nat /\ Len(events) >= 1
        /\ \A i \in DOMAIN events : events[i].version \in Nat
    <3>1. events \in Seq(Event) /\ events # <<>>
      BY DEF EventInv, TypeOK
    <3>2. /\ DOMAIN events = 1..Len(events) /\ Len(events) \in Nat /\ Len(events) >= 1
          /\ \A i \in DOMAIN events : events[i] \in Event
      BY <3>1
    <3> QED BY <3>2 DEF Event
  <2>2. Events = {events[i] : i \in DOMAIN events}
    BY DEF Events, Publishing
  <2>3. \A i \in DOMAIN events : events[i].version <= last.version
    <3> SUFFICES ASSUME NEW i \in DOMAIN events PROVE events[i].version <= last.version
      OBVIOUS
    <3>1. Len(events) \in DOMAIN events /\ (i = Len(events) \/ i < Len(events))
      BY <2>1
    <3>2. i < Len(events) => events[i].version < last.version
      BY <3>1
    <3> QED BY <2>1, <3>1, <3>2
  <2>4. Newest(last)
    BY <2>1, <2>2, <2>3 DEF Newest
  <2> QED BY <2>4 DEF EventInv, Newest
<1> QED BY <1>1, TypeInit, TypeStep, KeptInit, KeptStep, EventInit, EventStep, PTL DEF Spec
=============================================================================
