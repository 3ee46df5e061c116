---------------------------- MODULE IncidentRecords ----------------------------
(***************************************************************************)
(* An incident or a task: PATCH updates the record, and the domain event    *)
(* that tells of the update is published after it, with the record as this  *)
(* request wrote it.  A task's event is published only for a new status.    *)
(* Events are in the order they were published in; nothing brings it in     *)
(* line with the order of the writes.                                       *)
(***************************************************************************)
EXTENDS StoredRecord

VARIABLES
  written,   \* the record as each write so far has left it, its creation first
  events     \* the published events, each with the number of its write

records == <<written, events>>

PatchIncident(r, patch) ==
  /\ kind = "incident" /\ ~degraded /\ Len(written) <= MaxWrites
  /\ Begin(r, [at |-> "write", patch |-> patch, seen |-> "absent",
               value |-> Merge(content, patch), fresh |-> TRUE])
  /\ UNCHANGED <<row, degraded, cut, faults, restarts, records>>

\* The route reads the task, and updateTask() reads it again.
PatchTask(r, patch) ==
  /\ kind = "task" /\ ~degraded /\ Len(written) <= MaxWrites
  /\ Begin(r, [at |-> "update", patch |-> patch, seen |-> content["status"], fresh |-> TRUE])
  /\ UNCHANGED <<row, degraded, cut, faults, restarts, records>>

UpdateTask(r) ==
  /\ kind = "task" /\ req[r].at = "update"
  /\ Goes(r, IF degraded THEN Idle
             ELSE [at |-> "write", patch |-> req[r].patch, seen |-> req[r].seen,
                   value |-> Merge(content, req[r].patch), fresh |-> req[r].fresh])
  /\ UNCHANGED <<row, degraded, cut, faults, restarts, records>>

\* Mutant: the status is compared with the one the update has written.
TellsLate(r) == kind = "incident" \/ req[r].patch["status"] \notin {"absent", req[r].value["status"]}

Tells(r) == kind = "incident" \/ req[r].patch["status"] \notin {"absent", req[r].seen}

Upserts(r, next) ==
  /\ kind \in {"incident", "task"} /\ req[r].at = "write"
  /\ written' = Append(written, req[r].value)
  /\ Writes(r, next)
  /\ UNCHANGED <<exists, events>>

\* Mutant: the event shows the record as the request has read it.
TellingRead(r) == [at |-> "publish", value |-> content, version |-> Len(written) + 1]

Telling(r) == [at |-> "publish", value |-> req[r].value, version |-> Len(written) + 1]

UpsertRecord(r) == Upserts(r, IF Tells(r) THEN Telling(r) ELSE Idle) /\ Answered

UpsertLost(r) == Upserts(r, Idle) /\ Fault(Tells(r))

EventOf(x) == [version |-> x.version, value |-> x.value]

PublishEvent(r) ==
  /\ req[r].at = "publish"
  /\ events' = Append(events, EventOf(req[r]))
  /\ Goes(r, Idle)
  /\ UNCHANGED <<row, degraded, cut, faults, restarts, written>>

IncidentRequests ==
  [at : {"update"}, patch : Contents, seen : Values \cup {"absent"}, fresh : BOOLEAN]
    \cup [at : {"write"}, patch : Contents, seen : Values \cup {"absent"}, value : Contents, fresh : BOOLEAN]
    \cup [at : {"publish"}, value : Contents, version : Nat]

Event == [version : Nat, value : Contents]

IncidentInit ==
  /\ written = <<content>>
  /\ events = <<[version |-> 1, value |-> content]>>

(* However updates overlap and in whatever order they publish, no write is   *)
(* told by two events, an event shows the record as its write left it, every *)
(* write of an incident is told by one, unless a request was cut off before, *)
(* and of a task those writes that changed its status and no others, unless  *)
(* besides an update was overtaken.                                          *)
EventsTellWrites ==
  LET Told(n) == {i \in DOMAIN events : events[i].version = n}
      Pending(n) == {r \in Requests : req[r].at = "publish" /\ req[r].version = n}
      Changes(n) == n = 1 \/ kind = "incident" \/ written[n]["status"] # written[n - 1]["status"] IN
  kind \in {"incident", "task"} =>
    \A n \in DOMAIN written :
      /\ \A i, j \in Told(n) : i = j
      /\ \A r \in Pending(n) : Told(n) = {} /\ Pending(n) = {r} /\ req[r].value = written[n]
      /\ \A i \in Told(n) : events[i].value = written[n]
      /\ ~cut /\ (kind = "task" => ~overtaken) =>
           (Changes(n) <=> Told(n) # {} \/ Pending(n) # {})

(* Once nobody is about to publish, the newest event of an incident shows    *)
(* the incident as it is stored, and that of a task its status, unless the   *)
(* events of two writes were published in the other order, a request was cut *)
(* off or, of a task, an update was overtaken.                               *)
NewestEventTells ==
  LET newest == events[Len(events)].value IN
  /\ \A r \in Requests : req[r].at # "publish"
  /\ \A i, j \in DOMAIN events : i < j => events[i].version < events[j].version
  /\ ~cut
  => /\ kind = "incident" => newest = content
     /\ kind = "task" /\ ~overtaken => newest["status"] = content["status"]
=============================================================================
