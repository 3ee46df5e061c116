--------------------------- MODULE GroupMembership ---------------------------
(***************************************************************************)
(* A community sharing group in the tables of the COP API: its members,     *)
(* who manages it, and its metadata.  Every operation reads the group,      *)
(* decides in the process, and then writes with statements of its own; the  *)
(* requests of the same or of other processes run in between.  Groups share *)
(* only the store, so one is modelled; owners and admins are both managers. *)
(***************************************************************************)
EXTENDS Naturals, FiniteSets

CONSTANTS
  Users,
  Requests,   \* requests in progress at once
  Values,     \* values of a metadata key a request may set
  MaxFaults, MaxRestarts

ASSUME GroupAssumption ==
  /\ "on" \notin Values /\ "off" \notin Values /\ "absent" \notin Values
  /\ MaxFaults \in Nat /\ MaxRestarts \in Nat

VARIABLES
  exists,     \* the group's row is in cop_community_groups
  visibility,
  members,    \* cop_community_group_members: role and status by user
  metadata,   \* "chat": the AI assistant's switch; "notes": any other key
  degraded,   \* communityReportStoreStatus is not "ok"
  req,        \* what each request has read and is about to write
  raced,      \* a membership was written though a manager was lost since the read
  appointed,  \* users a manager last set as manager, and the creator
  latest,     \* the values that requests last gave the metadata keys
  overwrote,  \* metadata was written after it had changed since the read
  faults, restarts

vars == <<exists, visibility, members, metadata, degraded, req, raced, appointed,
          latest, overwrote, faults, restarts>>

Roles == {"manager", "member"}
Statuses == {"active", "pending", "left"}
Keys == {"chat", "notes"}
Blank == [k \in Keys |-> "absent"]
Patches == {[Blank EXCEPT !["chat"] = x] : x \in {"on", "off"}} \cup {[Blank EXCEPT !["notes"] = v] : v \in Values}
Outsider == [role |-> "member", status |-> "none"]
Idle == [at |-> "idle"]

\* createGroup(): group and owner are inserted in one transaction.
Init ==
  /\ exists = TRUE
  /\ visibility \in {"public", "private"}
  /\ \E u \in Users :
       /\ members = [v \in Users |-> IF v = u THEN [role |-> "manager", status |-> "active"] ELSE Outsider]
       /\ appointed = {u}
  /\ metadata = Blank
  /\ latest = metadata
  /\ degraded = FALSE
  /\ req = [r \in Requests |-> Idle]
  /\ raced = FALSE
  /\ overwrote = FALSE
  /\ faults = 0
  /\ restarts = 0

world == <<visibility, faults, restarts>>

-----------------------------------------------------------------------------
(* What the process decides from the group it has read.                      *)

Managing(role, status) == role = "manager" /\ status = "active"
Manages(u) == Managing(members[u].role, members[u].status)
Uses(u) == members[u].status = "active"

\* Mutant: the removed user counts as one who remains.
NoOneLeft(u) == Manages(u) /\ ~\E v \in Users : Manages(v)

WouldRemoveLastActiveManager(u) == Manages(u) /\ ~\E v \in Users \ {u} : Manages(v)

\* The decision may be out of date once another request has removed someone.
Reads(r, request) ==
  /\ req[r] = Idle
  /\ ~degraded /\ exists
  /\ req' = [req EXCEPT ![r] = request]
  /\ UNCHANGED <<exists, members, metadata, degraded, raced, appointed, latest, overwrote, world>>

\* A user leaves, or a manager removes one: the same write.
LeaveGroup(r, u) ==
  /\ members[u].status \notin {"none", "left"}
  /\ ~WouldRemoveLastActiveManager(u)
  /\ Reads(r, [at |-> "remove", user |-> u, fresh |-> TRUE])

RemoveGroupMember(r, actor, u) ==
  /\ Manages(actor)
  /\ LeaveGroup(r, u)

UpsertGroupMember(r, actor, u, role, status) ==
  /\ Manages(actor)
  /\ ~Managing(role, status) => ~WouldRemoveLastActiveManager(u)
  /\ Reads(r, [at |-> "upsert", user |-> u, role |-> role, status |-> status, fresh |-> TRUE])

RequestGroupMembership(r, u) ==
  Reads(r, [at |-> "join", user |-> u,
            status |-> IF visibility = "public" THEN "active" ELSE "pending"])

MergeCommunityGroupMetadata(current, patch) ==
  [k \in Keys |-> IF patch[k] = "absent" THEN current[k] ELSE patch[k]]

UpdateGroupMetadata(r, actor, patch) ==
  /\ Uses(actor)
  /\ Reads(r, [at |-> "metadata", user |-> actor, patch |-> patch, provisions |-> FALSE, fresh |-> TRUE,
               value |-> MergeCommunityGroupMetadata(metadata, patch)])

-----------------------------------------------------------------------------
(* The statements that write.                                                *)

Step(r, at) == req[r].at = at

\* When a manager is lost, everyone else's decision is out of date.
Settles(r, lost) ==
  /\ req' = [q \in Requests |->
       IF q = r THEN Idle
       ELSE IF lost /\ req[q].at \in {"remove", "upsert"} THEN [req[q] EXCEPT !.fresh = FALSE] ELSE req[q]]
  /\ raced' = (raced \/ ~req[r].fresh)

\* UPDATE ... SET status = 'left' WHERE ... status <> 'left'.
Leaves(r) ==
  LET u == req[r].user IN
  /\ Step(r, "remove")
  /\ members' = IF members[u].status = "none" THEN members
                ELSE [members EXCEPT ![u].status = "left"]
  /\ appointed' = appointed \ {u}
  /\ Settles(r, Manages(u))
  /\ UNCHANGED <<exists, metadata, degraded, latest, overwrote, world>>

Upserts(r) ==
  LET u == req[r].user IN
  /\ Step(r, "upsert") /\ exists
  /\ members' = [members EXCEPT ![u] = [role |-> req[r].role, status |-> req[r].status]]
  /\ appointed' = IF req[r].role = "manager" /\ req[r].status # "left"
                  THEN appointed \cup {u} ELSE appointed \ {u}
  /\ Settles(r, Manages(u) /\ ~Managing(req[r].role, req[r].status))
  /\ UNCHANGED <<exists, metadata, degraded, latest, overwrote, world>>

\* Mutant: joining again keeps the role the member had.
JoinsAsBefore(r) ==
  LET u == req[r].user IN
  /\ Step(r, "join") /\ exists
  /\ members' = [members EXCEPT ![u].status = IF @ = "active" THEN "active" ELSE req[r].status]
  /\ req' = [req EXCEPT ![r] = Idle]
  /\ UNCHANGED <<exists, metadata, degraded, raced, appointed, latest, overwrote, world>>

Joins(r) ==
  LET u == req[r].user IN
  /\ Step(r, "join") /\ exists
  /\ members' = [members EXCEPT ![u] =
       [role |-> IF @.status \in {"left", "none"} THEN "member" ELSE @.role,
        status |-> IF @.status = "active" THEN "active" ELSE req[r].status]]
  /\ req' = [req EXCEPT ![r] = Idle]
  /\ UNCHANGED <<exists, metadata, degraded, raced, appointed, latest, overwrote, world>>

\* The insert of a member of a deleted group violates the foreign key, and an
\* error of any statement takes the store out of use.
InsertRefused(r) ==
  /\ (Step(r, "upsert") \/ Step(r, "join")) /\ ~exists
  /\ degraded' = TRUE
  /\ req' = [req EXCEPT ![r] = Idle]
  /\ UNCHANGED <<exists, members, metadata, raced, appointed, latest, overwrote, world>>

Rewrites(r, value, next) ==
  /\ metadata' = value
  /\ req' = [q \in Requests |->
       IF q = r THEN next
       ELSE IF req[q].at \in {"metadata", "provision"} THEN [req[q] EXCEPT !.fresh = FALSE] ELSE req[q]]
  /\ overwrote' = (overwrote \/ ~req[r].fresh)
  /\ latest' = IF req[r].provisions THEN latest
               ELSE MergeCommunityGroupMetadata(latest, req[r].patch)
  /\ UNCHANGED <<exists, members, degraded, raced, appointed, world>>

\* An update that switches the assistant on goes on to provision its bot, with
\* all of the metadata that the update returned.
AfterUpdate(r, value) ==
  IF ~req[r].provisions /\ req[r].patch["chat"] = "on"
  THEN [at |-> "provision", user |-> req[r].user, patch |-> value, fresh |-> TRUE]
  ELSE Idle

\* Mutant: the metadata is replaced by the patch.
WritesPatch(r) ==
  /\ Step(r, "metadata") /\ exists
  /\ Rewrites(r, req[r].patch, AfterUpdate(r, req[r].patch))

WritesMetadata(r) ==
  /\ Step(r, "metadata") /\ exists
  /\ Rewrites(r, req[r].value, AfterUpdate(r, req[r].value))

\* provisionAiMatrixBotForGroup() comes back from the messaging service and
\* updates the metadata once more, with what it had before.
ProvisionAiMatrixBot(r) ==
  /\ Step(r, "provision")
  /\ req' = [req EXCEPT ![r] =
       IF ~degraded /\ exists /\ Uses(req[r].user)
       THEN [at |-> "metadata", user |-> req[r].user, patch |-> req[r].patch, provisions |-> TRUE,
             fresh |-> req[r].fresh, value |-> MergeCommunityGroupMetadata(metadata, req[r].patch)]
       ELSE Idle]
  /\ UNCHANGED <<exists, members, metadata, degraded, raced, appointed, latest, overwrote, world>>

MetadataMissed(r) ==
  /\ Step(r, "metadata") /\ ~exists
  /\ req' = [req EXCEPT ![r] = Idle]
  /\ UNCHANGED <<exists, members, metadata, degraded, raced, appointed, latest, overwrote, world>>

\* One statement: the manager is looked up where the group is deleted, and the
\* members go with it.
DeleteGroup(u) ==
  /\ ~degraded /\ exists /\ Manages(u)
  /\ exists' = FALSE
  /\ members' = [v \in Users |-> Outsider]
  /\ appointed' = {}
  /\ UNCHANGED <<metadata, degraded, req, raced, latest, overwrote, world>>

-----------------------------------------------------------------------------
\* A statement fails before it takes effect: the read, the write, or the read
\* that follows it.  The fallback, which does not have the group, answers
\* instead of the store from then on.
StatementFails(r) ==
  /\ req[r].at # "provision"
  /\ faults < MaxFaults
  /\ faults' = faults + 1
  /\ degraded' = TRUE
  /\ req' = [req EXCEPT ![r] = Idle]
  /\ UNCHANGED <<exists, visibility, members, metadata, raced, appointed, latest, overwrote, restarts>>

Restart ==
  /\ restarts < MaxRestarts
  /\ restarts' = restarts + 1
  /\ degraded' = FALSE
  /\ req' = [r \in Requests |-> Idle]
  /\ UNCHANGED <<exists, visibility, members, metadata, raced, appointed, latest, overwrote, faults>>

-----------------------------------------------------------------------------
Next ==
  \/ \E r \in Requests, u \in Users :
       \/ LeaveGroup(r, u)
       \/ RequestGroupMembership(r, u)
       \/ \E actor \in Users : RemoveGroupMember(r, actor, u)
       \/ \E actor \in Users, role \in Roles, status \in Statuses : UpsertGroupMember(r, actor, u, role, status)
       \/ \E patch \in Patches : UpdateGroupMetadata(r, u, patch)
  \/ \E r \in Requests :
       \/ Leaves(r) \/ Upserts(r) \/ Joins(r) \/ InsertRefused(r)
       \/ WritesMetadata(r) \/ ProvisionAiMatrixBot(r) \/ MetadataMissed(r)
       \/ StatementFails(r)
  \/ \E u \in Users : DeleteGroup(u)
  \/ Restart

Spec == Init /\ [][Next]_vars

-----------------------------------------------------------------------------
MetadataType == [Keys -> {"absent", "on", "off"} \cup Values]
MemberType == [role : Roles, status : Statuses \cup {"none"}]
RemovalType == [at : {"remove"}, user : Users, fresh : BOOLEAN]
UpsertType == [at : {"upsert"}, user : Users, role : Roles, status : Statuses, fresh : BOOLEAN]
JoinType == [at : {"join"}, user : Users, status : {"active", "pending"}]
UpdateType == [at : {"metadata"}, user : Users, patch : MetadataType, value : MetadataType,
               provisions : BOOLEAN, fresh : BOOLEAN]
ProvisionType == [at : {"provision"}, user : Users, patch : MetadataType, fresh : BOOLEAN]

\* Every variable has its type.
TypeOK ==
  /\ exists \in BOOLEAN
  /\ visibility \in {"public", "private"}
  /\ members \in [Users -> MemberType]
  /\ metadata \in MetadataType
  /\ degraded \in BOOLEAN
  /\ req \in [Requests ->
       {Idle} \cup RemovalType \cup UpsertType \cup JoinType \cup UpdateType \cup ProvisionType]
  /\ raced \in BOOLEAN
  /\ appointed \subseteq Users
  /\ latest \in MetadataType
  /\ overwrote \in BOOLEAN
  /\ faults \in Nat
  /\ restarts \in Nat

(* "The last active owner/admin cannot leave until another active manager    *)
(* exists or the group is deleted": a group that exists has an active        *)
(* manager, unless a member was removed or demoted on a decision taken       *)
(* before another manager was lost.                                          *)
ManagerRemains == exists /\ ~raced => \E u \in Users : Manages(u)

(* Nobody manages a group who was not appointed by a manager since he last   *)
(* left or was removed, whichever joins and removals cross.                  *)
ManagersWereAppointed == \A u \in Users : Manages(u) => u \in appointed

(* What a request sets in the metadata stays until a request sets it again,  *)
(* unless metadata was written on a copy that another write had overtaken;   *)
(* the second write of a provisioning, which repeats what it had read before *)
(* it called the messaging service, included.                                *)
UpdatesKept == ~overwrote => metadata = latest
=============================================================================
