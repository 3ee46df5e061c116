------------------------ MODULE GroupMembershipProofs ------------------------
(***************************************************************************)
(* Proofs about GroupMembership, for any users, requests and values, and    *)
(* any number of store errors and restarts.                                 *)
(***************************************************************************)
EXTENDS GroupMembership, TLAPS

USE GroupAssumption

RequestType == RemovalType \cup UpsertType \cup JoinType \cup UpdateType \cup ProvisionType

-----------------------------------------------------------------------------
(* Facts about the values that requests carry.                               *)

LEMMA IdleHasNoStep == Idle.at = "idle"
BY DEF Idle

\* A request at a step has the fields of that step.
LEMMA RequestAtStep ==
  ASSUME TypeOK, NEW r \in Requests
  PROVE  /\ req[r].at = "remove" => req[r] \in RemovalType
         /\ req[r].at = "upsert" => req[r] \in UpsertType
         /\ req[r].at = "join" => req[r] \in JoinType
         /\ req[r].at = "metadata" => req[r] \in UpdateType
         /\ req[r].at = "provision" => req[r] \in ProvisionType
BY IdleHasNoStep DEF TypeOK, RemovalType, UpsertType, JoinType, UpdateType, ProvisionType

LEMMA BlankType == Blank \in MetadataType
BY DEF Blank, MetadataType

LEMMA PatchesType == Patches \subseteq MetadataType
BY BlankType DEF Patches, MetadataType

\* A merge of metadata is metadata.
LEMMA MergeType ==
  ASSUME NEW m \in MetadataType, NEW p \in MetadataType
  PROVE  MergeCommunityGroupMetadata(m, p) \in MetadataType
BY DEF MergeCommunityGroupMetadata, MetadataType

\* A patch that agrees with the metadata changes nothing.
LEMMA MergeOfWhole ==
  ASSUME NEW m \in MetadataType
  PROVE  MergeCommunityGroupMetadata(m, m) = m
BY DEF MergeCommunityGroupMetadata, MetadataType

\* A request whose decision is out of date keeps its other fields.
LEMMA StaleRequest ==
  ASSUME NEW x \in RequestType, x.at \in {"remove", "upsert", "metadata", "provision"}
  PROVE  [x EXCEPT !.fresh = FALSE] \in RequestType
BY DEF RequestType, RemovalType, UpsertType, JoinType, UpdateType, ProvisionType

LEMMA SettlesType ==
  ASSUME TypeOK, NEW r \in Requests, NEW lost \in BOOLEAN, Settles(r, lost), req[r].fresh \in BOOLEAN
  PROVE  req' \in [Requests -> {Idle} \cup RequestType] /\ raced' \in BOOLEAN
<1>1. \A q \in Requests : req[q] \in {Idle} \cup RequestType
  BY DEF TypeOK, RequestType
<1>2. ASSUME NEW q \in Requests, req[q].at \in {"remove", "upsert"} PROVE [req[q] EXCEPT !.fresh = FALSE] \in RequestType
  BY <1>1, <1>2, StaleRequest, IdleHasNoStep
<1>3. req' \in [Requests -> {Idle} \cup RequestType]
  BY <1>1, <1>2 DEF Settles
<1>4. raced' \in BOOLEAN
  BY DEF Settles, TypeOK
<1> QED BY <1>3, <1>4

LEMMA RewritesType ==
  ASSUME TypeOK, NEW r \in Requests, req[r] \in UpdateType, NEW value \in MetadataType,
         NEW next \in {Idle} \cup RequestType, Rewrites(r, value, next)
  PROVE  TypeOK'
<1>1. \A q \in Requests : req[q] \in {Idle} \cup RequestType
  BY DEF TypeOK, RequestType
<1>2. ASSUME NEW q \in Requests, req[q].at \in {"metadata", "provision"}
      PROVE [req[q] EXCEPT !.fresh = FALSE] \in RequestType
  BY <1>1, <1>2, StaleRequest, IdleHasNoStep
<1>3. req' \in [Requests -> {Idle} \cup RequestType]
  BY <1>1, <1>2 DEF Rewrites
<1>4. latest' \in MetadataType
  BY MergeType DEF Rewrites, TypeOK, UpdateType
<1>5. overwrote' \in BOOLEAN /\ metadata' \in MetadataType
  BY DEF Rewrites, TypeOK, UpdateType
<1> QED BY <1>3, <1>4, <1>5 DEF Rewrites, TypeOK, RequestType, world

-----------------------------------------------------------------------------
LEMMA TypeInit == Init => TypeOK
<1> SUFFICES ASSUME Init PROVE TypeOK
  OBVIOUS
<1>1. members \in [Users -> MemberType] /\ appointed \subseteq Users
  BY DEF Init, MemberType, Roles, Statuses, Outsider
<1>2. metadata \in MetadataType /\ latest \in MetadataType
  BY BlankType DEF Init
<1> QED BY <1>1, <1>2 DEF Init, TypeOK

LEMMA TypeStep == TypeOK /\ [Next]_vars => TypeOK'
<1> SUFFICES ASSUME TypeOK, [Next]_vars PROVE TypeOK'
  OBVIOUS
<1>1. ASSUME NEW r \in Requests, NEW x \in {Idle} \cup RequestType, Reads(r, x) PROVE TypeOK'
  BY <1>1 DEF Reads, TypeOK, RequestType, world
<1>2. ASSUME NEW r \in Requests, NEW u \in Users, LeaveGroup(r, u) PROVE TypeOK'
  <2>1. [at |-> "remove", user |-> u, fresh |-> TRUE] \in RequestType
    BY DEF RequestType, RemovalType
  <2> QED BY <1>1, <1>2, <2>1 DEF LeaveGroup
<1>3. ASSUME NEW r \in Requests, NEW u \in Users, NEW actor \in Users, RemoveGroupMember(r, actor, u) PROVE TypeOK'
  BY <1>2, <1>3 DEF RemoveGroupMember
<1>4. ASSUME NEW r \in Requests, NEW u \in Users, NEW actor \in Users, NEW role \in Roles, NEW status \in Statuses,
             UpsertGroupMember(r, actor, u, role, status)
      PROVE TypeOK'
  <2>1. [at |-> "upsert", user |-> u, role |-> role, status |-> status, fresh |-> TRUE] \in RequestType
    BY DEF RequestType, UpsertType
  <2> QED BY <1>1, <1>4, <2>1 DEF UpsertGroupMember
<1>5. ASSUME NEW r \in Requests, NEW u \in Users, RequestGroupMembership(r, u) PROVE TypeOK'
  <2>1. [at |-> "join", user |-> u, status |-> IF visibility = "public" THEN "active" ELSE "pending"] \in RequestType
    BY DEF RequestType, JoinType
  <2> QED BY <1>1, <1>5, <2>1 DEF RequestGroupMembership
<1>6. ASSUME NEW r \in Requests, NEW u \in Users, NEW patch \in Patches, UpdateGroupMetadata(r, u, patch) PROVE TypeOK'
  <2>1. patch \in MetadataType /\ MergeCommunityGroupMetadata(metadata, patch) \in MetadataType
    BY MergeType, PatchesType DEF TypeOK
  <2>2. [at |-> "metadata", user |-> u, patch |-> patch, provisions |-> FALSE, fresh |-> TRUE,
         value |-> MergeCommunityGroupMetadata(metadata, patch)] \in RequestType
    BY <2>1 DEF RequestType, UpdateType
  <2> QED BY <1>1, <1>6, <2>2 DEF UpdateGroupMetadata
<1>7. ASSUME NEW r \in Requests, Leaves(r) PROVE TypeOK'
  <2>1. req[r] \in RemovalType
    BY <1>7, RequestAtStep DEF Leaves, Step
  <2>2. members[req[r].user] \in MemberType
    BY <2>1 DEF RemovalType, TypeOK
  <2>3. [members[req[r].user] EXCEPT !.status = "left"] \in MemberType
    BY <2>2 DEF MemberType, Statuses
  <2>4. members' \in [Users -> MemberType]
    BY <1>7, <2>1, <2>3 DEF Leaves, TypeOK, RemovalType
  <2>5. req' \in [Requests -> {Idle} \cup RequestType] /\ raced' \in BOOLEAN
    BY <1>7, <2>1, SettlesType DEF Leaves, RemovalType, Manages, Managing
  <2> QED BY <1>7, <2>4, <2>5 DEF Leaves, TypeOK, RequestType, world
<1>8. ASSUME NEW r \in Requests, Upserts(r) PROVE TypeOK'
  <2>1. req[r] \in UpsertType
    BY <1>8, RequestAtStep DEF Upserts, Step
  <2>2. [role |-> req[r].role, status |-> req[r].status] \in MemberType
    BY <2>1 DEF MemberType, UpsertType
  <2>3. members' \in [Users -> MemberType] /\ appointed' \subseteq Users
    BY <1>8, <2>1, <2>2 DEF Upserts, TypeOK, UpsertType
  <2>4. req' \in [Requests -> {Idle} \cup RequestType] /\ raced' \in BOOLEAN
    BY <1>8, <2>1, SettlesType DEF Upserts, UpsertType, Manages, Managing
  <2> QED BY <1>8, <2>3, <2>4 DEF Upserts, TypeOK, RequestType, world
<1>9. ASSUME NEW r \in Requests, Joins(r) PROVE TypeOK'
  <2>1. req[r] \in JoinType
    BY <1>9, RequestAtStep DEF Joins, Step
  <2>2. members[req[r].user] \in MemberType
    BY <2>1 DEF JoinType, TypeOK
  <2> DEFINE joined == [role |-> IF members[req[r].user].status \in {"left", "none"} THEN "member"
                                 ELSE members[req[r].user].role,
                        status |-> IF members[req[r].user].status = "active" THEN "active" ELSE req[r].status]
  <2>3. joined \in MemberType
    BY <2>1, <2>2 DEF MemberType, JoinType, Roles, Statuses
  <2>4. members' = [members EXCEPT ![req[r].user] = joined]
    BY <1>9 DEF Joins
  <2> HIDE DEF joined
  <2>5. members' \in [Users -> MemberType]
    BY <2>3, <2>4 DEF TypeOK
  <2> QED BY <1>9, <2>5 DEF Joins, TypeOK, world
<1>10. ASSUME NEW r \in Requests, InsertRefused(r) PROVE TypeOK'
  BY <1>10 DEF InsertRefused, TypeOK, world
<1>11. ASSUME NEW r \in Requests, WritesMetadata(r) PROVE TypeOK'
  <2>1. req[r] \in UpdateType
    BY <1>11, RequestAtStep DEF WritesMetadata, Step
  <2>2. AfterUpdate(r, req[r].value) \in {Idle} \cup RequestType
    BY <2>1 DEF AfterUpdate, RequestType, ProvisionType, UpdateType
  <2> QED BY <1>11, <2>1, <2>2, RewritesType DEF WritesMetadata, UpdateType
<1>12. ASSUME NEW r \in Requests, ProvisionAiMatrixBot(r) PROVE TypeOK'
  <2>1. req[r] \in ProvisionType
    BY <1>12, RequestAtStep DEF ProvisionAiMatrixBot, Step
  <2>2. MergeCommunityGroupMetadata(metadata, req[r].patch) \in MetadataType
    BY <2>1, MergeType DEF ProvisionType, TypeOK
  <2>3. [at |-> "metadata", user |-> req[r].user, patch |-> req[r].patch, provisions |-> TRUE,
         fresh |-> req[r].fresh, value |-> MergeCommunityGroupMetadata(metadata, req[r].patch)] \in UpdateType
    BY <2>1, <2>2 DEF ProvisionType, UpdateType
  <2>4. req' \in [Requests -> {Idle} \cup RequestType]
    BY <1>12, <2>3 DEF ProvisionAiMatrixBot, TypeOK, RequestType
  <2> QED BY <1>12, <2>4 DEF ProvisionAiMatrixBot, TypeOK, RequestType, world
<1>13. ASSUME NEW r \in Requests, MetadataMissed(r) PROVE TypeOK'
  BY <1>13 DEF MetadataMissed, TypeOK, world
<1>14. ASSUME NEW r \in Requests, StatementFails(r) PROVE TypeOK'
  BY <1>14 DEF StatementFails, TypeOK
<1>15. ASSUME NEW u \in Users, DeleteGroup(u) PROVE TypeOK'
  BY <1>15 DEF DeleteGroup, TypeOK, MemberType, Outsider, Roles, world
<1>16. ASSUME Restart PROVE TypeOK'
  <2>1. req' = [r \in Requests |-> Idle]
    BY <1>16 DEF Restart
  <2>2. req' \in [Requests -> {Idle} \cup RemovalType \cup UpsertType \cup JoinType \cup UpdateType \cup ProvisionType]
    BY <2>1
  <2>3. degraded' \in BOOLEAN
    BY <1>16 DEF Restart
  <2>4. restarts' \in Nat
    BY <1>16 DEF Restart, TypeOK
  <2>5. UNCHANGED <<exists, visibility, members, metadata, raced, appointed, latest, overwrote, faults>>
    BY <1>16 DEF Restart
  <2> QED BY <2>2, <2>3, <2>4, <2>5 DEF TypeOK
<1>17. ASSUME UNCHANGED vars PROVE TypeOK'
  BY <1>17 DEF vars, TypeOK
<1> QED
  BY <1>2, <1>3, <1>4, <1>5, <1>6, <1>7, <1>8, <1>9, <1>10, <1>11, <1>12, <1>13, <1>14, <1>15, <1>16, <1>17 DEF Next

(* Every variable of a group and of the requests at work on it has its type. *)
THEOREM GroupTypeCorrect == Spec => []TypeOK
BY TypeInit, TypeStep, PTL DEF Spec
----------------------------------------------------------------
-----------------------------------------------------------------------------
(* Who manages the group.                                                    *)

\* What a statement does to the managers: none is made but by an upsert.
LEMMA ManagersStep ==
  ASSUME TypeOK, [Next]_vars
  PROVE  \/ UNCHANGED <<members, appointed>>
         \/ \E r \in Requests : Leaves(r) \/ Upserts(r) \/ Joins(r)
         \/ \E u \in Users : DeleteGroup(u)
BY DEF Next, vars, LeaveGroup, RemoveGroupMember, UpsertGroupMember, RequestGroupMembership,
       UpdateGroupMetadata, Reads, InsertRefused, WritesMetadata, Rewrites, ProvisionAiMatrixBot,
       MetadataMissed, StatementFails, Restart

\* A join takes the management from nobody.
LEMMA JoinsManage ==
  ASSUME TypeOK, NEW r \in Requests, Joins(r), NEW u \in Users
  PROVE  /\ Manages(u) => Manages(u)'
         /\ Manages(u)' => Manages(u) \/ (members[u].role = "manager" /\ members[u].status = "pending")
<1>1. req[r] \in JoinType /\ members[req[r].user] \in MemberType
  BY RequestAtStep DEF Joins, Step, JoinType, TypeOK
<1>2. members \in [Users -> MemberType]
  BY DEF TypeOK
<1>3. CASE u = req[r].user
  BY <1>1, <1>2, <1>3 DEF Joins, Manages, Managing, MemberType, Roles, Statuses
<1>4. CASE u # req[r].user
  BY <1>1, <1>2, <1>4 DEF Joins, Manages, Managing
<1> QED BY <1>3, <1>4

\* A manager whose join awaits approval was appointed as well.
Appointed ==
  \A u \in Users :
    members[u].role = "manager" /\ members[u].status \in {"active", "pending"} => u \in appointed

LEMMA AppointedStep == TypeOK /\ Appointed /\ [Next]_vars => Appointed'
<1> SUFFICES ASSUME TypeOK, Appointed, [Next]_vars, NEW u \in Users,
                    members'[u].role = "manager", members'[u].status \in {"active", "pending"}
             PROVE  u \in appointed'
  BY DEF Appointed
<1>1. members \in [Users -> MemberType] /\ members[u] \in MemberType
  BY DEF TypeOK
<1>2. CASE UNCHANGED <<members, appointed>>
  BY <1>2 DEF Appointed
<1>3. ASSUME NEW r \in Requests, Leaves(r) PROVE u \in appointed'
  <2>1. req[r] \in RemovalType
    BY <1>3, RequestAtStep DEF Leaves, Step
  <2>2. CASE u = req[r].user
    BY <1>1, <1>3, <2>1, <2>2 DEF Leaves, RemovalType, MemberType
  <2>3. CASE u # req[r].user
    BY <1>1, <1>3, <2>1, <2>3 DEF Leaves, Appointed
  <2> QED BY <2>2, <2>3
<1>4. ASSUME NEW r \in Requests, Upserts(r) PROVE u \in appointed'
  <2>1. req[r] \in UpsertType
    BY <1>4, RequestAtStep DEF Upserts, Step
  <2>2. CASE u = req[r].user
    BY <1>1, <1>4, <2>1, <2>2 DEF Upserts, UpsertType
  <2>3. CASE u # req[r].user
    BY <1>1, <1>4, <2>1, <2>3 DEF Upserts, Appointed
  <2> QED BY <2>2, <2>3
<1>5. ASSUME NEW r \in Requests, Joins(r) PROVE u \in appointed'
  <2>1. req[r] \in JoinType
    BY <1>5, RequestAtStep DEF Joins, Step
  <2>2. CASE u = req[r].user
    BY <1>1, <1>5, <2>1, <2>2 DEF Joins, Appointed, MemberType, Statuses
  <2>3. CASE u # req[r].user
    BY <1>1, <1>5, <2>1, <2>3 DEF Joins, Appointed
  <2> QED BY <2>2, <2>3
<1>6. ASSUME NEW v \in Users, DeleteGroup(v) PROVE u \in appointed'
  BY <1>6 DEF DeleteGroup, Outsider
<1> QED BY <1>2, <1>3, <1>4, <1>5, <1>6, ManagersStep

(* Nobody manages a group whom no manager appointed since he last left.      *)
THEOREM GroupManagersAppointed == Spec => []ManagersWereAppointed
<1>1. Init => Appointed
  BY DEF Init, Appointed, Outsider
<1>2. Appointed => ManagersWereAppointed
  BY DEF Appointed, ManagersWereAppointed, Manages, Managing
<1> QED BY <1>1, <1>2, TypeInit, TypeStep, AppointedStep, PTL DEF Spec

-----------------------------------------------------------------------------
(* That someone manages it.                                                  *)

\* A decision to take a user from the managers.
Demotes(r) ==
  \/ req[r].at = "remove"
  \/ req[r].at = "upsert" /\ ~Managing(req[r].role, req[r].status)

\* While it is not out of date, another user manages the group.
Decided ==
  \A r \in Requests : Demotes(r) /\ req[r].fresh /\ exists /\ ~raced =>
    \E v \in Users \ {req[r].user} : Manages(v)

LEMMA ReadsDecide ==
  ASSUME TypeOK, Decided, ManagerRemains, NEW r \in Requests, NEW x \in RequestType, Reads(r, x),
         x.at = "remove" \/ (x.at = "upsert" /\ ~Managing(x.role, x.status))
           => ~WouldRemoveLastActiveManager(x.user)
  PROVE  Decided' /\ ManagerRemains'
<1>1. UNCHANGED <<exists, members, raced>>
  BY DEF Reads
<1>2. ManagerRemains'
  BY <1>1 DEF ManagerRemains, Manages
<1>3. ASSUME NEW q \in Requests, Demotes(q)', req'[q].fresh, exists, ~raced
      PROVE  \E v \in Users \ {req'[q].user} : Manages(v)
  <2>1. CASE q = r
    <3>1. req'[q] = x
      BY <2>1 DEF Reads, TypeOK
    <3>2. ~WouldRemoveLastActiveManager(x.user)
      BY <1>3, <3>1 DEF Demotes
    <3> QED BY <1>3, <3>1, <3>2 DEF WouldRemoveLastActiveManager, ManagerRemains
  <2>2. CASE q # r
    <3>1. req'[q] = req[q]
      BY <2>2 DEF Reads, TypeOK
    <3> QED BY <1>3, <3>1 DEF Demotes, Decided
  <2> QED BY <2>1, <2>2
<1> QED BY <1>1, <1>2, <1>3 DEF Decided, Manages

\* A removal or an upsert that takes the management from nobody but its user,
\* on a decision that is not out of date.
LEMMA SettlesDecided ==
  ASSUME TypeOK, Decided, ManagerRemains, NEW r \in Requests, NEW lost \in BOOLEAN, Settles(r, lost),
         req[r] \in RemovalType \cup UpsertType, exists' = exists,
         NEW w \in Users, w = req[r].user,
         \A v \in Users \ {w} : Manages(v) => Manages(v)',
         Manages(w) => Manages(w)' \/ (lost /\ Demotes(r))
  PROVE  Decided' /\ ManagerRemains'
<1>0. ~raced' => ~raced /\ req[r].fresh
  BY DEF Settles
<1>1. ASSUME exists', ~raced' PROVE \E u \in Users : Manages(u)'
  <2>1. PICK u \in Users : Manages(u)
    BY <1>0, <1>1 DEF ManagerRemains
  <2>2. CASE u # w \/ Manages(u)'
    BY <2>1, <2>2
  <2>3. CASE u = w /\ ~Manages(u)'
    <3>1. Demotes(r)
      BY <2>1, <2>3 DEF Manages, Managing
    <3>2. \E v \in Users \ {w} : Manages(v)
      BY <1>0, <1>1, <3>1 DEF Decided
    <3> QED BY <3>2
  <2> QED BY <2>2, <2>3
<1>2. ASSUME NEW q \in Requests, Demotes(q)', req'[q].fresh, exists, ~raced'
      PROVE  \E v \in Users \ {req'[q].user} : Manages(v)'
  <2>1. q # r
    BY <1>2, IdleHasNoStep DEF Settles, Demotes
  <2>2. req'[q] = IF lost /\ req[q].at \in {"remove", "upsert"} THEN [req[q] EXCEPT !.fresh = FALSE] ELSE req[q]
    BY <2>1 DEF Settles
  <2>3. CASE lost
    <3>1. req[q].at \in {"remove", "upsert"} => req[q] \in RemovalType \cup UpsertType
      BY RequestAtStep
    <3>2. req[q].at \in {"remove", "upsert"} => [req[q] EXCEPT !.fresh = FALSE].fresh = FALSE
      BY <3>1 DEF RemovalType, UpsertType
    <3> QED BY <1>2, <2>2, <2>3, <3>2 DEF Demotes
  <2>4. CASE ~lost
    <3>1. req'[q] = req[q]
      BY <2>2, <2>4
    <3>2. Demotes(q) /\ req[q].fresh
      BY <1>2, <3>1 DEF Demotes
    <3>3. PICK v \in Users \ {req[q].user} : Manages(v)
      BY <1>0, <1>2, <3>2 DEF Decided
    <3>4. Manages(v)'
      <4>1. CASE v = w
        BY <2>4, <3>3, <4>1 DEF Manages, Managing
      <4>2. CASE v # w
        BY <3>3, <4>2
      <4> QED BY <4>1, <4>2
    <3> QED BY <3>1, <3>3, <3>4
  <2> QED BY <2>3, <2>4
<1>3. ManagerRemains'
  BY <1>1 DEF ManagerRemains
<1>4. Decided'
  BY <1>2 DEF Decided
<1> QED BY <1>3, <1>4

LEMMA ManagerStep == TypeOK /\ Decided /\ ManagerRemains /\ [Next]_vars => Decided' /\ ManagerRemains'
<1> SUFFICES ASSUME TypeOK, Decided, ManagerRemains, [Next]_vars PROVE Decided' /\ ManagerRemains'
  OBVIOUS
<1>0. members \in [Users -> MemberType]
  BY DEF TypeOK
<1>1. ASSUME NEW r \in Requests, NEW u \in Users, LeaveGroup(r, u) PROVE Decided' /\ ManagerRemains'
  <2> DEFINE x == [at |-> "remove", user |-> u, fresh |-> TRUE]
  <2>1. x \in RequestType /\ x.user = u
    BY DEF RequestType, RemovalType
  <2>2. Reads(r, x) /\ ~WouldRemoveLastActiveManager(u)
    BY <1>1 DEF LeaveGroup
  <2> HIDE DEF x
  <2> QED BY <2>1, <2>2, ReadsDecide
<1>2. ASSUME NEW r \in Requests, NEW u \in Users, NEW actor \in Users, NEW role \in Roles, NEW status \in Statuses,
             UpsertGroupMember(r, actor, u, role, status)
      PROVE Decided' /\ ManagerRemains'
  <2> DEFINE x == [at |-> "upsert", user |-> u, role |-> role, status |-> status, fresh |-> TRUE]
  <2>1. x \in RequestType /\ x.user = u /\ x.at = "upsert" /\ x.role = role /\ x.status = status
    BY DEF RequestType, UpsertType
  <2>2. Reads(r, x) /\ (~Managing(role, status) => ~WouldRemoveLastActiveManager(u))
    BY <1>2 DEF UpsertGroupMember
  <2> HIDE DEF x
  <2> QED BY <2>1, <2>2, ReadsDecide
<1>3. ASSUME NEW r \in Requests, NEW u \in Users, RequestGroupMembership(r, u) PROVE Decided' /\ ManagerRemains'
  <2> DEFINE x == [at |-> "join", user |-> u, status |-> IF visibility = "public" THEN "active" ELSE "pending"]
  <2>1. x \in RequestType /\ x.at = "join"
    BY DEF RequestType, JoinType
  <2>2. Reads(r, x)
    BY <1>3 DEF RequestGroupMembership
  <2> HIDE DEF x
  <2> QED BY <2>1, <2>2, ReadsDecide
<1>4. ASSUME NEW r \in Requests, NEW u \in Users, NEW patch \in Patches, UpdateGroupMetadata(r, u, patch)
      PROVE Decided' /\ ManagerRemains'
  <2> DEFINE x == [at |-> "metadata", user |-> u, patch |-> patch, provisions |-> FALSE, fresh |-> TRUE,
                   value |-> MergeCommunityGroupMetadata(metadata, patch)]
  <2>1. patch \in MetadataType /\ MergeCommunityGroupMetadata(metadata, patch) \in MetadataType
    BY MergeType, PatchesType DEF TypeOK
  <2>2. x \in RequestType /\ x.at = "metadata"
    BY <2>1 DEF RequestType, UpdateType
  <2>3. Reads(r, x)
    BY <1>4 DEF UpdateGroupMetadata
  <2> HIDE DEF x
  <2> QED BY <2>2, <2>3, ReadsDecide
<1>5. ASSUME NEW r \in Requests, Leaves(r) PROVE Decided' /\ ManagerRemains'
  <2>1. req[r] \in RemovalType
    BY <1>5, RequestAtStep DEF Leaves, Step
  <2>2. PICK w \in Users : w = req[r].user
    BY <2>1 DEF RemovalType
  <2>3. Demotes(r)
    BY <2>1 DEF RemovalType, Demotes
  <2>4. \A v \in Users \ {w} : Manages(v) => Manages(v)'
    BY <1>0, <1>5, <2>2 DEF Leaves, Manages
  <2>5. exists' = exists /\ Settles(r, Manages(w)) /\ Manages(w) \in BOOLEAN
    BY <1>5, <2>2 DEF Leaves, Manages, Managing
  <2> QED BY <2>1, <2>2, <2>3, <2>4, <2>5, SettlesDecided
<1>6. ASSUME NEW r \in Requests, Upserts(r) PROVE Decided' /\ ManagerRemains'
  <2>1. req[r] \in UpsertType
    BY <1>6, RequestAtStep DEF Upserts, Step
  <2>2. PICK w \in Users : w = req[r].user
    BY <2>1 DEF UpsertType
  <2>3. \A v \in Users \ {w} : Manages(v) => Manages(v)'
    BY <1>0, <1>6, <2>2 DEF Upserts, Manages
  <2>4. members'[w] = [role |-> req[r].role, status |-> req[r].status]
    BY <1>0, <1>6, <2>2 DEF Upserts
  <2>5. Manages(w)' <=> Managing(req[r].role, req[r].status)
    BY <2>4 DEF Manages, Managing
  <2> DEFINE lost == Manages(w) /\ ~Managing(req[r].role, req[r].status)
  <2>6. exists' = exists /\ Settles(r, lost) /\ lost \in BOOLEAN
    BY <1>6, <2>2 DEF Upserts, Manages, Managing
  <2>7. Manages(w) => Manages(w)' \/ (lost /\ Demotes(r))
    BY <2>1, <2>5 DEF Demotes, UpsertType
  <2> HIDE DEF lost
  <2> QED BY <2>1, <2>2, <2>3, <2>6, <2>7, SettlesDecided
<1>7. ASSUME NEW r \in Requests, req' = [req EXCEPT ![r] = Idle], UNCHANGED <<exists, raced>>,
             \A v \in Users : Manages(v) => Manages(v)'
      PROVE  Decided' /\ ManagerRemains'
  <2>1. \A q \in Requests : Demotes(q)' => req'[q] = req[q] /\ Demotes(q)
    BY <1>7, IdleHasNoStep DEF Demotes, TypeOK
  <2> QED BY <1>7, <2>1 DEF Decided, ManagerRemains
<1>8. ASSUME NEW r \in Requests, Joins(r) PROVE Decided' /\ ManagerRemains'
  BY <1>7, <1>8, JoinsManage DEF Joins
<1>9. ASSUME NEW r \in Requests, InsertRefused(r) \/ MetadataMissed(r) \/ StatementFails(r)
      PROVE Decided' /\ ManagerRemains'
  BY <1>7, <1>9 DEF InsertRefused, MetadataMissed, StatementFails, Manages
<1>10. ASSUME NEW r \in Requests, WritesMetadata(r) PROVE Decided' /\ ManagerRemains'
  <2>1. req[r] \in UpdateType
    BY <1>10, RequestAtStep DEF WritesMetadata, Step
  <2>2. UNCHANGED <<exists, members, raced>>
    BY <1>10 DEF WritesMetadata, Rewrites
  <2>3. ASSUME NEW q \in Requests, Demotes(q)' PROVE req'[q] = req[q]
    <3>1. CASE q = r
      <4>1. req'[q] = AfterUpdate(r, req[r].value)
        BY <1>10, <3>1 DEF WritesMetadata, Rewrites
      <4>2. req'[q].at \in {"idle", "provision"}
        BY <4>1, IdleHasNoStep DEF AfterUpdate
      <4> QED BY <2>3, <4>2 DEF Demotes
    <3>2. CASE q # r /\ req[q].at \in {"metadata", "provision"}
      <4>1. req'[q] = [req[q] EXCEPT !.fresh = FALSE]
        BY <1>10, <3>2 DEF WritesMetadata, Rewrites
      <4>2. req'[q].at \in {"metadata", "provision"}
        BY <3>2, <4>1, RequestAtStep DEF UpdateType, ProvisionType
      <4> QED BY <2>3, <4>2 DEF Demotes
    <3>3. CASE q # r /\ req[q].at \notin {"metadata", "provision"}
      BY <1>10, <3>3 DEF WritesMetadata, Rewrites
    <3> QED BY <3>1, <3>2, <3>3
  <2>4. \A q \in Requests : Demotes(q)' => Demotes(q)
    BY <2>3 DEF Demotes
  <2> QED BY <2>2, <2>3, <2>4 DEF Decided, ManagerRemains, Manages
<1>11. ASSUME NEW r \in Requests, ProvisionAiMatrixBot(r) PROVE Decided' /\ ManagerRemains'
  <2>1. UNCHANGED <<exists, members, raced>>
    BY <1>11 DEF ProvisionAiMatrixBot
  <2>2. req'[r].at \in {"idle", "metadata"}
    BY <1>11, IdleHasNoStep DEF ProvisionAiMatrixBot, TypeOK
  <2>3. \A q \in Requests : Demotes(q)' => req'[q] = req[q] /\ Demotes(q)
    BY <1>11, <2>2 DEF ProvisionAiMatrixBot, Demotes, TypeOK
  <2> QED BY <2>1, <2>3 DEF Decided, ManagerRemains, Manages
<1>12. ASSUME NEW u \in Users, DeleteGroup(u) PROVE Decided' /\ ManagerRemains'
  BY <1>12 DEF DeleteGroup, Decided, ManagerRemains
<1>13. ASSUME Restart PROVE Decided' /\ ManagerRemains'
  BY <1>13, IdleHasNoStep DEF Restart, Decided, Demotes, ManagerRemains, Manages
<1>14. ASSUME UNCHANGED vars PROVE Decided' /\ ManagerRemains'
  BY <1>14 DEF vars, Decided, Demotes, ManagerRemains, Manages
<1> QED
  BY <1>1, <1>2, <1>3, <1>4, <1>5, <1>6, <1>8, <1>9, <1>10, <1>11, <1>12, <1>13, <1>14
  DEF Next, RemoveGroupMember

(* A group that exists has an active manager, unless a decision was overtaken. *)
THEOREM GroupManagerRemains == Spec => []ManagerRemains
<1>1. Init => Decided /\ ManagerRemains
  BY IdleHasNoStep DEF Init, Decided, Demotes, ManagerRemains, Manages, Managing
<1> QED BY <1>1, TypeInit, TypeStep, ManagerStep, PTL DEF Spec

-----------------------------------------------------------------------------
(* The metadata.                                                             *)

\* What an update that is not out of date carries: the latest metadata with its
\* patch over it; a provisioning repeats the latest metadata.
Current ==
  \A r \in Requests : ~overwrote /\ req[r].fresh =>
    /\ req[r].at = "metadata" =>
         /\ req[r].value = MergeCommunityGroupMetadata(latest, req[r].patch)
         /\ req[r].provisions => req[r].patch = latest
    /\ req[r].at = "provision" => req[r].patch = latest

\* A step that leaves the metadata, and the updates in progress, as they are.
LEMMA CurrentKept ==
  ASSUME Current, UpdatesKept, UNCHANGED <<metadata, latest, overwrote>>,
         \A r \in Requests : req'[r].at \in {"metadata", "provision"} => req'[r] = req[r]
  PROVE  Current' /\ UpdatesKept'
BY DEF Current, UpdatesKept

LEMMA SettlesCurrent ==
  ASSUME TypeOK, NEW r \in Requests, NEW lost \in BOOLEAN, Settles(r, lost)
  PROVE  \A q \in Requests : req'[q].at \in {"metadata", "provision"} => req'[q] = req[q]
<1> SUFFICES ASSUME NEW q \in Requests, req'[q].at \in {"metadata", "provision"} PROVE req'[q] = req[q]
  OBVIOUS
<1>1. q # r
  BY IdleHasNoStep DEF Settles
<1>2. CASE lost /\ req[q].at \in {"remove", "upsert"}
  <2>1. req'[q] = [req[q] EXCEPT !.fresh = FALSE]
    BY <1>1, <1>2 DEF Settles
  <2>2. req'[q].at \in {"remove", "upsert"}
    BY <1>2, <2>1, RequestAtStep DEF RemovalType, UpsertType
  <2> QED BY <2>2
<1>3. CASE ~(lost /\ req[q].at \in {"remove", "upsert"})
  BY <1>1, <1>3 DEF Settles
<1> QED BY <1>2, <1>3

LEMMA CurrentStep == TypeOK /\ Current /\ UpdatesKept /\ [Next]_vars => Current' /\ UpdatesKept'
<1> SUFFICES ASSUME TypeOK, Current, UpdatesKept, [Next]_vars PROVE Current' /\ UpdatesKept'
  OBVIOUS
<1>1. ASSUME NEW r \in Requests, NEW x, x.at \notin {"metadata", "provision"},
             req' = [req EXCEPT ![r] = x], UNCHANGED <<metadata, latest, overwrote>>
      PROVE  Current' /\ UpdatesKept'
  <2>1. \A q \in Requests : req'[q].at \in {"metadata", "provision"} => req'[q] = req[q]
    BY <1>1 DEF TypeOK
  <2> QED BY <1>1, <2>1, CurrentKept
<1>2. ASSUME NEW r \in Requests, NEW u \in Users, LeaveGroup(r, u) PROVE Current' /\ UpdatesKept'
  <2>1. [at |-> "remove", user |-> u, fresh |-> TRUE].at \notin {"metadata", "provision"}
    OBVIOUS
  <2> QED BY <1>1, <1>2, <2>1 DEF LeaveGroup, Reads
<1>3. ASSUME NEW r \in Requests, NEW u \in Users, NEW actor \in Users, NEW role \in Roles, NEW status \in Statuses,
             UpsertGroupMember(r, actor, u, role, status)
      PROVE Current' /\ UpdatesKept'
  <2>1. [at |-> "upsert", user |-> u, role |-> role, status |-> status, fresh |-> TRUE].at \notin {"metadata", "provision"}
    OBVIOUS
  <2> QED BY <1>1, <1>3, <2>1 DEF UpsertGroupMember, Reads
<1>4. ASSUME NEW r \in Requests, NEW u \in Users, RequestGroupMembership(r, u) PROVE Current' /\ UpdatesKept'
  <2> DEFINE x == [at |-> "join", user |-> u, status |-> IF visibility = "public" THEN "active" ELSE "pending"]
  <2>1. x.at \notin {"metadata", "provision"}
    OBVIOUS
  <2>2. req' = [req EXCEPT ![r] = x] /\ UNCHANGED <<metadata, latest, overwrote>>
    BY <1>4 DEF RequestGroupMembership, Reads
  <2> HIDE DEF x
  <2> QED BY <1>1, <2>1, <2>2
<1>5. ASSUME NEW r \in Requests, NEW u \in Users, NEW patch \in Patches, UpdateGroupMetadata(r, u, patch)
      PROVE Current' /\ UpdatesKept'
  <2> DEFINE x == [at |-> "metadata", user |-> u, patch |-> patch, provisions |-> FALSE, fresh |-> TRUE,
                   value |-> MergeCommunityGroupMetadata(metadata, patch)]
  <2>1. req' = [req EXCEPT ![r] = x] /\ UNCHANGED <<metadata, latest, overwrote>>
    BY <1>5 DEF UpdateGroupMetadata, Reads
  <2>2. /\ x.at = "metadata" /\ ~x.provisions /\ x.patch = patch
        /\ x.value = MergeCommunityGroupMetadata(metadata, patch)
    OBVIOUS
  <2> HIDE DEF x
  <2>3. \A q \in Requests : q # r => req'[q] = req[q]
    BY <2>1 DEF TypeOK
  <2>4. req'[r] = x
    BY <2>1 DEF TypeOK
  <2>5. ~overwrote => x.value = MergeCommunityGroupMetadata(latest, x.patch)
    BY <2>2 DEF UpdatesKept
  <2>6. Current'
    BY <2>1, <2>2, <2>3, <2>4, <2>5 DEF Current
  <2> QED BY <2>1, <2>6 DEF UpdatesKept
<1>6. ASSUME NEW r \in Requests, Leaves(r) PROVE Current' /\ UpdatesKept'
  <2>1. Settles(r, Manages(req[r].user)) /\ Manages(req[r].user) \in BOOLEAN
    BY <1>6 DEF Leaves, Manages, Managing
  <2> QED BY <1>6, <2>1, SettlesCurrent, CurrentKept DEF Leaves
<1>7. ASSUME NEW r \in Requests, Upserts(r) PROVE Current' /\ UpdatesKept'
  <2> DEFINE lost == Manages(req[r].user) /\ ~Managing(req[r].role, req[r].status)
  <2>1. Settles(r, lost) /\ lost \in BOOLEAN
    BY <1>7 DEF Upserts, Manages, Managing
  <2> HIDE DEF lost
  <2> QED BY <1>7, <2>1, SettlesCurrent, CurrentKept DEF Upserts
<1>8. ASSUME NEW r \in Requests, Joins(r) \/ InsertRefused(r) \/ MetadataMissed(r) \/ StatementFails(r)
      PROVE Current' /\ UpdatesKept'
  BY <1>1, <1>8, IdleHasNoStep DEF Joins, InsertRefused, MetadataMissed, StatementFails
<1>9. ASSUME NEW r \in Requests, WritesMetadata(r) PROVE Current' /\ UpdatesKept'
  <2>1. req[r] \in UpdateType
    BY <1>9, RequestAtStep DEF WritesMetadata, Step
  <2>2. req[r].at = "metadata" /\ latest \in MetadataType /\ req[r].provisions \in BOOLEAN
    BY <2>1 DEF UpdateType, TypeOK
  <2>3. Rewrites(r, req[r].value, AfterUpdate(r, req[r].value))
    BY <1>9 DEF WritesMetadata
  <2>4. ~overwrote' => metadata' = latest'
    <3>1. HAVE ~overwrote'
    <3>2. ~overwrote /\ req[r].fresh
      BY <2>3, <3>1 DEF Rewrites
    <3>3. req[r].value = MergeCommunityGroupMetadata(latest, req[r].patch)
      BY <2>2, <3>2 DEF Current
    <3>4. CASE req[r].provisions
      <4>1. req[r].value = latest
        BY <2>2, <3>2, <3>3, <3>4, MergeOfWhole DEF Current
      <4> QED BY <2>3, <3>4, <4>1 DEF Rewrites
    <3>5. CASE ~req[r].provisions
      BY <2>3, <3>3, <3>5 DEF Rewrites
    <3> QED BY <3>4, <3>5
  <2>5. ASSUME NEW q \in Requests, req'[q].at \in {"metadata", "provision"}, req'[q].fresh, ~overwrote'
        PROVE  q = r /\ req'[q].at = "provision" /\ req'[q].patch = latest'
    <3>1. CASE q = r
      <4>1. req'[q] = AfterUpdate(r, req[r].value)
        BY <2>3, <3>1 DEF Rewrites
      <4>2. req'[q].at = "provision" /\ req'[q].patch = req[r].value
        BY <2>5, <4>1, IdleHasNoStep DEF AfterUpdate
      <4>3. metadata' = req[r].value
        BY <2>3 DEF Rewrites
      <4> QED BY <2>4, <2>5, <3>1, <4>2, <4>3
    <3>2. CASE q # r /\ req[q].at \in {"metadata", "provision"}
      <4>1. req'[q] = [req[q] EXCEPT !.fresh = FALSE]
        BY <2>3, <3>2 DEF Rewrites
      <4>2. req'[q].fresh = FALSE
        BY <3>2, <4>1, RequestAtStep DEF UpdateType, ProvisionType
      <4> QED BY <2>5, <4>2
    <3>3. CASE q # r /\ req[q].at \notin {"metadata", "provision"}
      BY <2>3, <2>5, <3>3 DEF Rewrites
    <3> QED BY <3>1, <3>2, <3>3
  <2>6. Current'
    <3> SUFFICES ASSUME NEW q \in Requests, ~overwrote', req'[q].fresh
                 PROVE  /\ req'[q].at = "metadata" =>
                             /\ req'[q].value = MergeCommunityGroupMetadata(latest', req'[q].patch)
                             /\ req'[q].provisions => req'[q].patch = latest'
                        /\ req'[q].at = "provision" => req'[q].patch = latest'
      BY DEF Current, MergeCommunityGroupMetadata
    <3> QED BY <2>5
  <2> QED BY <2>4, <2>6 DEF UpdatesKept
<1>10. ASSUME NEW r \in Requests, ProvisionAiMatrixBot(r) PROVE Current' /\ UpdatesKept'
  <2>1. req[r] \in ProvisionType
    BY <1>10, RequestAtStep DEF ProvisionAiMatrixBot, Step
  <2>2. UNCHANGED <<metadata, latest, overwrote>>
    BY <1>10 DEF ProvisionAiMatrixBot
  <2> DEFINE x == [at |-> "metadata", user |-> req[r].user, patch |-> req[r].patch, provisions |-> TRUE,
                   fresh |-> req[r].fresh, value |-> MergeCommunityGroupMetadata(metadata, req[r].patch)]
  <2>3. req' = [req EXCEPT ![r] = x] \/ req' = [req EXCEPT ![r] = Idle]
    BY <1>10 DEF ProvisionAiMatrixBot
  <2>4. /\ x.at = "metadata" /\ x.patch = req[r].patch /\ x.fresh = req[r].fresh
        /\ x.value = MergeCommunityGroupMetadata(metadata, req[r].patch)
    OBVIOUS
  <2> HIDE DEF x
  <2>5. CASE req' = [req EXCEPT ![r] = Idle]
    BY <1>1, <2>2, <2>5, IdleHasNoStep
  <2>6. CASE req' = [req EXCEPT ![r] = x]
    <3>1. req'[r] = x /\ \A q \in Requests : q # r => req'[q] = req[q]
      BY <2>6 DEF TypeOK
    <3>2. req[r].at = "provision"
      BY <2>1 DEF ProvisionType
    <3>3. ~overwrote /\ x.fresh => x.patch = latest /\ x.value = MergeCommunityGroupMetadata(latest, x.patch)
      BY <2>4, <3>2 DEF Current, UpdatesKept
    <3>4. Current'
      BY <2>2, <2>4, <3>1, <3>3 DEF Current
    <3> QED BY <2>2, <3>4 DEF UpdatesKept
  <2> QED BY <2>3, <2>5, <2>6
<1>11. ASSUME NEW u \in Users, DeleteGroup(u) PROVE Current' /\ UpdatesKept'
  BY <1>11, CurrentKept DEF DeleteGroup
<1>12. ASSUME Restart PROVE Current' /\ UpdatesKept'
  BY <1>12, IdleHasNoStep, CurrentKept DEF Restart
<1>13. ASSUME UNCHANGED vars PROVE Current' /\ UpdatesKept'
  BY <1>13, CurrentKept DEF vars
<1> QED
  BY <1>2, <1>3, <1>4, <1>5, <1>6, <1>7, <1>8, <1>9, <1>10, <1>11, <1>12, <1>13 DEF Next, RemoveGroupMember

(* What requests set in the metadata stays, unless an update was overtaken.  *)
THEOREM GroupUpdatesKept == Spec => []UpdatesKept
<1>1. Init => Current /\ UpdatesKept
  BY IdleHasNoStep DEF Init, Current, UpdatesKept
<1> QED BY <1>1, TypeInit, TypeStep, CurrentStep, PTL DEF Spec
=============================================================================
