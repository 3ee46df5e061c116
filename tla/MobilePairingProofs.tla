------------------------- MODULE MobilePairingProofs -------------------------
(***************************************************************************)
(* Proofs about MobilePairing, for any devices, codes, users and requests,  *)
(* any life of a code, and any number of store errors and restarts.         *)
(***************************************************************************)
EXTENDS MobilePairing, TLAPS

USE PairingAssumption

-----------------------------------------------------------------------------
(* The inductive invariant.                                                  *)

\* A code is in one store at most, and in none before it was drawn.
StoredOnce ==
  \A c \in Codes :
    /\ sessions["postgres"][c].status = "none" \/ sessions["memory"][c].status = "none"
    /\ c \notin issued => \A s \in Stores : sessions[s][c].status = "none"

\* The memory is empty and unused until the store is degraded.
MemoryUnused ==
  /\ ~degraded => \A c \in Codes : sessions["memory"][c].status = "none"
  /\ \A r \in Requests : req[r] # Idle /\ req[r].on = "memory" => degraded

\* A claimed session has a device of the user who created it.
ClaimedByOwner ==
  \A s \in Stores, c \in Codes :
    sessions[s][c].status \in {"claimed", "confirmed"} =>
      /\ sessions[s][c].device \in Devices
      /\ sessions[s][c].createdBy = Owner[sessions[s][c].device]

\* What a request carries from one call to the next.
RequestsKnow ==
  \A r \in Requests : req[r] # Idle =>
    /\ req[r].code \in issued
    /\ req[r].at \in {"findToClaim", "claim"} =>
         req[r].device \in Devices /\ req[r].user = Owner[req[r].device]
    /\ req[r].at = "claim" =>
         \A s \in Stores : sessions[s][req[r].code].status # "none" =>
           sessions[s][req[r].code].createdBy = req[r].user
    /\ req[r].at = "pair" =>
         /\ req[r].device \in Devices
         /\ ConfirmedFor(req[r].code, req[r].device)
         /\ req[r].on = "postgres" => sessions["postgres"][req[r].code].status = "confirmed"

\* A device in the table has its session there too.
RowsConfirmed ==
  \A d \in Devices : devices["postgres"][d].code # None =>
    sessions["postgres"][devices["postgres"][d].code].status = "confirmed"

\* A code whose confirmations came one after the other.
Uncontested ==
  \A c \in Codes \ contested :
    /\ \A q, r \in Requests : Confirming(q, c) /\ Confirming(r, c) => q = r
    /\ pairings[c] <= 1
    /\ pairings[c] # 0 =>
         c \in issued /\ \A s \in Stores : sessions[s][c].status \notin {"pending", "claimed"}
    /\ \A r \in Requests : Confirming(r, c) /\ req[r].at # "findToConfirm" => pairings[c] = 0

\* A confirmation that is not cut off stores the device, or is about to.
ConfirmedOnItsWay ==
  \A c \in Codes \ (contested \cup cut) :
    sessions["postgres"][c].status = "confirmed" /\ pairings[c] = 0 =>
      \E r \in Requests : req[r].at = "pair" /\ req[r].code = c

\* A store that is not in use may accept a bundle once more.
Kept(s, e) == IF e \in acks[s] THEN 1 ELSE 0
AcceptedByStore ==
  \A e \in Envelopes :
    /\ ~degraded => accepted[e] <= faults + Kept("postgres", e)
    /\ degraded => accepted[e] + 1 <= faults + Kept("postgres", e) + Kept("memory", e)

PairingInv ==
  /\ TypeOK
  /\ StoredOnce
  /\ MemoryUnused
  /\ ClaimedByOwner
  /\ RequestsKnow
  /\ RowsConfirmed
  /\ CodePairsClaimedDevice
  /\ Uncontested
  /\ ConfirmedOnItsWay
  /\ AcceptedByStore

-----------------------------------------------------------------------------
LEMMA ActiveIsStore == Active \in Stores
BY DEF Active, Stores

LEMMA IdleHasNoStep == Idle.at = "idle"
BY DEF Idle

\* A request at a step has the fields of a request.
LEMMA RequestAtStep ==
  ASSUME TypeOK, NEW r \in Requests, req[r].at # "idle"
  PROVE  req[r] \in RequestType /\ req[r] # Idle
BY IdleHasNoStep DEF TypeOK

LEMMA ExpireType ==
  ASSUME NEW x \in SessionType, NEW n \in Nat
  PROVE  Expire(x, n) \in SessionType
BY DEF Expire, SessionType

LEMMA EmptyType ==
  /\ NoSessions \in [Codes -> SessionType]
  /\ NoDevices \in [Devices -> DeviceType]
BY DEF NoSessions, NoDevices, Unknown, NoDevice, SessionType, DeviceType

LEMMA TypeInit == Init => TypeOK
<1> SUFFICES ASSUME Init PROVE TypeOK
  OBVIOUS
<1>1. sessions \in [Stores -> [Codes -> SessionType]] /\ devices \in [Stores -> [Devices -> DeviceType]]
  BY EmptyType DEF Init
<1>2. acks \in [Stores -> SUBSET Envelopes] /\ req \in [Requests -> {Idle} \cup RequestType]
  BY DEF Init
<1> QED BY <1>1, <1>2 DEF Init, TypeOK

LEMMA TypeStep == TypeOK /\ [Next]_vars => TypeOK'
<1> SUFFICES ASSUME TypeOK, [Next]_vars PROVE TypeOK'
  OBVIOUS
<1> USE ActiveIsStore
<1>1. ASSUME NEW u \in Users, NEW c \in Codes, CreatePairingSession(u, c) PROVE TypeOK'
  <2>1. [status |-> "pending", createdBy |-> u, expiresAt |-> clock + Ttl, device |-> None] \in SessionType
    BY DEF SessionType, TypeOK
  <2> QED BY <1>1, <2>1 DEF CreatePairingSession, TypeOK, history
<1>2. ASSUME NEW d \in Devices, RegisterDevice(d) PROVE TypeOK'
  <2>1. devices[Active][d] \in DeviceType
    BY DEF TypeOK
  <2>2. [devices[Active][d] EXCEPT !.status = "paired"] \in DeviceType
    BY <2>1 DEF DeviceType
  <2>3. devices' \in [Stores -> [Devices -> DeviceType]]
    BY <1>2, <2>2 DEF RegisterDevice, TypeOK
  <2> QED BY <1>2, <2>3 DEF RegisterDevice, TypeOK, history, world
<1>3. ASSUME NEW d \in Devices, RevokeDevice(d) PROVE TypeOK'
  <2>1. devices[Active][d] \in DeviceType
    BY DEF TypeOK
  <2>2. [devices[Active][d] EXCEPT !.status = "revoked"] \in DeviceType
    BY <2>1 DEF DeviceType
  <2>3. devices' \in [Stores -> [Devices -> DeviceType]]
    BY <1>3, <2>2 DEF RevokeDevice, TypeOK
  <2> QED BY <1>3, <2>3 DEF RevokeDevice, TypeOK, history, world
<1>4. ASSUME NEW e \in Envelopes, IngestMeshBundle(e) PROVE TypeOK'
  BY <1>4 DEF IngestMeshBundle, TypeOK, world
<1>5. ASSUME NEW e \in Envelopes, IngestFails(e) PROVE TypeOK'
  BY <1>5 DEF IngestFails, Fault, TypeOK, history, Stores
<1>6. ASSUME NEW r \in Requests, NEW c \in issued, NEW d \in Devices, PairingClaim(r, d, c) PROVE TypeOK'
  BY <1>6 DEF PairingClaim, Begin, TypeOK, RequestType, history, world
<1>7. ASSUME NEW r \in Requests, NEW c \in issued, NEW u \in Users, PairingConfirm(r, u, c) PROVE TypeOK'
  BY <1>7 DEF PairingConfirm, Begin, TypeOK, RequestType, history, world
<1>8. ASSUME NEW r \in Requests, ExpirePairingSessions(r) PROVE TypeOK'
  <2>1. req[r] \in RequestType
    BY <1>8, RequestAtStep DEF ExpirePairingSessions
  <2>2. \A c \in Codes : Expire(sessions["postgres"][c], req[r].now) \in SessionType
    BY <2>1, ExpireType DEF TypeOK, RequestType, Stores
  <2> QED BY <1>8, <2>1, <2>2 DEF ExpirePairingSessions, TypeOK, RequestType, history, world
<1>9. ASSUME PairingStatus PROVE TypeOK'
  <2>1. \A c \in Codes : Expire(sessions["postgres"][c], clock) \in SessionType
    BY ExpireType DEF TypeOK, Stores
  <2> QED BY <1>9, <2>1 DEF PairingStatus, TypeOK, history, world
<1>10. ASSUME NEW r \in Requests, FindToClaim(r) PROVE TypeOK'
  <2>1. req[r] \in RequestType
    BY <1>10, RequestAtStep DEF FindToClaim, Ready
  <2> QED BY <1>10, <2>1 DEF FindToClaim, Goes, Call, TypeOK, RequestType, history, world
<1>11. ASSUME NEW r \in Requests, ClaimPairingSession(r) PROVE TypeOK'
  <2>1. req[r] \in RequestType
    BY <1>11, RequestAtStep DEF ClaimPairingSession, Ready
  <2>2. sessions[req[r].on][req[r].code] \in SessionType /\ req[r].device \in Devices \cup {None}
    BY <2>1 DEF TypeOK, RequestType
  <2>3. [sessions[req[r].on][req[r].code] EXCEPT !.status = "claimed", !.device = req[r].device] \in SessionType
    BY <2>2 DEF SessionType
  <2>4. sessions' \in [Stores -> [Codes -> SessionType]]
    BY <1>11, <2>1, <2>3 DEF ClaimPairingSession, TypeOK, RequestType
  <2> QED BY <1>11, <2>4 DEF ClaimPairingSession, TypeOK, history, world
<1>12. ASSUME NEW r \in Requests, ClaimLost(r) PROVE TypeOK'
  BY <1>12 DEF ClaimLost, Goes, TypeOK, history, world
<1>13. ASSUME NEW r \in Requests, FindToConfirm(r) PROVE TypeOK'
  <2>1. req[r] \in RequestType
    BY <1>13, RequestAtStep DEF FindToConfirm, Ready
  <2> QED BY <1>13, <2>1 DEF FindToConfirm, Goes, Call, TypeOK, RequestType, history, world
<1>14. ASSUME NEW r \in Requests, req[r] \in RequestType PROVE Pairing(r) \in RequestType
  <2>1. sessions[req[r].on][req[r].code] \in SessionType
    BY <1>14 DEF TypeOK, RequestType
  <2>2. sessions[req[r].on][req[r].code].device \in Devices \cup {None}
    BY <2>1 DEF SessionType
  <2> QED BY <1>14, <2>2 DEF Pairing, Call, RequestType
<1>15. ASSUME NEW r \in Requests, ConfirmPairingSession(r) PROVE TypeOK'
  <2>1. req[r] \in RequestType
    BY <1>15, RequestAtStep DEF ConfirmPairingSession, Ready
  <2>2. sessions[req[r].on][req[r].code] \in SessionType
    BY <2>1 DEF TypeOK, RequestType
  <2>3. [sessions[req[r].on][req[r].code] EXCEPT !.status = "confirmed"] \in SessionType
    BY <2>2 DEF SessionType
  <2>4. sessions' \in [Stores -> [Codes -> SessionType]]
    BY <1>15, <2>1, <2>3 DEF ConfirmPairingSession, TypeOK, RequestType
  <2> QED BY <1>15, <2>1, <2>4, <1>14 DEF ConfirmPairingSession, TypeOK, history, world
<1>16. ASSUME NEW r \in Requests, ConfirmLost(r) \/ RereadConfirmed(r) PROVE TypeOK'
  <2>1. req[r] \in RequestType
    BY <1>16, RequestAtStep DEF ConfirmLost, RereadConfirmed, Ready
  <2>2. AfterConfirm(r) \in {Idle} \cup RequestType
    BY <1>14, <2>1 DEF AfterConfirm
  <2>3. [req[r] EXCEPT !.at = "rereadConfirmed"] \in RequestType
    BY <2>1 DEF RequestType
  <2>4. PICK x \in {Idle} \cup RequestType : Goes(r, x)
    BY <1>16, <2>2, <2>3 DEF ConfirmLost, RereadConfirmed
  <2> QED BY <2>4 DEF Goes, TypeOK, history, world
<1>17. ASSUME NEW r \in Requests, UpsertDevice(r) PROVE TypeOK'
  <2>1. req[r] \in RequestType
    BY <1>17, RequestAtStep DEF UpsertDevice
  <2>2. [status |-> "paired", code |-> req[r].code] \in DeviceType
    BY <2>1 DEF DeviceType, RequestType
  <2>3. devices' \in [Stores -> [Devices -> DeviceType]]
    BY <1>17, <2>1, <2>2 DEF UpsertDevice, TypeOK, RequestType
  <2> QED BY <1>17, <2>1, <2>3 DEF UpsertDevice, TypeOK, RequestType, world
<1>18. ASSUME NEW r \in Requests, RequestFails(r) PROVE TypeOK'
  <2>1. req[r] \in RequestType
    BY <1>18, RequestAtStep DEF RequestFails
  <2>2. cut' \subseteq Codes
    BY <1>18, <2>1 DEF RequestFails, Cuts, TypeOK, RequestType
  <2> QED BY <1>18, <2>2 DEF RequestFails, Fault, TypeOK
<1>19. ASSUME CreateFails PROVE TypeOK'
  BY <1>19 DEF CreateFails, Fault, TypeOK, history
<1>20. ASSUME Restart PROVE TypeOK'
  <2>1. \A r \in Requests : req[r].at = "pair" => req[r].code \in Codes
    BY RequestAtStep DEF RequestType
  <2>2. cut' \subseteq Codes
    BY <1>20, <2>1 DEF Restart, Cuts, TypeOK
  <2>3. sessions' \in [Stores -> [Codes -> SessionType]]
    BY <1>20, EmptyType DEF Restart, TypeOK
  <2>4. devices' \in [Stores -> [Devices -> DeviceType]]
    BY <1>20, EmptyType DEF Restart, TypeOK
  <2>5. acks' \in [Stores -> SUBSET Envelopes]
    <3>1. acks' = [acks EXCEPT !["memory"] = {}]
      BY <1>20 DEF Restart
    <3> QED BY <3>1 DEF TypeOK
  <2>7. req' \in [Requests -> {Idle} \cup RequestType]
    <3>1. req' = [r \in Requests |-> Idle]
      BY <1>20 DEF Restart
    <3> QED BY <3>1
  <2>6. faults' \in Nat /\ restarts' \in Nat
    BY <1>20 DEF Restart, Fault, TypeOK
  <2>8. degraded' \in BOOLEAN
    BY <1>20 DEF Restart
  <2> QED BY <1>20, <2>2, <2>3, <2>4, <2>5, <2>6, <2>7, <2>8 DEF Restart, TypeOK
<1>21. ASSUME Tick PROVE TypeOK'
  BY <1>21 DEF Tick, TypeOK, history
<1>22. ASSUME UNCHANGED vars PROVE TypeOK'
  BY <1>22 DEF vars, TypeOK
<1>23. Registering \subseteq Devices /\ issued \subseteq Codes
  BY DEF TypeOK
<1> QED
  BY <1>1, <1>2, <1>3, <1>4, <1>5, <1>6, <1>7, <1>8, <1>9, <1>10, <1>11, <1>12, <1>13, <1>15,
     <1>16, <1>17, <1>18, <1>19, <1>20, <1>21, <1>22, <1>23 DEF Next

-----------------------------------------------------------------------------
(* What a step does to a session.                                            *)

\* What a request sees is what is stored, unless it is due.
LEMMA SeenIsStored ==
  ASSUME NEW r \in Requests, Seen(r).status # "expired"
  PROVE  Seen(r) = sessions[req[r].on][req[r].code]
BY DEF Seen, Expire

LEMMA ExpireMoves ==
  ASSUME NEW x \in SessionType, NEW n
  PROVE  \/ Expire(x, n) = x
         \/ x.status \in {"pending", "claimed"} /\ Expire(x, n) = [x EXCEPT !.status = "expired"]
BY DEF Expire, Due

Claims(r, s, c) ==
  /\ req[r].at = "claim" /\ req[r].on = s /\ req[r].code = c
  /\ sessions[s][c].status = "pending"
  /\ sessions'[s][c] = [sessions[s][c] EXCEPT !.status = "claimed", !.device = req[r].device]

Confirms(r, s, c) ==
  /\ req[r].at = "confirm" /\ req[r].on = s /\ req[r].code = c
  /\ req'[r] = Pairing(r)
  /\ sessions[s][c].status = "claimed"
  /\ sessions'[s][c] = [sessions[s][c] EXCEPT !.status = "confirmed"]

Moves(s, c) ==
  \/ sessions'[s][c] = sessions[s][c]
  \/ s = "memory" /\ Restart /\ sessions'[s][c] = Unknown
  \/ /\ c \notin issued /\ c \in issued' /\ s = Active
     /\ sessions'[s][c].status = "pending"
  \/ /\ sessions[s][c].status \in {"pending", "claimed"}
     /\ sessions'[s][c] = [sessions[s][c] EXCEPT !.status = "expired"]
  \/ \E r \in Requests : Claims(r, s, c) \/ Confirms(r, s, c)

LEMMA SessionMoves ==
  ASSUME TypeOK, [Next]_vars, NEW s \in Stores, NEW c \in Codes
  PROVE  Moves(s, c)
<1>1. sessions[s][c] \in SessionType
  BY DEF TypeOK
<1>2. ASSUME NEW u \in Users, NEW k \in Codes, CreatePairingSession(u, k) PROVE Moves(s, c)
  <2>1. CASE s = Active /\ c = k
    BY <1>2, <2>1 DEF CreatePairingSession, TypeOK, Moves
  <2>2. CASE ~(s = Active /\ c = k)
    BY <1>2, <2>2, ActiveIsStore DEF CreatePairingSession, TypeOK, Moves
  <2> QED BY <2>1, <2>2
<1>3. ASSUME NEW r \in Requests, ExpirePairingSessions(r) PROVE Moves(s, c)
  <2>1. sessions'[s][c] = IF s = "postgres" THEN Expire(sessions[s][c], req[r].now) ELSE sessions[s][c]
    BY <1>3 DEF ExpirePairingSessions, TypeOK
  <2> QED BY <1>1, <2>1, ExpireMoves DEF Moves
<1>4. ASSUME PairingStatus PROVE Moves(s, c)
  <2>1. sessions'[s][c] = IF s = "postgres" /\ ~degraded THEN Expire(sessions[s][c], clock) ELSE sessions[s][c]
    BY <1>4 DEF PairingStatus, TypeOK
  <2> QED BY <1>1, <2>1, ExpireMoves DEF Moves
<1>5. ASSUME NEW r \in Requests, ClaimPairingSession(r) PROVE Moves(s, c)
  <2>1. req[r] \in RequestType
    BY <1>5, RequestAtStep DEF ClaimPairingSession, Ready
  <2>2. sessions[req[r].on][req[r].code].status = "pending"
    BY <1>5, SeenIsStored DEF ClaimPairingSession
  <2>3. CASE s = req[r].on /\ c = req[r].code
    <3>1. sessions'[s][c] = [sessions[s][c] EXCEPT !.status = "claimed", !.device = req[r].device]
      BY <1>5, <2>1, <2>3 DEF ClaimPairingSession, TypeOK, RequestType
    <3> QED BY <1>5, <2>2, <2>3, <3>1 DEF ClaimPairingSession, Ready, Claims, Moves
  <2>4. CASE ~(s = req[r].on /\ c = req[r].code)
    BY <1>5, <2>1, <2>4 DEF ClaimPairingSession, TypeOK, RequestType, Moves
  <2> QED BY <2>3, <2>4
<1>6. ASSUME NEW r \in Requests, ConfirmPairingSession(r) PROVE Moves(s, c)
  <2>1. req[r] \in RequestType
    BY <1>6, RequestAtStep DEF ConfirmPairingSession, Ready
  <2>2. sessions[req[r].on][req[r].code].status = "claimed"
    BY <1>6, SeenIsStored DEF ConfirmPairingSession
  <2>3. CASE s = req[r].on /\ c = req[r].code
    <3>1. sessions'[s][c] = [sessions[s][c] EXCEPT !.status = "confirmed"]
      BY <1>6, <2>1, <2>3 DEF ConfirmPairingSession, TypeOK, RequestType
    <3>2. req'[r] = Pairing(r)
      BY <1>6 DEF ConfirmPairingSession, TypeOK
    <3>3. req[r].at = "confirm"
      BY <1>6 DEF ConfirmPairingSession, Ready
    <3>4. Confirms(r, s, c)
      BY <2>2, <2>3, <3>1, <3>2, <3>3 DEF Confirms
    <3> QED BY <3>4 DEF Moves
  <2>4. CASE ~(s = req[r].on /\ c = req[r].code)
    BY <1>6, <2>1, <2>4 DEF ConfirmPairingSession, TypeOK, RequestType, Moves
  <2> QED BY <2>3, <2>4
<1>7. ASSUME Restart PROVE Moves(s, c)
  <2>1. sessions'[s][c] = IF s = "memory" THEN Unknown ELSE sessions[s][c]
    BY <1>7 DEF Restart, NoSessions, TypeOK
  <2> QED BY <1>7, <2>1 DEF Moves
<1>8. ASSUME UNCHANGED sessions PROVE Moves(s, c)
  BY <1>8 DEF Moves
<1>9. \/ UNCHANGED sessions
      \/ \E u \in Users, k \in Codes : CreatePairingSession(u, k)
      \/ \E r \in Requests : ExpirePairingSessions(r) \/ ClaimPairingSession(r) \/ ConfirmPairingSession(r)
      \/ PairingStatus \/ Restart
  BY DEF Next, vars, RegisterDevice, RevokeDevice, IngestMeshBundle, IngestFails, PairingClaim, PairingConfirm,
     Begin, FindToClaim, ClaimLost, FindToConfirm, ConfirmLost, RereadConfirmed, Goes, UpsertDevice,
     RequestFails, CreateFails, Tick
<1> QED BY <1>2, <1>3, <1>4, <1>5, <1>6, <1>7, <1>8, <1>9

\* The fields of a session after a move.
LEMMA MovedFields ==
  ASSUME NEW x \in SessionType, NEW d
  PROVE  /\ [x EXCEPT !.status = "expired"].status = "expired"
         /\ [x EXCEPT !.status = "confirmed"].status = "confirmed"
         /\ [x EXCEPT !.status = "confirmed"].device = x.device
         /\ [x EXCEPT !.status = "confirmed"].createdBy = x.createdBy
         /\ [x EXCEPT !.status = "expired"].createdBy = x.createdBy
         /\ [x EXCEPT !.status = "claimed", !.device = d].status = "claimed"
         /\ [x EXCEPT !.status = "claimed", !.device = d].device = d
         /\ [x EXCEPT !.status = "claimed", !.device = d].createdBy = x.createdBy
BY DEF SessionType

LEMMA FinalStep ==
  ASSUME TypeOK, StoredOnce, [Next]_vars, NEW s \in Stores, NEW c \in Codes,
         s = "postgres" \/ ~Restart, sessions[s][c].status \in {"expired", "confirmed"}
  PROVE  sessions'[s][c] = sessions[s][c]
<1>1. c \in issued
  BY DEF StoredOnce
<1>2. Moves(s, c)
  BY SessionMoves
<1> QED BY <1>1, <1>2 DEF Moves, Claims, Confirms

LEMMA ConfirmedForStays ==
  ASSUME TypeOK, StoredOnce, [Next]_vars, ~Restart, NEW c \in Codes, NEW d, ConfirmedFor(c, d)
  PROVE  ConfirmedFor(c, d)'
BY FinalStep DEF ConfirmedFor

-----------------------------------------------------------------------------
(* The parts of the invariant, one lemma each.                               *)

LEMMA StatusNever == Unknown.status = "none"
BY DEF Unknown

LEMMA CodesStayIssued ==
  ASSUME TypeOK, [Next]_vars
  PROVE  issued \subseteq issued'
BY DEF Next, vars, CreatePairingSession, RegisterDevice, RevokeDevice, IngestMeshBundle, IngestFails,
   PairingClaim, PairingConfirm, Begin, ExpirePairingSessions, PairingStatus, FindToClaim,
   ClaimPairingSession, ClaimLost, FindToConfirm, ConfirmPairingSession, ConfirmLost, RereadConfirmed,
   Goes, UpsertDevice, RequestFails, CreateFails, Restart, Tick, history, world

LEMMA StaysDegraded ==
  ASSUME TypeOK, [Next]_vars, degraded, ~Restart
  PROVE  degraded'
BY DEF Next, vars, CreatePairingSession, RegisterDevice, RevokeDevice, IngestMeshBundle, IngestFails,
   PairingClaim, PairingConfirm, Begin, ExpirePairingSessions, PairingStatus, FindToClaim,
   ClaimPairingSession, ClaimLost, FindToConfirm, ConfirmPairingSession, ConfirmLost, RereadConfirmed,
   Goes, UpsertDevice, RequestFails, CreateFails, Tick, history, world

LEMMA StoredOnceStep ==
  ASSUME TypeOK, StoredOnce, [Next]_vars
  PROVE  StoredOnce'
<1> SUFFICES ASSUME NEW c \in Codes
             PROVE  /\ (sessions["postgres"][c].status = "none" \/ sessions["memory"][c].status = "none")'
                    /\ c \notin issued' => \A s \in Stores : sessions'[s][c].status = "none"
  BY DEF StoredOnce
<1>1. \A s \in Stores : Moves(s, c)
  BY SessionMoves
<1>2. c \notin issued => \A s \in Stores : sessions[s][c].status = "none"
  BY DEF StoredOnce
<1>3. \A s \in Stores : sessions[s][c].status = "none" /\ sessions'[s][c].status # "none"
        => c \notin issued /\ c \in issued' /\ s = Active
  BY <1>1, StatusNever DEF Moves, Claims, Confirms
<1>4. c \notin issued' => c \notin issued
  BY CodesStayIssued
<1>5. "postgres" \in Stores /\ "memory" \in Stores
  BY DEF Stores
<1>6. sessions["postgres"][c].status = "none" \/ sessions["memory"][c].status = "none"
  BY DEF StoredOnce
<1> QED BY <1>2, <1>3, <1>4, <1>5, <1>6

LEMMA ClaimedByOwnerStep ==
  ASSUME TypeOK, StoredOnce, ClaimedByOwner, RequestsKnow, [Next]_vars
  PROVE  ClaimedByOwner'
<1> SUFFICES ASSUME NEW s \in Stores, NEW c \in Codes, sessions'[s][c].status \in {"claimed", "confirmed"}
             PROVE  /\ sessions'[s][c].device \in Devices
                    /\ sessions'[s][c].createdBy = Owner[sessions'[s][c].device]
  BY DEF ClaimedByOwner
<1>0. sessions[s][c] \in SessionType
  BY DEF TypeOK
<1>1. CASE \E r \in Requests : Claims(r, s, c)
  <2>1. PICK r \in Requests : Claims(r, s, c)
    BY <1>1
  <2>2. req[r] # Idle /\ req[r].at = "claim" /\ req[r].code = c
    BY <2>1, IdleHasNoStep DEF Claims
  <2>3. req[r].device \in Devices /\ req[r].user = Owner[req[r].device]
    BY <2>2 DEF RequestsKnow
  <2>4. sessions[s][c].createdBy = req[r].user
    BY <2>1, <2>2 DEF RequestsKnow, Claims
  <2> QED BY <1>0, <2>1, <2>3, <2>4, MovedFields DEF Claims
<1>2. CASE ~\E r \in Requests : Claims(r, s, c)
  <2>1. Moves(s, c)
    BY SessionMoves
  <2>2. \/ sessions'[s][c] = sessions[s][c]
        \/ sessions[s][c].status = "claimed" /\ sessions'[s][c] = [sessions[s][c] EXCEPT !.status = "confirmed"]
    BY <1>0, <1>2, <2>1, StatusNever, MovedFields DEF Moves, Confirms
  <2>3. sessions[s][c].status \in {"claimed", "confirmed"}
    BY <2>2
  <2>4. sessions[s][c].device \in Devices /\ sessions[s][c].createdBy = Owner[sessions[s][c].device]
    BY <2>3 DEF ClaimedByOwner
  <2>5. /\ sessions'[s][c].device = sessions[s][c].device
        /\ sessions'[s][c].createdBy = sessions[s][c].createdBy
    BY <1>0, <2>2 DEF SessionType
  <2> QED BY <2>4, <2>5
<1> QED BY <1>1, <1>2

\* A request is as it was, or has ended, begun, or taken its next step.
RequestMoves(r) ==
  \/ req'[r] = req[r]
  \/ req'[r] = Idle
  \/ \E c \in issued, d \in Devices : PairingClaim(r, d, c)
  \/ \E c \in issued, u \in Users : PairingConfirm(r, u, c)
  \/ /\ req[r].at \in {"findToClaim", "findToConfirm"}
     /\ req'[r] = [req[r] EXCEPT !.swept = TRUE]
  \/ /\ req[r].at = "findToClaim" /\ Owned(r)
     /\ req'[r] = Call(req[r], "claim")
     /\ UNCHANGED sessions
  \/ /\ req[r].at = "findToConfirm" /\ Seen(r).status = "claimed"
     /\ req'[r] = Call(req[r], "confirm")
     /\ UNCHANGED sessions
  \/ /\ req[r].at \in {"confirm", "rereadConfirmed"}
     /\ req'[r] = Pairing(r)
     /\ sessions'[req[r].on][req[r].code].status = "confirmed"
     /\ sessions'[req[r].on][req[r].code].device = sessions[req[r].on][req[r].code].device
  \/ /\ req[r].at = "confirm"
     /\ req'[r] = [req[r] EXCEPT !.at = "rereadConfirmed"]

LEMMA RequestsMove ==
  ASSUME TypeOK, [Next]_vars, NEW r \in Requests
  PROVE  RequestMoves(r)
<1>1. ASSUME NEW q \in Requests, NEW c \in issued, NEW d \in Devices, PairingClaim(q, d, c) PROVE RequestMoves(r)
  BY <1>1 DEF PairingClaim, Begin, TypeOK, RequestMoves
<1>2. ASSUME NEW q \in Requests, NEW c \in issued, NEW u \in Users, PairingConfirm(q, u, c) PROVE RequestMoves(r)
  BY <1>2 DEF PairingConfirm, Begin, TypeOK, RequestMoves
<1>3. ASSUME NEW q \in Requests, ExpirePairingSessions(q) PROVE RequestMoves(r)
  BY <1>3 DEF ExpirePairingSessions, TypeOK, RequestMoves
<1>4. ASSUME NEW q \in Requests, FindToClaim(q) PROVE RequestMoves(r)
  BY <1>4 DEF FindToClaim, Ready, Goes, TypeOK, RequestMoves
<1>5. ASSUME NEW q \in Requests, ClaimPairingSession(q) \/ ClaimLost(q) PROVE RequestMoves(r)
  BY <1>5 DEF ClaimPairingSession, ClaimLost, Goes, TypeOK, RequestMoves
<1>6. ASSUME NEW q \in Requests, FindToConfirm(q) PROVE RequestMoves(r)
  BY <1>6 DEF FindToConfirm, Ready, Goes, TypeOK, RequestMoves
<1>7. ASSUME NEW q \in Requests, ConfirmPairingSession(q) PROVE RequestMoves(r)
  <2>1. req[q] \in RequestType
    BY <1>7, RequestAtStep DEF ConfirmPairingSession, Ready
  <2>2. sessions[req[q].on][req[q].code] \in SessionType
    BY <2>1 DEF TypeOK, RequestType
  <2>3. sessions'[req[q].on][req[q].code] = [sessions[req[q].on][req[q].code] EXCEPT !.status = "confirmed"]
    BY <1>7, <2>1 DEF ConfirmPairingSession, TypeOK, RequestType
  <2>4. /\ sessions'[req[q].on][req[q].code].status = "confirmed"
        /\ sessions'[req[q].on][req[q].code].device = sessions[req[q].on][req[q].code].device
    BY <2>2, <2>3, MovedFields
  <2>5. req' = [req EXCEPT ![q] = Pairing(q)] /\ req[q].at = "confirm"
    BY <1>7 DEF ConfirmPairingSession, Ready
  <2> QED BY <2>4, <2>5 DEF TypeOK, RequestMoves
<1>8. ASSUME NEW q \in Requests, ConfirmLost(q) \/ RereadConfirmed(q) PROVE RequestMoves(r)
  <2>1. CASE r # q
    BY <1>8, <2>1 DEF ConfirmLost, RereadConfirmed, Goes, TypeOK, RequestMoves
  <2>2. CASE r = q /\ req'[r] = AfterConfirm(r)
    <3>1. Seen(r).status = "confirmed" => Seen(r) = sessions[req[r].on][req[r].code]
      BY SeenIsStored
    <3> QED BY <1>8, <2>2, <3>1 DEF ConfirmLost, RereadConfirmed, Ready, Goes, AfterConfirm, RequestMoves
  <2>3. CASE r = q /\ ConfirmLost(q) /\ req'[r] = [req[r] EXCEPT !.at = "rereadConfirmed"]
    BY <2>3 DEF ConfirmLost, Ready, RequestMoves
  <2>4. r = q => \/ req'[r] = AfterConfirm(r)
                 \/ ConfirmLost(q) /\ req'[r] = [req[r] EXCEPT !.at = "rereadConfirmed"]
    BY <1>8 DEF ConfirmLost, RereadConfirmed, Goes, TypeOK
  <2> QED BY <2>1, <2>2, <2>3, <2>4
<1>9. ASSUME NEW q \in Requests, UpsertDevice(q) \/ RequestFails(q) PROVE RequestMoves(r)
  BY <1>9 DEF UpsertDevice, RequestFails, TypeOK, RequestMoves
<1>10. ASSUME Restart PROVE RequestMoves(r)
  BY <1>10 DEF Restart, RequestMoves
<1>11. ASSUME UNCHANGED req PROVE RequestMoves(r)
  BY <1>11 DEF RequestMoves
<1>12. \/ UNCHANGED req
       \/ \E q \in Requests, c \in issued, d \in Devices : PairingClaim(q, d, c)
       \/ \E q \in Requests, c \in issued, u \in Users : PairingConfirm(q, u, c)
       \/ \E q \in Requests :
            \/ ExpirePairingSessions(q) \/ FindToClaim(q) \/ ClaimPairingSession(q) \/ ClaimLost(q)
            \/ FindToConfirm(q) \/ ConfirmPairingSession(q) \/ ConfirmLost(q) \/ RereadConfirmed(q)
            \/ UpsertDevice(q) \/ RequestFails(q)
       \/ Restart
  BY DEF Next, vars, CreatePairingSession, RegisterDevice, RevokeDevice, IngestMeshBundle, IngestFails,
     PairingStatus, CreateFails, Tick
<1> QED BY <1>1, <1>2, <1>3, <1>4, <1>5, <1>6, <1>7, <1>8, <1>9, <1>10, <1>11, <1>12

LEMMA MemoryUnusedStep ==
  ASSUME TypeOK, StoredOnce, MemoryUnused, [Next]_vars
  PROVE  MemoryUnused'
<1>1. ASSUME ~degraded', NEW c \in Codes PROVE sessions'["memory"][c].status = "none"
  <2>0. "memory" \in Stores
    BY DEF Stores
  <2>1. CASE Restart
    <3>1. sessions'["memory"][c] = Unknown
      BY <2>1, <2>0 DEF Restart, NoSessions, TypeOK
    <3> QED BY <3>1, StatusNever
  <2>2. CASE ~Restart
    <3>1. ~degraded
      BY <1>1, <2>2, StaysDegraded
    <3>2. sessions["memory"][c].status = "none"
      BY <3>1 DEF MemoryUnused
    <3>3. Moves("memory", c)
      BY <2>0, SessionMoves
    <3> QED BY <3>1, <3>2, <3>3, <2>2 DEF Moves, Claims, Confirms, Active
  <2> QED BY <2>1, <2>2
<1>2. ASSUME NEW r \in Requests, req'[r] # Idle, req'[r].on = "memory" PROVE degraded'
  <2>1. ~Restart
    BY <1>2 DEF Restart
  <2>2. RequestMoves(r)
    BY RequestsMove
  <2>3. req[r] = Idle \/ req[r] \in RequestType
    BY DEF TypeOK
  <2>4. degraded \/ (req[r] # Idle /\ req[r].on = "memory")
    <3>1. Active = "memory" => degraded
      BY DEF Active
    <3>2. CASE \E c \in issued, d \in Devices : PairingClaim(r, d, c)
      BY <1>2, <3>1, <3>2 DEF PairingClaim, Begin, TypeOK
    <3>3. CASE \E c \in issued, u \in Users : PairingConfirm(r, u, c)
      BY <1>2, <3>1, <3>3 DEF PairingConfirm, Begin, TypeOK
    <3>4. CASE req[r].at # "idle" /\ req[r] # Idle /\ req'[r].on \in {req[r].on, Active}
      BY <1>2, <3>1, <3>4
    <3>5. CASE req'[r] = req[r] \/ req'[r] = Idle
      BY <1>2, <3>5
    <3>6. \/ req'[r] = req[r] \/ req'[r] = Idle
          \/ \E c \in issued, d \in Devices : PairingClaim(r, d, c)
          \/ \E c \in issued, u \in Users : PairingConfirm(r, u, c)
          \/ /\ req[r].at # "idle"
             /\ \/ req'[r] = [req[r] EXCEPT !.swept = TRUE]
                \/ req'[r] = Call(req[r], "claim")
                \/ req'[r] = Call(req[r], "confirm")
                \/ req'[r] = Pairing(r)
                \/ req'[r] = [req[r] EXCEPT !.at = "rereadConfirmed"]
      BY <2>2 DEF RequestMoves
    <3>7. ASSUME req[r] \in RequestType
          PROVE  /\ [req[r] EXCEPT !.swept = TRUE].on = req[r].on
                 /\ Call(req[r], "claim").on = Active
                 /\ Call(req[r], "confirm").on = Active
                 /\ Pairing(r).on = Active
                 /\ [req[r] EXCEPT !.at = "rereadConfirmed"].on = req[r].on
      BY <3>7 DEF RequestType, Call, Pairing
    <3> QED BY <2>3, <3>2, <3>3, <3>4, <3>5, <3>6, <3>7, IdleHasNoStep
  <2> QED BY <2>1, <2>4, StaysDegraded DEF MemoryUnused
<1> QED BY <1>1, <1>2 DEF MemoryUnused

\* A session that is in a store keeps its creator while the process lives.
LEMMA CreatorStays ==
  ASSUME TypeOK, StoredOnce, [Next]_vars, ~Restart, NEW s \in Stores, NEW c \in issued
  PROVE  /\ sessions'[s][c].status # "none" => sessions[s][c].status # "none"
         /\ sessions'[s][c].createdBy = sessions[s][c].createdBy
<1>1. c \in Codes /\ sessions[s][c] \in SessionType
  BY DEF TypeOK
<1>2. Moves(s, c)
  BY <1>1, SessionMoves
<1> QED BY <1>1, <1>2 DEF Moves, Claims, Confirms, SessionType

ToPair(r) ==
  /\ req[r].device \in Devices
  /\ ConfirmedFor(req[r].code, req[r].device)
  /\ req[r].on = "postgres" => sessions["postgres"][req[r].code].status = "confirmed"

CreatorKnown(r) ==
  \A s \in Stores : sessions[s][req[r].code].status # "none" =>
    sessions[s][req[r].code].createdBy = req[r].user

LEMMA CreatorKnownStays ==
  ASSUME TypeOK, StoredOnce, [Next]_vars, ~Restart, NEW r \in Requests, CreatorKnown(r),
         req[r].code \in issued, req'[r].code = req[r].code, req'[r].user = req[r].user
  PROVE  CreatorKnown(r)'
BY CreatorStays DEF CreatorKnown

LEMMA ToPairStays ==
  ASSUME TypeOK, StoredOnce, [Next]_vars, ~Restart, NEW r \in Requests, ToPair(r),
         req[r].code \in issued, req'[r] = req[r]
  PROVE  ToPair(r)'
<1>1. req[r].code \in Codes /\ "postgres" \in Stores
  BY DEF TypeOK, Stores
<1>2. ConfirmedFor(req[r].code, req[r].device)'
  BY <1>1, ConfirmedForStays DEF ToPair
<1> QED BY <1>1, <1>2, FinalStep DEF ToPair

LEMMA RequestsKnowStep ==
  ASSUME PairingInv, [Next]_vars
  PROVE  RequestsKnow'
<1> USE DEF PairingInv
<1> SUFFICES ASSUME NEW r \in Requests, req'[r] # Idle
             PROVE  /\ req'[r].code \in issued'
                    /\ req'[r].at \in {"findToClaim", "claim"} =>
                         req'[r].device \in Devices /\ req'[r].user = Owner[req'[r].device]
                    /\ req'[r].at = "claim" => CreatorKnown(r)'
                    /\ req'[r].at = "pair" => ToPair(r)'
  BY DEF RequestsKnow, CreatorKnown, ToPair
<1>1. ~Restart /\ issued \subseteq issued' /\ issued \subseteq Codes
  BY CodesStayIssued DEF Restart, TypeOK
<1>2. RequestMoves(r)
  BY RequestsMove
<1>3. req[r] # Idle => /\ req[r] \in RequestType
                       /\ req[r].code \in issued
                       /\ req[r].at \in {"findToClaim", "claim"} =>
                            req[r].device \in Devices /\ req[r].user = Owner[req[r].device]
                       /\ req[r].at = "claim" => CreatorKnown(r)
                       /\ req[r].at = "pair" => ToPair(r)
  BY DEF RequestsKnow, CreatorKnown, ToPair, TypeOK
<1>4. CASE req'[r] = req[r]
  BY <1>1, <1>3, <1>4, CreatorKnownStays, ToPairStays
<1>5. CASE \E c \in issued, d \in Devices : PairingClaim(r, d, c)
  BY <1>1, <1>5 DEF PairingClaim, Begin, TypeOK
<1>6. CASE \E c \in issued, u \in Users : PairingConfirm(r, u, c)
  BY <1>1, <1>6 DEF PairingConfirm, Begin, TypeOK
<1>7. CASE req[r].at \in {"findToClaim", "findToConfirm"} /\ req'[r] = [req[r] EXCEPT !.swept = TRUE]
  <2>1. req[r] \in RequestType /\ req[r] # Idle
    BY <1>7, RequestAtStep
  <2>2. /\ req'[r].at = req[r].at /\ req'[r].code = req[r].code /\ req'[r].user = req[r].user
        /\ req'[r].device = req[r].device /\ req'[r].on = req[r].on
    BY <1>7, <2>1 DEF RequestType
  <2> QED BY <1>1, <1>3, <1>7, <2>1, <2>2
<1>8. CASE req[r].at = "findToClaim" /\ Owned(r) /\ req'[r] = Call(req[r], "claim") /\ UNCHANGED sessions
  <2>1. req[r] \in RequestType /\ req[r] # Idle
    BY <1>8, RequestAtStep
  <2>2. /\ req'[r].at = "claim" /\ req'[r].code = req[r].code /\ req'[r].user = req[r].user
        /\ req'[r].device = req[r].device
    BY <1>8, <2>1 DEF RequestType, Call
  <2>3. sessions[req[r].on][req[r].code] \in SessionType /\ req[r].code \in Codes
    BY <2>1 DEF TypeOK, RequestType
  <2>4. /\ sessions[req[r].on][req[r].code].status # "none"
        /\ sessions[req[r].on][req[r].code].createdBy = req[r].user
    <3>1. \/ Seen(r) = sessions[req[r].on][req[r].code]
          \/ /\ sessions[req[r].on][req[r].code].status \in {"pending", "claimed"}
             /\ Seen(r) = [sessions[req[r].on][req[r].code] EXCEPT !.status = "expired"]
      BY <2>3, ExpireMoves DEF Seen
    <3>2. sessions[req[r].on][req[r].code].createdBy = Seen(r).createdBy
      BY <2>3, <3>1 DEF SessionType
    <3> QED BY <1>8, <3>1, <3>2 DEF Owned
  <2>5. CreatorKnown(r)
    BY <2>1, <2>3, <2>4 DEF CreatorKnown, StoredOnce, Stores, RequestType
  <2>6. CreatorKnown(r)'
    BY <1>8, <2>2, <2>5 DEF CreatorKnown
  <2> QED BY <1>1, <1>3, <1>8, <2>1, <2>2, <2>6
<1>9. CASE req[r].at = "findToConfirm" /\ req'[r] = Call(req[r], "confirm")
  <2>1. req[r] \in RequestType /\ req[r] # Idle
    BY <1>9, RequestAtStep
  <2> QED BY <1>1, <1>3, <1>9, <2>1 DEF RequestType, Call
<1>10. CASE /\ req[r].at \in {"confirm", "rereadConfirmed"}
            /\ req'[r] = Pairing(r)
            /\ sessions'[req[r].on][req[r].code].status = "confirmed"
            /\ sessions'[req[r].on][req[r].code].device = sessions[req[r].on][req[r].code].device
  <2>1. req[r] \in RequestType /\ req[r] # Idle
    BY <1>10, RequestAtStep
  <2>2. req[r].on \in Stores /\ req[r].code \in Codes
    BY <2>1 DEF RequestType
  <2>9. PICK s \in Stores, c \in Codes : s = req[r].on /\ c = req[r].code
    BY <2>2
  <2>10. PICK d : d = sessions'[s][c].device
    OBVIOUS
  <2>3. s \in Stores /\ c \in Codes /\ s = req[r].on /\ c = req[r].code /\ d = sessions'[s][c].device
    BY <2>9, <2>10
  <2>4. req'[r].at = "pair" /\ req'[r].code = c /\ req'[r].on = Active /\ req'[r].device = d
    BY <1>10, <2>1, <2>3 DEF RequestType, Call, Pairing
  <2>5. d \in Devices /\ sessions'[s][c].createdBy = Owner[d] /\ sessions'[s][c].status = "confirmed"
    BY <1>10, <2>3, ClaimedByOwnerStep DEF ClaimedByOwner
  <2>6. ConfirmedFor(c, d)'
    BY <2>3, <2>5 DEF ConfirmedFor
  <2>7. Active = "postgres" => s = "postgres"
    BY <2>1, <2>3 DEF Active, MemoryUnused, RequestType, Stores
  <2>8. ToPair(r)'
    BY <2>4, <2>5, <2>6, <2>7 DEF ToPair, ConfirmedFor
  <2> QED BY <1>1, <1>3, <2>1, <2>3, <2>4, <2>8
<1>11. CASE req[r].at = "confirm" /\ req'[r] = [req[r] EXCEPT !.at = "rereadConfirmed"]
  <2>1. req[r] \in RequestType /\ req[r] # Idle
    BY <1>11, RequestAtStep
  <2> QED BY <1>1, <1>3, <1>11, <2>1 DEF RequestType
<1> QED BY <1>2, <1>4, <1>5, <1>6, <1>7, <1>8, <1>9, <1>10, <1>11 DEF RequestMoves

\* The code of a stored device changes only when a confirmation stores it.
LEMMA DeviceMoves ==
  ASSUME TypeOK, [Next]_vars, NEW s \in Stores, NEW d \in Devices
  PROVE  \/ devices'[s][d].code = devices[s][d].code
         \/ s = "memory" /\ Restart /\ devices'[s][d].code = None
         \/ \E r \in Requests : /\ req[r].at = "pair" /\ req[r].on = s /\ req[r].device = d
                                /\ devices'[s][d].code = req[r].code /\ ~Restart
<1> DEFINE Goal == \/ devices'[s][d].code = devices[s][d].code
                   \/ s = "memory" /\ Restart /\ devices'[s][d].code = None
                   \/ \E r \in Requests : /\ req[r].at = "pair" /\ req[r].on = s /\ req[r].device = d
                                          /\ devices'[s][d].code = req[r].code /\ ~Restart
<1>0. devices[s][d] \in DeviceType
  BY DEF TypeOK
<1>1. ASSUME NEW k \in Devices, RegisterDevice(k) \/ RevokeDevice(k) PROVE Goal
  <2>1. PICK x \in {"paired", "revoked"} : devices' = [devices EXCEPT ![Active][k].status = x]
    BY <1>1 DEF RegisterDevice, RevokeDevice
  <2>2. \/ devices'[s][d] = devices[s][d]
        \/ devices'[s][d] = [devices[s][d] EXCEPT !.status = x]
    BY <2>1, ActiveIsStore DEF TypeOK
  <2> QED BY <1>0, <2>2 DEF DeviceType
<1>2. ASSUME NEW r \in Requests, UpsertDevice(r) PROVE Goal
  <2>1. req[r] \in RequestType
    BY <1>2, RequestAtStep DEF UpsertDevice
  <2>2. ~Restart
    <3>1. restarts' = restarts /\ restarts \in Nat
      BY <1>2 DEF UpsertDevice, world, TypeOK
    <3> QED BY <3>1 DEF Restart
  <2>3. CASE s = req[r].on /\ d = req[r].device
    <3>1. devices'[s][d] = [status |-> "paired", code |-> req[r].code]
      BY <1>2, <2>1, <2>3 DEF UpsertDevice, TypeOK, RequestType
    <3> QED BY <1>2, <2>2, <2>3, <3>1 DEF UpsertDevice
  <2>4. CASE ~(s = req[r].on /\ d = req[r].device)
    <3>1. devices'[s][d] = devices[s][d]
      BY <1>2, <2>1, <2>4 DEF UpsertDevice, TypeOK, RequestType
    <3> QED BY <3>1
  <2> QED BY <2>3, <2>4
<1>3. ASSUME Restart PROVE Goal
  <2>1. devices'[s] = IF s = "memory" THEN NoDevices ELSE devices[s]
    BY <1>3 DEF Restart, TypeOK
  <2>2. NoDevices[d].code = None
    BY DEF NoDevices, NoDevice
  <2> QED BY <1>3, <2>1, <2>2
<1>4. ASSUME UNCHANGED devices PROVE Goal
  BY <1>4
<1>5. \/ UNCHANGED devices
      \/ \E k \in Devices : RegisterDevice(k) \/ RevokeDevice(k)
      \/ \E r \in Requests : UpsertDevice(r)
      \/ Restart
  BY DEF Next, vars, CreatePairingSession, IngestMeshBundle, IngestFails, PairingClaim, PairingConfirm,
     Begin, ExpirePairingSessions, PairingStatus, FindToClaim, ClaimPairingSession, ClaimLost, FindToConfirm,
     ConfirmPairingSession, ConfirmLost, RereadConfirmed, Goes, RequestFails, CreateFails, Tick
<1> QED BY <1>1, <1>2, <1>3, <1>4, <1>5

LEMMA RequestsToPair ==
  ASSUME TypeOK, RequestsKnow, NEW r \in Requests, req[r].at = "pair"
  PROVE  ToPair(r) /\ req[r].code \in issued /\ req[r].code \in Codes
BY IdleHasNoStep DEF RequestsKnow, ToPair, TypeOK

LEMMA CodePairsStep ==
  ASSUME PairingInv, [Next]_vars
  PROVE  RowsConfirmed' /\ CodePairsClaimedDevice'
<1> USE DEF PairingInv
<1> SUFFICES ASSUME NEW s \in Stores, NEW d \in Devices, NEW c, c = devices'[s][d].code, c # None
             PROVE  /\ s = "postgres" => sessions'["postgres"][c].status = "confirmed"
                    /\ ConfirmedFor(c, d)'
  BY DEF RowsConfirmed, CodePairsClaimedDevice, Stores
<1>1. "postgres" \in Stores
  BY DEF Stores
<1>2. CASE devices'[s][d].code = devices[s][d].code
  <2>1. c \in Codes /\ ConfirmedFor(c, d)
    BY <1>2 DEF TypeOK, DeviceType, CodePairsClaimedDevice
  <2>2. s = "postgres" => sessions["postgres"][c].status = "confirmed"
    BY <1>2 DEF RowsConfirmed
  <2>3. s = "postgres" => sessions'["postgres"][c] = sessions["postgres"][c]
    BY <1>1, <2>1, <2>2, FinalStep
  <2>4. CASE ~Restart
    BY <2>1, <2>2, <2>3, <2>4, ConfirmedForStays
  <2>5. CASE Restart /\ s = "postgres"
    <3>1. sessions["memory"][c].status = "none"
      BY <2>1, <2>2, <2>5 DEF StoredOnce
    <3>2. /\ sessions["postgres"][c].device = d
          /\ sessions["postgres"][c].createdBy = Owner[d]
      BY <2>1, <3>1 DEF ConfirmedFor, Stores
    <3> QED BY <1>1, <2>2, <2>3, <2>5, <3>2 DEF ConfirmedFor
  <2>6. CASE Restart /\ s = "memory"
    <3>1. devices'[s][d] = NoDevice
      BY <2>6 DEF Restart, NoDevices, TypeOK
    <3> QED BY <3>1 DEF NoDevice
  <2> QED BY <2>4, <2>5, <2>6 DEF Stores
<1>3. CASE \E r \in Requests : /\ req[r].at = "pair" /\ req[r].on = s /\ req[r].device = d
                               /\ devices'[s][d].code = req[r].code /\ ~Restart
  <2>1. PICK r \in Requests : /\ req[r].at = "pair" /\ req[r].on = s /\ req[r].device = d
                              /\ c = req[r].code /\ ~Restart
    BY <1>3
  <2>2. ToPair(r) /\ c \in Codes
    BY <2>1, RequestsToPair
  <2> QED BY <1>1, <2>1, <2>2, FinalStep, ConfirmedForStays DEF ToPair
<1> QED BY <1>2, <1>3, DeviceMoves

LEMMA AcceptedStep ==
  ASSUME TypeOK, AcceptedByStore, [Next]_vars
  PROVE  AcceptedByStore'
<1> SUFFICES ASSUME NEW e \in Envelopes
             PROVE  /\ ~degraded' => accepted'[e] <= faults' + Kept("postgres", e)'
                    /\ degraded' => accepted'[e] + 1 <= faults' + Kept("postgres", e)' + Kept("memory", e)'
  BY DEF AcceptedByStore
<1> DEFINE Goal == /\ ~degraded' => accepted'[e] <= faults' + Kept("postgres", e)'
                   /\ degraded' => accepted'[e] + 1 <= faults' + Kept("postgres", e)' + Kept("memory", e)'
<1>1. /\ accepted[e] \in Nat /\ faults \in Nat /\ Kept("postgres", e) \in {0, 1} /\ Kept("memory", e) \in {0, 1}
      /\ ~degraded => accepted[e] <= faults + Kept("postgres", e)
      /\ degraded => accepted[e] + 1 <= faults + Kept("postgres", e) + Kept("memory", e)
  BY DEF TypeOK, Kept, AcceptedByStore
<1>2. ASSUME NEW k \in Envelopes, IngestMeshBundle(k) PROVE Goal
  <2>1. UNCHANGED <<degraded, faults>>
    BY <1>2 DEF IngestMeshBundle, world
  <2>2. acks' = [acks EXCEPT ![Active] = @ \cup {k}]
    BY <1>2 DEF IngestMeshBundle
  <2>3. accepted'[e] = IF e = k /\ e \notin acks[Active] THEN accepted[e] + 1 ELSE accepted[e]
    BY <1>2 DEF IngestMeshBundle, TypeOK
  <2>4. CASE degraded
    <3>1. /\ acks'["postgres"] = acks["postgres"]
          /\ acks'["memory"] = acks["memory"] \cup {k}
      BY <2>2, <2>4 DEF Active, TypeOK, Stores
    <3> QED BY <1>1, <2>1, <2>3, <2>4, <3>1 DEF Kept, Active
  <2>5. CASE ~degraded
    <3>1. acks'["postgres"] = acks["postgres"] \cup {k}
      BY <2>2, <2>5 DEF Active, TypeOK, Stores
    <3> QED BY <1>1, <2>1, <2>3, <2>5, <3>1 DEF Kept, Active
  <2> QED BY <2>4, <2>5
<1>3. ASSUME NEW k \in Envelopes, IngestFails(k) PROVE Goal
  <2>1. ~degraded /\ degraded' /\ faults' = faults + 1 /\ accepted' = accepted
    BY <1>3 DEF IngestFails, Fault, history
  <2>2. acks["postgres"] \subseteq acks'["postgres"]
    BY <1>3 DEF IngestFails, TypeOK, Stores
  <2>3. Kept("postgres", e)' >= Kept("postgres", e) /\ Kept("memory", e)' >= 0
    BY <2>2 DEF Kept
  <2> QED BY <1>1, <2>1, <2>3 DEF Kept
<1>4. ASSUME CreateFails PROVE Goal
  <2>1. ~degraded /\ degraded' /\ faults' = faults + 1 /\ accepted' = accepted /\ acks' = acks
    BY <1>4 DEF CreateFails, Fault, history
  <2> QED BY <1>1, <2>1 DEF Kept
<1>5. ASSUME Restart PROVE Goal
  <2>1. acks'["postgres"] = acks["postgres"] /\ acks'["memory"] = {} /\ accepted' = accepted
    BY <1>5 DEF Restart, TypeOK, Stores
  <2>2. \/ degraded' = FALSE /\ faults' = faults
        \/ degraded' = TRUE /\ faults' = faults + 1
    BY <1>5 DEF Restart, Fault
  <2> QED BY <1>1, <2>1, <2>2 DEF Kept
<1>6. ASSUME UNCHANGED <<acks, accepted, degraded>>, faults' = faults \/ faults' = faults + 1 PROVE Goal
  BY <1>1, <1>6 DEF Kept
<1>7. \/ UNCHANGED <<acks, accepted, degraded>> /\ (faults' = faults \/ faults' = faults + 1)
      \/ \E k \in Envelopes : IngestMeshBundle(k) \/ IngestFails(k)
      \/ CreateFails \/ Restart
  BY DEF Next, vars, CreatePairingSession, RegisterDevice, RevokeDevice, PairingClaim, PairingConfirm,
     Begin, ExpirePairingSessions, PairingStatus, FindToClaim, ClaimPairingSession, ClaimLost, FindToConfirm,
     ConfirmPairingSession, ConfirmLost, RereadConfirmed, Goes, UpsertDevice, RequestFails, Fault, Tick,
     history, world
<1> QED BY <1>2, <1>3, <1>4, <1>5, <1>6, <1>7

LEMMA PairingsMove ==
  ASSUME TypeOK, [Next]_vars, NEW c \in Codes
  PROVE  \/ pairings'[c] = pairings[c]
         \/ \E r \in Requests : UpsertDevice(r) /\ req[r].code = c /\ pairings'[c] = pairings[c] + 1
<1>1. ASSUME NEW r \in Requests, UpsertDevice(r)
      PROVE  \/ pairings'[c] = pairings[c]
             \/ req[r].code = c /\ pairings'[c] = pairings[c] + 1
  <2>1. pairings' = [pairings EXCEPT ![req[r].code] = @ + 1]
    BY <1>1 DEF UpsertDevice
  <2> QED BY <2>1 DEF TypeOK
<1>2. UNCHANGED pairings \/ \E r \in Requests : UpsertDevice(r)
  BY DEF Next, vars, CreatePairingSession, RegisterDevice, RevokeDevice, IngestMeshBundle, IngestFails,
     PairingClaim, PairingConfirm, Begin, ExpirePairingSessions, PairingStatus, FindToClaim,
     ClaimPairingSession, ClaimLost, FindToConfirm, ConfirmPairingSession, ConfirmLost, RereadConfirmed,
     Goes, RequestFails, CreateFails, Restart, Tick, history, world
<1> QED BY <1>1, <1>2

LEMMA OnlyGrow ==
  ASSUME TypeOK, [Next]_vars
  PROVE  contested \subseteq contested' /\ cut \subseteq cut'
BY DEF Next, vars, CreatePairingSession, RegisterDevice, RevokeDevice, IngestMeshBundle, IngestFails,
   PairingClaim, PairingConfirm, Begin, ExpirePairingSessions, PairingStatus, FindToClaim,
   ClaimPairingSession, ClaimLost, FindToConfirm, ConfirmPairingSession, ConfirmLost, RereadConfirmed,
   Goes, UpsertDevice, RequestFails, CreateFails, Restart, Tick, Cuts, history, world

LEMMA ConfirmingMoves ==
  ASSUME TypeOK, [Next]_vars, NEW c, NEW r \in Requests, Confirming(r, c)'
  PROVE  Confirming(r, c) \/ \E u \in Users : c \in issued /\ PairingConfirm(r, u, c)
<1>1. RequestMoves(r)
  BY RequestsMove
<1>2. req'[r].at # "idle"
  BY DEF Confirming
<1>3. ASSUME req[r].at # "idle"
      PROVE  req[r] \in RequestType
  BY <1>3, RequestAtStep
<1>4. CASE req'[r] = req[r]
  BY <1>4 DEF Confirming
<1>5. CASE \E k \in issued, d \in Devices : PairingClaim(r, d, k)
  BY <1>5 DEF PairingClaim, Begin, Confirming, TypeOK
<1>6. CASE \E k \in issued, u \in Users : PairingConfirm(r, u, k)
  <2>1. PICK k \in issued, u \in Users : PairingConfirm(r, u, k)
    BY <1>6
  <2>2. req'[r].code = k
    BY <2>1 DEF PairingConfirm, Begin, TypeOK
  <2>3. k = c
    BY <2>2 DEF Confirming
  <2> QED BY <2>1, <2>3
<1>7. CASE req[r].at = "findToClaim" /\ req'[r] \in {[req[r] EXCEPT !.swept = TRUE], Call(req[r], "claim")}
  BY <1>3, <1>7 DEF Confirming, Call, RequestType
<1>8. CASE /\ req[r].at \in {"findToConfirm", "confirm", "rereadConfirmed"}
           /\ req'[r] \in {[req[r] EXCEPT !.swept = TRUE], Call(req[r], "confirm"), Pairing(r),
                           [req[r] EXCEPT !.at = "rereadConfirmed"]}
  <2>1. req[r] \in RequestType
    BY <1>3, <1>8
  <2>2. req'[r].code = req[r].code
    BY <1>8, <2>1 DEF Call, Pairing, RequestType
  <2> QED BY <1>8, <2>2 DEF Confirming
<1> QED BY <1>1, <1>2, <1>4, <1>5, <1>6, <1>7, <1>8, IdleHasNoStep DEF RequestMoves

LEMMA UncontestedStep ==
  ASSUME PairingInv, [Next]_vars
  PROVE  Uncontested'
<1> USE DEF PairingInv
<1> SUFFICES ASSUME NEW c \in Codes, c \notin contested'
             PROVE  /\ \A q, r \in Requests : Confirming(q, c)' /\ Confirming(r, c)' => q = r
                    /\ pairings'[c] <= 1
                    /\ pairings'[c] # 0 =>
                         c \in issued' /\ \A s \in Stores : sessions'[s][c].status \notin {"pending", "claimed"}
                    /\ \A r \in Requests : Confirming(r, c)' /\ req'[r].at # "findToConfirm" => pairings'[c] = 0
  BY DEF Uncontested
<1>1. c \notin contested
  BY OnlyGrow
<1>2. /\ \A q, r \in Requests : Confirming(q, c) /\ Confirming(r, c) => q = r
      /\ pairings[c] <= 1 /\ pairings[c] \in Nat
      /\ pairings[c] # 0 =>
           c \in issued /\ \A s \in Stores : sessions[s][c].status \notin {"pending", "claimed"}
      /\ \A r \in Requests : Confirming(r, c) /\ req[r].at # "findToConfirm" => pairings[c] = 0
  BY <1>1 DEF Uncontested, TypeOK
<1>3. ASSUME NEW r \in Requests, NEW u \in Users, PairingConfirm(r, u, c)
      PROVE  /\ \A q \in Requests : ~Confirming(q, c)
             /\ \A q \in Requests : q # r => req'[q] = req[q]
             /\ req'[r].at = "findToConfirm"
  BY <1>3 DEF PairingConfirm, Begin, TypeOK
<1>4. \A q, r \in Requests : Confirming(q, c)' /\ Confirming(r, c)' => q = r
  <2> SUFFICES ASSUME NEW q \in Requests, NEW r \in Requests, Confirming(q, c)', Confirming(r, c)', q # r
               PROVE  FALSE
    OBVIOUS
  <2>1. /\ Confirming(q, c) \/ \E u \in Users : PairingConfirm(q, u, c)
        /\ Confirming(r, c) \/ \E u \in Users : PairingConfirm(r, u, c)
    BY ConfirmingMoves
  <2>2. CASE \E u \in Users : PairingConfirm(q, u, c)
    BY <1>3, <2>2 DEF Confirming
  <2>3. CASE \E u \in Users : PairingConfirm(r, u, c)
    BY <1>3, <2>3 DEF Confirming
  <2> QED BY <1>2, <2>1, <2>2, <2>3
<1>5. ASSUME NEW r \in Requests, UpsertDevice(r), req[r].code = c
      PROVE  /\ Confirming(r, c) /\ pairings[c] = 0 /\ req'[r] = Idle
             /\ \A q \in Requests : q # r => req'[q] = req[q]
             /\ sessions' = sessions
             /\ ToPair(r) /\ c \in issued
  <2>1. req[r].at = "pair"
    BY <1>5 DEF UpsertDevice
  <2>2. Confirming(r, c) /\ req[r].at # "findToConfirm"
    BY <1>5, <2>1 DEF Confirming
  <2>3. ToPair(r) /\ c \in issued
    BY <1>5, <2>1, RequestsToPair
  <2>4. req' = [req EXCEPT ![r] = Idle] /\ sessions' = sessions
    BY <1>5 DEF UpsertDevice
  <2>5. pairings[c] = 0
    BY <1>2, <2>2
  <2>6. req'[r] = Idle /\ \A q \in Requests : q # r => req'[q] = req[q]
    BY <2>4 DEF TypeOK
  <2> QED BY <2>2, <2>3, <2>4, <2>5, <2>6
<1>6. pairings'[c] <= 1
  BY <1>2, <1>5, PairingsMove
<1>7. pairings'[c] # 0 =>
        c \in issued' /\ \A s \in Stores : sessions'[s][c].status \notin {"pending", "claimed"}
  <2>1. CASE pairings[c] # 0
    <3>1. \A s \in Stores : sessions[s][c].status \notin {"pending", "claimed"} /\ Moves(s, c) /\ c \in issued
      BY <1>2, <2>1, SessionMoves
    <3>2. \A s \in Stores : sessions'[s][c] = sessions[s][c] \/ sessions'[s][c] = Unknown
      BY <3>1 DEF Moves, Claims, Confirms
    <3>3. c \in issued /\ issued \subseteq issued'
      BY <1>2, <2>1, CodesStayIssued
    <3>4. ASSUME NEW s \in Stores PROVE sessions'[s][c].status \notin {"pending", "claimed"}
      <4>1. CASE sessions'[s][c] = sessions[s][c]
        BY <3>1, <4>1
      <4>2. CASE sessions'[s][c] = Unknown
        BY <4>2, StatusNever
      <4> QED BY <3>2, <4>1, <4>2
    <3> QED BY <3>3, <3>4
  <2>2. CASE pairings[c] = 0 /\ pairings'[c] # 0
    <3>1. PICK r \in Requests : UpsertDevice(r) /\ req[r].code = c
      BY <2>2, PairingsMove
    <3>2. ConfirmedFor(c, req[r].device) /\ c \in issued /\ sessions' = sessions
      BY <1>5, <3>1 DEF ToPair
    <3>3. \A s \in Stores : sessions[s][c].status \in {"none", "confirmed"}
      BY <3>2 DEF ConfirmedFor, StoredOnce, Stores
    <3> QED BY <3>2, <3>3, CodesStayIssued
  <2> QED BY <2>1, <2>2
<1>8. ASSUME NEW r \in Requests, Confirming(r, c)', req'[r].at # "findToConfirm" PROVE pairings'[c] = 0
  <2>1. Confirming(r, c)
    BY <1>3, <1>8, ConfirmingMoves
  <2>2. pairings'[c] = pairings[c]
    <3> SUFFICES ASSUME NEW q \in Requests, UpsertDevice(q), req[q].code = c PROVE FALSE
      BY PairingsMove
    <3>1. q = r
      BY <1>2, <1>5, <2>1
    <3> QED BY <1>5, <1>8, <3>1, IdleHasNoStep DEF Confirming
  <2>3. CASE req[r].at # "findToConfirm"
    BY <1>2, <2>1, <2>2, <2>3
  <2>4. CASE req[r].at = "findToConfirm"
    <3>1. req[r] \in RequestType /\ req[r].code = c
      BY <2>1, <2>4, RequestAtStep DEF Confirming
    <3>2. [req[r] EXCEPT !.swept = TRUE].at = req[r].at
      BY <3>1 DEF RequestType
    <3>3. req'[r] # req[r] /\ req'[r] # Idle /\ req'[r] # [req[r] EXCEPT !.swept = TRUE]
      BY <1>8, <2>4, <3>2, IdleHasNoStep DEF Confirming
    <3>4. ~\E k \in issued, d \in Devices : PairingClaim(r, d, k)
      BY <2>4, IdleHasNoStep DEF PairingClaim, Begin
    <3>5. ~\E k \in issued, u \in Users : PairingConfirm(r, u, k)
      BY <2>4, IdleHasNoStep DEF PairingConfirm, Begin
    <3>6. Seen(r).status = "claimed"
      BY <2>4, <3>3, <3>4, <3>5, RequestsMove DEF RequestMoves
    <3>7. sessions[req[r].on][c].status = "claimed" /\ req[r].on \in Stores
      BY <3>1, <3>6, SeenIsStored DEF RequestType
    <3> QED BY <1>2, <2>2, <3>7
  <2> QED BY <2>3, <2>4
<1> QED BY <1>4, <1>6, <1>7, <1>8

\* A confirmation leaves its last call by storing the device, or is cut off.
LEMMA PairLeaves ==
  ASSUME TypeOK, [Next]_vars, NEW r \in Requests, req[r].at = "pair", req[r].code \notin cut'
  PROVE  req'[r] = req[r] \/ UpsertDevice(r)
<1>1. ASSUME NEW q \in Requests, UpsertDevice(q) PROVE req'[r] = req[r] \/ UpsertDevice(r)
  BY <1>1 DEF UpsertDevice, TypeOK
<1>2. ASSUME NEW q \in Requests, RequestFails(q) PROVE req'[r] = req[r]
  BY <1>2 DEF RequestFails, Cuts, TypeOK
<1>3. ~Restart
  BY DEF Restart, Cuts
<1>4. ASSUME NEW q \in Requests, req[q].at # "pair", \A p \in Requests : p # q => req'[p] = req[p]
      PROVE req'[r] = req[r]
  BY <1>4
<1>5. \/ UNCHANGED req
      \/ \E q \in Requests : req[q].at # "pair" /\ \A p \in Requests : p # q => req'[p] = req[p]
      \/ \E q \in Requests : UpsertDevice(q) \/ RequestFails(q)
  BY <1>3, IdleHasNoStep
  DEF Next, vars, CreatePairingSession, RegisterDevice, RevokeDevice, IngestMeshBundle, IngestFails,
     PairingClaim, PairingConfirm, Begin, ExpirePairingSessions, PairingStatus, FindToClaim,
     ClaimPairingSession, ClaimLost, FindToConfirm, ConfirmPairingSession, ConfirmLost, RereadConfirmed,
     Goes, Ready, CreateFails, Tick, TypeOK
<1> QED BY <1>1, <1>2, <1>4, <1>5

LEMMA ConfirmedOnItsWayStep ==
  ASSUME PairingInv, [Next]_vars
  PROVE  ConfirmedOnItsWay'
<1> USE DEF PairingInv
<1> SUFFICES ASSUME NEW c \in Codes, c \notin contested', c \notin cut',
                    sessions'["postgres"][c].status = "confirmed", pairings'[c] = 0
             PROVE  \E r \in Requests : req'[r].at = "pair" /\ req'[r].code = c
  BY DEF ConfirmedOnItsWay
<1>1. c \notin contested /\ c \notin cut /\ "postgres" \in Stores
  BY OnlyGrow DEF Stores
<1>2. pairings[c] = 0 /\ \A r \in Requests : UpsertDevice(r) => req[r].code # c
  <2>1. \A r \in Requests : UpsertDevice(r) /\ req[r].code = c => pairings'[c] = pairings[c] + 1
    BY DEF UpsertDevice, TypeOK
  <2> QED BY <2>1, PairingsMove DEF TypeOK
<1>3. CASE sessions["postgres"][c].status = "confirmed"
  <2>1. PICK r \in Requests : req[r].at = "pair" /\ req[r].code = c
    BY <1>1, <1>2, <1>3 DEF ConfirmedOnItsWay
  <2> QED BY <1>2, <2>1, PairLeaves
<1>4. CASE sessions["postgres"][c].status # "confirmed"
  <2>1. sessions["postgres"][c] \in SessionType /\ Moves("postgres", c)
    BY <1>1, SessionMoves DEF TypeOK
  <2>2. \E r \in Requests : Confirms(r, "postgres", c)
    <3>1. [sessions["postgres"][c] EXCEPT !.status = "expired"].status # "confirmed"
      BY <2>1 DEF SessionType
    <3>2. \A d : [sessions["postgres"][c] EXCEPT !.status = "claimed", !.device = d].status # "confirmed"
      BY <2>1 DEF SessionType
    <3> QED BY <1>4, <2>1, <3>1, <3>2 DEF Moves, Claims
  <2>3. PICK r \in Requests : Confirms(r, "postgres", c)
    BY <2>2
  <2>4. req[r] \in RequestType
    BY <2>3, RequestAtStep DEF Confirms
  <2> QED BY <2>3, <2>4 DEF Confirms, Pairing, Call, RequestType
<1> QED BY <1>3, <1>4

-----------------------------------------------------------------------------
(* The theorems.                                                             *)

LEMMA PairingInit == Init => PairingInv
<1> SUFFICES ASSUME Init PROVE PairingInv
  OBVIOUS
<1>1. TypeOK
  BY TypeInit
<1>2. \A s \in Stores, c \in Codes : sessions[s][c].status = "none"
  BY StatusNever DEF Init, NoSessions
<1>3. \A s \in Stores, d \in Devices : devices[s][d].code = None
  BY DEF Init, NoDevices, NoDevice
<1>4. \A r \in Requests : req[r] = Idle
  BY DEF Init
<1>5. \A e \in Envelopes : accepted[e] = 0 /\ Kept("postgres", e) = 0
  BY DEF Init, Kept, Stores
<1>6. \A c \in Codes : pairings[c] = 0
  BY DEF Init
<1>7. issued = {} /\ degraded = FALSE /\ faults = 0 /\ "postgres" \in Stores /\ "memory" \in Stores
  BY DEF Init, Stores
<1>8. StoredOnce /\ MemoryUnused /\ ClaimedByOwner /\ RequestsKnow
  BY <1>2, <1>4, <1>7 DEF StoredOnce, MemoryUnused, ClaimedByOwner, RequestsKnow
<1>9. RowsConfirmed /\ CodePairsClaimedDevice
  BY <1>3, <1>7 DEF RowsConfirmed, CodePairsClaimedDevice
<1>10. Uncontested /\ ConfirmedOnItsWay /\ AcceptedByStore
  BY <1>2, <1>4, <1>5, <1>6, <1>7, IdleHasNoStep
  DEF Uncontested, ConfirmedOnItsWay, AcceptedByStore, Confirming
<1> QED BY <1>1, <1>8, <1>9, <1>10 DEF PairingInv

LEMMA PairingStep == PairingInv /\ [Next]_vars => PairingInv'
BY TypeStep, StoredOnceStep, MemoryUnusedStep, ClaimedByOwnerStep, RequestsKnowStep, CodePairsStep,
   UncontestedStep, ConfirmedOnItsWayStep, AcceptedStep DEF PairingInv

LEMMA PairingAlways == Spec => []PairingInv
BY PairingInit, PairingStep, PTL DEF Spec

(* The variables of the pairing have their types, always.                    *)
THEOREM PairingTypeCorrect == Spec => []TypeOK
<1>1. PairingInv => TypeOK
  BY DEF PairingInv
<1> QED BY PairingAlways, <1>1, PTL

(* A device carries a code only if it claimed the code of its owner first    *)
(* and the code was confirmed (mobile-device-store.ts, claim and confirm).   *)
THEOREM PairingOfClaimedDevice == Spec => []CodePairsClaimedDevice
<1>1. PairingInv => CodePairsClaimedDevice
  BY DEF PairingInv
<1> QED BY PairingAlways, <1>1, PTL

(* A code confirmed by one request at a time stores its device exactly once. *)
THEOREM PairingOnce == Spec => []PairedOnce
<1>1. PairingInv => PairedOnce
  <2> SUFFICES ASSUME PairingInv, NEW c \in Codes
               PROVE  /\ c \notin contested => pairings[c] <= 1
                      /\ Settled(c) /\ sessions["postgres"][c].status = "confirmed" => pairings[c] = 1
    BY DEF PairedOnce
  <2>1. c \notin contested => pairings[c] <= 1
    BY DEF PairingInv, Uncontested
  <2>2. ASSUME Settled(c), sessions["postgres"][c].status = "confirmed" PROVE pairings[c] # 0
    <3>1. \A r \in Requests : ~(req[r].at = "pair" /\ req[r].code = c)
      BY <2>2 DEF Settled, Confirming
    <3> QED BY <2>2, <3>1 DEF PairingInv, ConfirmedOnItsWay, Settled
  <2>3. pairings[c] \in Nat /\ (Settled(c) => c \notin contested)
    BY DEF PairingInv, TypeOK, Settled
  <2> QED BY <2>1, <2>2, <2>3
<1> QED BY PairingAlways, <1>1, PTL

(* An expired or confirmed session of the table never changes again.         *)
THEOREM PairingFinal == Spec => FinalStays
<1>1. PairingInv /\ [Next]_vars =>
        [\A c \in Codes : sessions["postgres"][c].status \in {"expired", "confirmed"}
           => sessions'["postgres"][c] = sessions["postgres"][c]]_vars
  BY FinalStep DEF PairingInv, Stores
<1> QED BY PairingAlways, <1>1, PTL DEF Spec, FinalStays

(* A mesh bundle is accepted once, and once more for every store error.      *)
THEOREM MeshAcceptedOnce == Spec => []AcceptedOnce
<1>1. PairingInv => AcceptedOnce
  <2> SUFFICES ASSUME PairingInv, NEW e \in Envelopes PROVE accepted[e] <= 1 + faults
    BY DEF AcceptedOnce
  <2>1. accepted[e] \in Nat /\ faults \in Nat /\ degraded \in BOOLEAN
    BY DEF PairingInv, TypeOK
  <2> QED BY <2>1 DEF PairingInv, AcceptedByStore, Kept
<1> QED BY PairingAlways, <1>1, PTL
=============================================================================
