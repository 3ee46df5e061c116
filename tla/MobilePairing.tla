---------------------------- MODULE MobilePairing ----------------------------
(***************************************************************************)
(* Mobile devices of the COP API: a pairing code is created on the web,     *)
(* claimed by a device, confirmed on the web, and the confirmed device is   *)
(* stored; a device registers, is revoked, and hands in mesh bundles.       *)
(* Requests interleave between the statements of PostgresMobileDeviceStore; *)
(* InMemoryMobileDeviceStore, the fallback, answers each call in one step.  *)
(***************************************************************************)
EXTENDS Naturals, FiniteSets

CONSTANTS
  Devices, Users, Codes, Envelopes,
  Registering, \* devices that also register without a code and are revoked
  Owner,      \* the user each device registers for
  Requests,   \* claims, confirmations and reads in progress at once
  Ttl,        \* life of a pairing code
  MaxClock, MaxFaults, MaxRestarts,
  None

ASSUME PairingAssumption ==
  /\ Registering \subseteq Devices
  /\ Owner \in [Devices -> Users]
  /\ Ttl \in Nat \ {0}
  /\ MaxClock \in Nat /\ MaxFaults \in Nat /\ MaxRestarts \in Nat
  /\ None \notin Devices \cup Users \cup Codes

VARIABLES
  sessions,  \* pairing sessions by store and code
  devices,   \* devices by store
  acks,      \* mesh bundles with an acknowledgement, by store
  degraded,  \* mobileDeviceStoreStatus is not "ok"
  clock,
  req,       \* what each request is doing
  issued,    \* codes ever drawn; a code is never drawn twice
  pairings,  \* how often a confirmation of a code has stored a device
  contested, \* codes confirmed by two requests at once
  cut,       \* codes whose confirmation ended before it stored the device
  accepted,  \* how often a bundle was answered "accepted"
  faults, restarts

vars == <<sessions, devices, acks, degraded, clock, req, issued, pairings,
          contested, cut, accepted, faults, restarts>>

Stores == {"postgres", "memory"}
Unknown == [status |-> "none", createdBy |-> None, expiresAt |-> 0, device |-> None]
NoDevice == [status |-> "none", code |-> None]
Idle == [at |-> "idle"]
NoSessions == [c \in Codes |-> Unknown]
NoDevices == [d \in Devices |-> NoDevice]

Active == IF degraded THEN "memory" ELSE "postgres"

Init ==
  /\ sessions = [s \in Stores |-> NoSessions]
  /\ devices = [s \in Stores |-> NoDevices]
  /\ acks = [s \in Stores |-> {}]
  /\ degraded = FALSE
  /\ clock = 0
  /\ req = [r \in Requests |-> Idle]
  /\ issued = {}
  /\ pairings = [c \in Codes |-> 0]
  /\ contested = {}
  /\ cut = {}
  /\ accepted = [e \in Envelopes |-> 0]
  /\ faults = 0
  /\ restarts = 0

history == <<pairings, contested, cut, accepted>>
world == <<issued, clock, faults, restarts>>

-----------------------------------------------------------------------------
(* Calls of one statement: create, register, revoke, mesh bundle.            *)

CreatePairingSession(u, c) ==
  /\ c \notin issued
  /\ issued' = issued \cup {c}
  /\ sessions' = [sessions EXCEPT ![Active][c] =
       [status |-> "pending", createdBy |-> u, expiresAt |-> clock + Ttl, device |-> None]]
  /\ UNCHANGED <<devices, acks, degraded, clock, req, faults, restarts, history>>

\* A code already stored keeps its device row's pairing code (COALESCE).
RegisterDevice(d) ==
  /\ devices' = [devices EXCEPT ![Active][d].status = "paired"]
  /\ UNCHANGED <<sessions, acks, degraded, req, history, world>>

RevokeDevice(d) ==
  /\ devices[Active][d] # NoDevice
  /\ devices' = [devices EXCEPT ![Active][d].status = "revoked"]
  /\ UNCHANGED <<sessions, acks, degraded, req, history, world>>

\* Mutant: the insert overwrites the row there is and reports it as new.
IngestOverwriting(e) ==
  /\ acks' = [acks EXCEPT ![Active] = @ \cup {e}]
  /\ accepted' = [accepted EXCEPT ![e] = @ + 1]
  /\ UNCHANGED <<sessions, devices, degraded, req, pairings, contested, cut, world>>

\* INSERT ... ON CONFLICT DO NOTHING; without a row the bundle is a duplicate.
IngestMeshBundle(e) ==
  /\ acks' = [acks EXCEPT ![Active] = @ \cup {e}]
  /\ accepted' = [accepted EXCEPT ![e] = IF e \in acks[Active] THEN @ ELSE @ + 1]
  /\ UNCHANGED <<sessions, devices, degraded, req, pairings, contested, cut, world>>

-----------------------------------------------------------------------------
(* Calls on a session.  In Postgres each is preceded by a statement that     *)
(* expires what is due at the request's own time; its later calls repeat it  *)
(* with the same time and find nothing, as a code lives at least a tick.     *)

Due(session, now) == session.status \in {"pending", "claimed"} /\ session.expiresAt <= now
Expire(session, now) == IF Due(session, now) THEN [session EXCEPT !.status = "expired"] ELSE session

\* The memory expires what it returns, not what it keeps.
Seen(r) ==
  LET session == sessions[req[r].on][req[r].code] IN
  IF req[r].on = "memory" THEN Expire(session, req[r].now) ELSE session

Call(request, step) == [request EXCEPT !.at = step, !.on = Active]

Begin(r, step, d, u, c) ==
  /\ req[r] = Idle
  /\ req' = [req EXCEPT ![r] = [at |-> step, device |-> d, user |-> u, code |-> c, now |-> clock,
                                on |-> Active, swept |-> degraded]]
  /\ UNCHANGED <<sessions, devices, acks, degraded, pairings, cut, accepted, world>>

PairingClaim(r, d, c) == Begin(r, "findToClaim", d, Owner[d], c) /\ UNCHANGED contested

Confirming(r, c) ==
  req[r].at \in {"findToConfirm", "confirm", "rereadConfirmed", "pair"} /\ req[r].code = c

PairingConfirm(r, u, c) ==
  /\ Begin(r, "findToConfirm", None, u, c)
  /\ contested' = IF \E q \in Requests : Confirming(q, c) THEN contested \cup {c} ELSE contested

\* Reading a session only expires what is due.
PairingStatus ==
  /\ sessions' = IF degraded THEN sessions
                 ELSE [sessions EXCEPT !["postgres"] = [c \in Codes |-> Expire(@[c], clock)]]
  /\ UNCHANGED <<devices, acks, degraded, req, history, world>>

ExpirePairingSessions(r) ==
  /\ req[r].at \in {"findToClaim", "findToConfirm"} /\ ~req[r].swept
  /\ sessions' = [sessions EXCEPT !["postgres"] = [c \in Codes |-> Expire(@[c], req[r].now)]]
  /\ req' = [req EXCEPT ![r].swept = TRUE]
  /\ UNCHANGED <<devices, acks, degraded, history, world>>

Ready(r, step) == req[r].at = step /\ req[r].swept

\* Only req changes: the request ends, or goes on to its next call.
Goes(r, next) ==
  /\ req' = [req EXCEPT ![r] = next]
  /\ UNCHANGED <<sessions, devices, acks, degraded, history, world>>

Owned(r) == Seen(r).status # "none" /\ Seen(r).createdBy = req[r].user

FindToClaim(r) ==
  /\ Ready(r, "findToClaim")
  /\ Goes(r, IF Owned(r) THEN Call(req[r], "claim") ELSE Idle)

\* Mutant: the update of a claim has no condition on the status.
ClaimAnyway(r) ==
  /\ Ready(r, "claim")
  /\ sessions' = [sessions EXCEPT ![req[r].on][req[r].code] =
       [@ EXCEPT !.status = "claimed", !.device = req[r].device]]
  /\ req' = [req EXCEPT ![r] = Idle]
  /\ UNCHANGED <<devices, acks, degraded, history, world>>

ClaimPairingSession(r) ==
  /\ Ready(r, "claim")
  /\ Seen(r).status = "pending"
  /\ sessions' = [sessions EXCEPT ![req[r].on][req[r].code] =
       [@ EXCEPT !.status = "claimed", !.device = req[r].device]]
  /\ req' = [req EXCEPT ![r] = Idle]
  /\ UNCHANGED <<devices, acks, degraded, history, world>>

\* The update found no pending row: the session is read once more, to answer.
ClaimLost(r) ==
  /\ Ready(r, "claim")
  /\ Seen(r).status # "pending"
  /\ Goes(r, Idle)

\* Mutant: any session of the user may be confirmed.
FindAnyToConfirm(r) ==
  /\ Ready(r, "findToConfirm")
  /\ Goes(r, IF Owned(r) /\ Seen(r).device # None THEN Call(req[r], "confirm") ELSE Idle)

FindToConfirm(r) ==
  /\ Ready(r, "findToConfirm")
  /\ Goes(r, IF Owned(r) /\ Seen(r).status = "claimed" THEN Call(req[r], "confirm") ELSE Idle)

\* The device of the session as the store returned it goes to upsertDevice.
Pairing(r) == [Call(req[r], "pair") EXCEPT !.device = sessions[req[r].on][req[r].code].device]

\* Mutant: the update of a confirmation has no condition on the status.
ConfirmAnyway(r) ==
  /\ Ready(r, "confirm")
  /\ sessions' = [sessions EXCEPT ![req[r].on][req[r].code].status = "confirmed"]
  /\ req' = [req EXCEPT ![r] = Pairing(r)]
  /\ UNCHANGED <<devices, acks, degraded, history, world>>

ConfirmPairingSession(r) ==
  /\ Ready(r, "confirm")
  /\ Seen(r).status = "claimed"
  /\ sessions' = [sessions EXCEPT ![req[r].on][req[r].code].status = "confirmed"]
  /\ req' = [req EXCEPT ![r] = Pairing(r)]
  /\ UNCHANGED <<devices, acks, degraded, history, world>>

AfterConfirm(r) == IF Seen(r).status = "confirmed" THEN Pairing(r) ELSE Idle

ConfirmLost(r) ==
  /\ Ready(r, "confirm")
  /\ Seen(r).status # "claimed"
  /\ Goes(r, IF req[r].on = "memory" THEN AfterConfirm(r)
              ELSE [req[r] EXCEPT !.at = "rereadConfirmed"])

RereadConfirmed(r) == Ready(r, "rereadConfirmed") /\ Goes(r, AfterConfirm(r))

UpsertDevice(r) ==
  /\ req[r].at = "pair"
  /\ devices' = [devices EXCEPT ![req[r].on][req[r].device] = [status |-> "paired", code |-> req[r].code]]
  /\ pairings' = [pairings EXCEPT ![req[r].code] = @ + 1]
  /\ req' = [req EXCEPT ![r] = Idle]
  /\ UNCHANGED <<sessions, acks, degraded, contested, cut, accepted, world>>

-----------------------------------------------------------------------------
(* Store errors, restarts, time.                                             *)

Fault == faults < MaxFaults /\ faults' = faults + 1

Cuts(R) == cut' = cut \cup {req[r].code : r \in {q \in R : req[q].at = "pair"}}

\* A statement of a claim, a confirmation or a read fails: the handler does
\* not catch it, the store stays in use.
RequestFails(r) ==
  /\ req[r].at # "idle" /\ req[r].on = "postgres"
  /\ Fault
  /\ Cuts({r})
  /\ req' = [req EXCEPT ![r] = Idle]
  /\ UNCHANGED <<sessions, devices, acks, degraded, pairings, contested, accepted, issued, clock, restarts>>

\* The insert of a session fails: its code reaches nobody.
CreateFails ==
  /\ ~degraded
  /\ Fault
  /\ degraded' = TRUE
  /\ UNCHANGED <<sessions, devices, acks, req, history, issued, clock, restarts>>

\* The insert of a bundle fails, before or after it took effect.
IngestFails(e) ==
  /\ ~degraded
  /\ Fault
  /\ degraded' = TRUE
  /\ acks' \in {acks, [acks EXCEPT !["postgres"] = @ \cup {e}]}
  /\ UNCHANGED <<sessions, devices, req, history, issued, clock, restarts>>

\* init() of the store may fail in the new process.
Restart ==
  /\ restarts < MaxRestarts
  /\ restarts' = restarts + 1
  /\ \/ degraded' = FALSE /\ UNCHANGED faults
     \/ degraded' = TRUE /\ Fault
  /\ sessions' = [sessions EXCEPT !["memory"] = NoSessions]
  /\ devices' = [devices EXCEPT !["memory"] = NoDevices]
  /\ acks' = [acks EXCEPT !["memory"] = {}]
  /\ req' = [r \in Requests |-> Idle]
  /\ Cuts(Requests)
  /\ UNCHANGED <<pairings, contested, accepted, issued, clock>>

Tick ==
  /\ clock < MaxClock
  /\ clock' = clock + 1
  /\ UNCHANGED <<sessions, devices, acks, degraded, req, history, issued, faults, restarts>>

-----------------------------------------------------------------------------
Next ==
  \/ \E u \in Users, c \in Codes : CreatePairingSession(u, c)
  \/ \E d \in Registering : RegisterDevice(d) \/ RevokeDevice(d)
  \/ \E e \in Envelopes : IngestMeshBundle(e) \/ IngestFails(e)
  \/ \E r \in Requests :
       \/ \E c \in issued :
            \/ \E d \in Devices : PairingClaim(r, d, c)
            \/ \E u \in Users : PairingConfirm(r, u, c)
       \/ ExpirePairingSessions(r)
       \/ FindToClaim(r) \/ ClaimPairingSession(r) \/ ClaimLost(r)
       \/ FindToConfirm(r) \/ ConfirmPairingSession(r) \/ ConfirmLost(r) \/ RereadConfirmed(r)
       \/ UpsertDevice(r) \/ RequestFails(r)
  \/ PairingStatus \/ CreateFails \/ Restart \/ Tick

Spec == Init /\ [][Next]_vars

-----------------------------------------------------------------------------
\* Every variable has its type.
SessionType == [status : {"none", "pending", "claimed", "confirmed", "expired"},
                createdBy : Users \cup {None}, expiresAt : Nat, device : Devices \cup {None}]
DeviceType == [status : {"none", "paired", "revoked"}, code : Codes \cup {None}]
RequestType == [at : {"findToClaim", "claim", "findToConfirm", "confirm", "rereadConfirmed", "pair"},
                device : Devices \cup {None}, user : Users, code : Codes, now : Nat,
                on : Stores, swept : BOOLEAN]

TypeOK ==
  /\ sessions \in [Stores -> [Codes -> SessionType]]
  /\ devices \in [Stores -> [Devices -> DeviceType]]
  /\ acks \in [Stores -> SUBSET Envelopes]
  /\ degraded \in BOOLEAN
  /\ clock \in Nat
  /\ req \in [Requests -> {Idle} \cup RequestType]
  /\ issued \subseteq Codes
  /\ pairings \in [Codes -> Nat]
  /\ contested \subseteq Codes
  /\ cut \subseteq Codes
  /\ accepted \in [Envelopes -> Nat]
  /\ faults \in Nat
  /\ restarts \in Nat

(* A device carries a pairing code only when the owner of the code created   *)
(* it, that very device claimed it first, and it was confirmed: whichever    *)
(* devices claim at once, and when the stores change between two calls.      *)
ConfirmedFor(c, d) ==
  \E s \in Stores : /\ sessions[s][c].status = "confirmed"
                    /\ sessions[s][c].device = d
                    /\ sessions[s][c].createdBy = Owner[d]
CodePairsClaimedDevice ==
  \A s \in Stores, d \in Devices :
    devices[s][d].code # None => ConfirmedFor(devices[s][d].code, d)

(* A confirmed code stores its device exactly once, so that a revoked device *)
(* does not come back with it: unless two confirmations were in progress at  *)
(* once, or one ended between the two calls it makes.                        *)
Settled(c) ==
  /\ c \notin contested \cup cut
  /\ ~\E r \in Requests : Confirming(r, c)
PairedOnce ==
  \A c \in Codes :
    /\ c \notin contested => pairings[c] <= 1
    /\ Settled(c) /\ sessions["postgres"][c].status = "confirmed" => pairings[c] = 1

(* What a code has reached is final: an expired or confirmed session is never *)
(* revived or taken back by a request that read it before.                   *)
FinalStays ==
  [][\A c \in Codes : sessions["postgres"][c].status \in {"expired", "confirmed"}
       => sessions'["postgres"][c] = sessions["postgres"][c]]_vars

(* "idempotent": a mesh bundle handed in again and again, also after errors  *)
(* and restarts, is accepted once, and once more for every store error.      *)
AcceptedOnce == \A e \in Envelopes : accepted[e] <= 1 + faults
=============================================================================
