--------------------------- MODULE FederationStore ---------------------------
(***************************************************************************)
(* What the parts of the COP API that keep their state in the federation    *)
(* store have in common: the status of the store, which the process leaves  *)
(* for its memory at the first error, the requests that wait for a          *)
(* statement, and the restarts of the process.                              *)
(***************************************************************************)
EXTENDS Naturals

CONSTANTS
  Handlers,   \* requests that may be in progress at once
  MaxFaults,  \* bound on store errors
  MaxRestarts \* bound on restarts of the API

ASSUME FederationStoreAssumption == MaxFaults \in Nat /\ MaxRestarts \in Nat

VARIABLES
  status,     \* federationRuntimeStoreStatus
  req,        \* what each handler is doing
  overlapped, \* two requests have been in progress at once
  faults, restarts

Idle == [at |-> "idle"]

StoreInit ==
  /\ status = "ok"
  /\ req = [h \in Handlers |-> Idle]
  /\ overlapped = FALSE
  /\ faults = 0
  /\ restarts = 0

Begin(h, r) ==
  /\ req[h] = Idle
  /\ req' = [req EXCEPT ![h] = r]
  /\ overlapped' = (overlapped \/ \E g \in Handlers : req[g] # Idle)

Finish(h) == req' = [req EXCEPT ![h] = Idle]

\* A statement fails, or its answer is lost: the process gives the store up.
MarkDegraded ==
  /\ faults < MaxFaults
  /\ faults' = faults + 1
  /\ status' = "degraded"
  /\ UNCHANGED <<restarts, overlapped>>

\* The process ends and a new one starts; its first use of the store may fail.
NewProcess ==
  /\ restarts < MaxRestarts
  /\ restarts' = restarts + 1
  /\ status' \in {"ok"} \cup (IF faults < MaxFaults THEN {"degraded"} ELSE {})
  /\ faults' = IF status' = "ok" THEN faults ELSE faults + 1
  /\ req' = [h \in Handlers |-> Idle]
  /\ UNCHANGED overlapped
=============================================================================
