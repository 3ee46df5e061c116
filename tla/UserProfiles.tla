----------------------------- MODULE UserProfiles -----------------------------
(***************************************************************************)
(* The stored preferences of a user.  Unlike the other stores, this one is  *)
(* tried again once it has failed: an operation that finds it degraded      *)
(* initialises it, or waits with the others for the one who does.           *)
(***************************************************************************)
EXTENDS StoredRecord

VARIABLES
  memory,      \* the profile in the fallback store, if it has one
  recovering,  \* userProfileStoreRecovery is set
  missed,      \* settings were read for a write, or written, in the fallback
  begun        \* how many requests were begun

profiles == <<memory, recovering, missed, begun>>
Unknown == [known |-> FALSE, content |-> Blank]

\* ensureUserProfileStoreReady(): the next step of a request, after it.
Ready(request, on) == [request EXCEPT !.at = "store", !.on = on]
Ensured(request) == IF degraded THEN [request EXCEPT !.at = "wait"] ELSE Ready(request, "postgres")
Recovers == recovering' = (recovering \/ degraded)

\* GET /me/preferences has no patch: it writes only if there is no profile.
\* PUT reads the profile for the settings that its body does not give.
Preferences(r, patch) ==
  /\ kind = "profile" /\ begun < MaxWrites
  /\ begun' = begun + 1
  /\ Begin(r, Ensured([at |-> "wait", does |-> "read", on |-> "postgres", patch |-> patch, value |-> Blank,
                       fresh |-> TRUE]))
  /\ Recovers
  /\ UNCHANGED <<row, degraded, cut, faults, restarts, memory, missed>>

RecoveryEnds(ok) ==
  /\ recovering
  /\ recovering' = FALSE
  /\ degraded' = ~ok
  /\ req' = [r \in Requests |->
       IF req[r].at = "wait" THEN Ready(req[r], IF ok THEN "postgres" ELSE "memory") ELSE req[r]]

RecoverySucceeds ==
  /\ RecoveryEnds(TRUE)
  /\ UNCHANGED <<row, cut, faults, restarts, memory, missed, begun>>

\* Mutant: who asks for the recovery that fails is not told.
RecoveryHangs ==
  /\ faults < MaxFaults
  /\ faults' = faults + 1
  /\ recovering /\ recovering' = FALSE
  /\ UNCHANGED <<row, degraded, req, cut, restarts, memory, missed, begun>>

RecoveryFails ==
  /\ faults < MaxFaults
  /\ faults' = faults + 1
  /\ RecoveryEnds(FALSE)
  /\ UNCHANGED <<row, cut, restarts, memory, missed, begun>>

Stored(on) == IF on = "memory" THEN memory ELSE [known |-> exists, content |-> content]

ReadProfile(r) ==
  LET found == Stored(req[r].on)
      value == Merge(found.content, req[r].patch)
      answered == req[r].patch = Blank /\ found.known
  IN
  /\ req[r].at = "store" /\ req[r].does = "read"
  /\ IF answered
     THEN Goes(r, Idle) /\ UNCHANGED <<recovering, missed>>
     ELSE /\ Goes(r, Ensured([req[r] EXCEPT !.does = "write", !.value = value, !.fresh = TRUE]))
          /\ Recovers
          /\ missed' = (missed \/ req[r].on = "memory")
  /\ UNCHANGED <<row, degraded, cut, faults, restarts, memory, begun>>

UpsertProfile(r) ==
  /\ req[r].at = "store" /\ req[r].does = "write"
  /\ IF req[r].on = "postgres"
     THEN Writes(r, Idle) /\ exists' = TRUE /\ UNCHANGED <<memory, missed>>
     ELSE /\ memory' = [known |-> TRUE, content |-> req[r].value]
          /\ missed' = TRUE
          /\ Goes(r, Idle)
          /\ UNCHANGED <<exists, content, latest, overtaken>>
  /\ UNCHANGED <<degraded, cut, world, recovering, begun>>

\* The fallback goes on, after a write whose answer is lost as well.
ProfileFails(r) ==
  /\ req[r].at = "store" /\ req[r].on = "postgres"
  /\ \/ /\ Goes(r, Ready(req[r], "memory"))
        /\ UNCHANGED <<exists, content, latest, overtaken>>
     \/ /\ req[r].does = "write"
        /\ Writes(r, Ready(req[r], "memory"))
        /\ exists' = TRUE
  /\ Fault(FALSE)
  /\ UNCHANGED profiles

ProfileRequests ==
  [at : {"wait", "store"}, does : {"read", "write"}, on : {"postgres", "memory"}, patch : Contents,
   value : Contents, fresh : BOOLEAN]

ProfileInit ==
  /\ memory = Unknown
  /\ recovering = FALSE
  /\ missed = FALSE
  /\ begun = 0
=============================================================================
