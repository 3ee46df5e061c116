---------------------------- MODULE ReplayCursor ----------------------------
(***************************************************************************)
(* The replay cursor the COP API keeps for an edge node: a row whose value  *)
(* only grows, a copy in the memory of the process, and the copy alone      *)
(* after the first store error.  The copy is written when the answer of the *)
(* store arrives, not when the store was changed.                           *)
(***************************************************************************)
EXTENDS FederationStore

CONSTANT MaxOffset \* highest offset acknowledged

ASSUME CursorAssumption == MaxOffset \in Nat

VARIABLES
  stored,  \* the table has a row for the node
  row,     \* its last_acked_offset, 0 when there is no row
  cache,   \* edgeReplayCursors of the process, 0 when it has no entry
  promised \* highest cursor any answer has carried

cursorVars == <<stored, row, cache, status, req, promised, overlapped, faults, restarts>>

Offsets == 0..MaxOffset
Larger(m, n) == IF m > n THEN m ELSE n

CursorInit ==
  /\ StoreInit
  /\ stored = FALSE
  /\ row = 0
  /\ cache = 0
  /\ promised = 0

Answer(h, n) ==
  /\ promised' = Larger(promised, n)
  /\ Finish(h)

-----------------------------------------------------------------------------
(* getRuntimeEdgeCursor() and updateRuntimeEdgeCursor() while the store is   *)
(* in use: a statement, then the continuation that keeps what it returned.   *)

GetEdgeCursor(h) ==
  /\ status = "ok"
  /\ Begin(h, [at |-> "get", offset |-> 0])
  /\ UNCHANGED <<stored, row, cache, status, promised, faults, restarts>>

UpdateEdgeCursor(h, n) ==
  /\ status = "ok"
  /\ Begin(h, [at |-> "ack", offset |-> n])
  /\ UNCHANGED <<stored, row, cache, status, promised, faults, restarts>>

Select(h) ==
  /\ req[h].at = "get"
  /\ req' = [req EXCEPT ![h] = [at |-> IF stored THEN "answered" ELSE "missing", offset |-> row]]
  /\ UNCHANGED <<stored, row, cache, status, promised, overlapped, faults, restarts>>

\* Mutant: the row takes the acknowledged offset as it is.
UpsertPlain(h) ==
  /\ req[h].at = "ack"
  /\ stored' = TRUE
  /\ row' = req[h].offset
  /\ req' = [req EXCEPT ![h] = [at |-> "answered", offset |-> row']]
  /\ UNCHANGED <<cache, status, promised, overlapped, faults, restarts>>

\* ON CONFLICT DO UPDATE SET last_acked_offset = GREATEST(...).
Upsert(h) ==
  /\ req[h].at = "ack"
  /\ stored' = TRUE
  /\ row' = Larger(row, req[h].offset)
  /\ req' = [req EXCEPT ![h] = [at |-> "answered", offset |-> row']]
  /\ UNCHANGED <<cache, status, promised, overlapped, faults, restarts>>

StoreAnswers(h) ==
  /\ req[h].at = "answered"
  /\ cache' = req[h].offset
  /\ Answer(h, req[h].offset)
  /\ UNCHANGED <<stored, row, status, faults, restarts, overlapped>>

\* A missing row leaves the copy alone, and the answer carries 0.
NoRowAnswered(h) ==
  /\ req[h].at = "missing"
  /\ Answer(h, 0)
  /\ UNCHANGED <<stored, row, cache, status, faults, restarts, overlapped>>

-----------------------------------------------------------------------------
(* Without the store the copy is all there is.                               *)

\* Mutant: the copy takes the acknowledged offset as it is.
AcknowledgePlain(h, n) ==
  /\ cache' = n
  /\ Answer(h, cache')

Acknowledge(h, n) ==
  /\ cache' = Larger(cache, n)
  /\ Answer(h, cache')

FallbackGet(h) == Answer(h, cache) /\ UNCHANGED cache

\* The statement of a handler fails, before or after it took effect.
GetFails(h) ==
  /\ req[h].at = "get"
  /\ MarkDegraded
  /\ FallbackGet(h)
  /\ UNCHANGED <<stored, row>>

AckFails(h) ==
  /\ req[h].at = "ack"
  /\ MarkDegraded
  /\ \/ UNCHANGED <<stored, row>>
     \/ stored' = TRUE /\ row' = Larger(row, req[h].offset)
  /\ Acknowledge(h, req[h].offset)

GetDegraded(h) ==
  /\ status = "degraded"
  /\ req[h] = Idle
  /\ FallbackGet(h)
  /\ UNCHANGED <<stored, row, status, faults, restarts, overlapped>>

AckDegraded(h, n) ==
  /\ status = "degraded"
  /\ req[h] = Idle
  /\ Acknowledge(h, n)
  /\ UNCHANGED <<stored, row, status, faults, restarts, overlapped>>

CursorRestart ==
  /\ NewProcess
  /\ cache' = 0
  /\ UNCHANGED <<stored, row, promised>>

-----------------------------------------------------------------------------
CursorNext ==
  \/ \E h \in Handlers :
       \/ GetEdgeCursor(h) \/ Select(h) \/ Upsert(h) \/ StoreAnswers(h) \/ NoRowAnswered(h)
       \/ GetFails(h) \/ AckFails(h) \/ GetDegraded(h)
       \/ \E n \in Offsets : UpdateEdgeCursor(h, n) \/ AckDegraded(h, n)
  \/ CursorRestart

CursorSpec == CursorInit /\ [][CursorNext]_cursorVars

-----------------------------------------------------------------------------
\* Every variable has its type.
CursorTypeOK ==
  /\ stored \in BOOLEAN
  /\ row \in Offsets
  /\ cache \in Offsets
  /\ status \in {"ok", "degraded"}
  /\ req \in [Handlers -> {Idle} \cup [at : {"get", "ack", "answered", "missing"}, offset : Offsets]]
  /\ promised \in Offsets
  /\ overlapped \in BOOLEAN
  /\ faults \in Nat
  /\ restarts \in Nat

\* What the API would answer now.
Served == IF status = "ok" THEN row ELSE cache

(* "The stored cursor is monotone: a lower or repeated offset does not move  *)
(* the server state back": while the store answers, no request is served     *)
(* less than any was before, whichever requests race and whenever the API    *)
(* restarts.                                                                 *)
CursorNeverBack == faults = 0 => Served >= promised

(* The same when the store fails, at any statement, as long as the process   *)
(* lives and its requests came one after the other.  With two at once it     *)
(* does not hold: the answers may be kept in the other order.                *)
FallbackNeverBack == restarts = 0 /\ ~overlapped => Served >= promised
=============================================================================
