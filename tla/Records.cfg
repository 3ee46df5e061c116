SPECIFICATION Spec
CONSTANTS
  r1 = r1
  r2 = r2
  Requests = {r1, r2}
  Values = {"v1", "v2"}
  MaxWrites = 3
  MaxFaults = 2
  MaxRestarts = 1
CHECK_DEADLOCK FALSE
INVARIANTS EventsTellWrites NewestEventTells AuditTellsHistory EditsKept
PROPERTIES RequestsAnswered
