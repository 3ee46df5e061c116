SPECIFICATION Spec
CONSTANTS
  e1 = e1
  e2 = e2
  bad = bad
  c1 = c1
  hidden = hidden
  EdgeEvents <- TwoEvents
  CentralEvents <- NoEvents
  Invalid <- NoEvents
  Deliverable <- NoEvents
  BatchLimit = 2
  ReplayLimit = 1
  CacheLimit = 1
  DeadLimit = 1
  MaxWriters = 2
  MaxFaults = 0
INVARIANTS
  AcceptedDurable
