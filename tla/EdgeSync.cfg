SPECIFICATION FairSpec
CONSTANTS
  e1 = e1
  e2 = e2
  bad = bad
  c1 = c1
  hidden = hidden
  EdgeEvents <- TwoAndBad
  CentralEvents <- OneHidden
  Invalid <- BadOnly
  Deliverable <- SeesBoth
  BatchLimit = 2
  ReplayLimit = 1
  CacheLimit = 1
  DeadLimit = 1
  MaxWriters = 2
  MaxFaults = 1
ACTION_CONSTRAINTS OverflowsFullOutbox OverlapsEarly HiddenFirst
INVARIANTS CacheComplete AcceptedSurvives
PROPERTIES OnlineMeansFlushed ImplementsDelivery OutboxDrains EventsReachEdge
