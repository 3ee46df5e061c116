SPECIFICATION FairSpec
CONSTANTS
  e1 = e1
  e2 = e2
  h1 = h1
  h2 = h2
  Events <- TwoEvents
  Handlers <- TwoHandlers
  ReadLimit = 1
  MaxOffset = 4
  MaxFaults = 1
  MaxRestarts = 1
CHECK_DEADLOCK FALSE
INVARIANTS NothingSkippedInOrder IdempotentInStore AnsweredIsStored
PROPERTIES ImplementsFeed EventuallyReceived
