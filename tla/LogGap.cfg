SPECIFICATION Spec
CONSTANTS
  e1 = e1
  e2 = e2
  h1 = h1
  h2 = h2
  Events <- TwoEvents
  Handlers <- TwoHandlers
  ReadLimit = 1
  MaxOffset = 3
  MaxFaults = 0
  MaxRestarts = 0
CHECK_DEADLOCK FALSE
INVARIANT NothingSkipped
