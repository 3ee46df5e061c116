SPECIFICATION Spec
CONSTANTS
  d1 = d1
  d2 = d2
  h1 = h1
  h2 = h2
  ann = ann
  bob = bob
  Letters <- TwoLetters
  Anonymous <- SecondAnonymous
  Operators <- TwoOperators
  Handlers <- TwoHandlers
  MaxFaults = 1
  MaxRestarts = 1
  MaxRedrives = 1
CHECK_DEADLOCK FALSE
SYMMETRY Interchangeable
INVARIANTS RetriesWerePublished RejectionIsKept
PROPERTIES FirstCloserStays RetriesNeverLost
