SPECIFICATION CursorSpec
CONSTANTS
  h1 = h1
  h2 = h2
  h3 = h3
  Handlers <- ThreeHandlers
  MaxOffset = 3
  MaxFaults = 2
  MaxRestarts = 2
CHECK_DEADLOCK FALSE
SYMMETRY Interchangeable
INVARIANTS CursorNeverBack FallbackNeverBack
