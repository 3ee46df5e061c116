SPECIFICATION Spec
CONSTANTS
  d1 = d1
  d2 = d2
  u1 = u1
  u2 = u2
  c1 = c1
  e1 = e1
  r1 = r1
  r2 = r2
  None = None
  Devices = {d1, d2}
  Users = {u1, u2}
  Codes = {c1}
  Envelopes = {e1}
  Registering = {d1}
  Owner <- BothOfOne
  Requests = {r1, r2}
  Ttl = 1
  MaxClock = 1
  MaxFaults = 1
  MaxRestarts = 1
CHECK_DEADLOCK FALSE
SYMMETRY Interchangeable
INVARIANTS CodePairsClaimedDevice PairedOnce AcceptedOnce
PROPERTIES FinalStays
