SPECIFICATION IngestSpec
CONSTANTS
  e1 = e1
  e2 = e2
  a = a
  b = b
  k1 = k1
  k2 = k2
  h1 = h1
  h2 = h2
  Ids <- TwoIds
  Contents <- TwoContents
  Keys <- TwoKeys
  Handlers <- TwoHandlers
  MaxAccepted = 3
CHECK_DEADLOCK FALSE
SYMMETRY Interchangeable
INVARIANTS KeyNamesOneEvent RetryGetsFirstResult PolledOnce
