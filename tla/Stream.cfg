SPECIFICATION Spec
CONSTANTS
  i1 = i1
  i2 = i2
  o1 = o1
  o2 = o2
  c1 = c1
  Instances <- TwoInstances
  Objects <- TwoObjects
  Clients <- OneClient
  Deployments <- AllDeployments
  PoolMax = 2
  MaxVersion = 2
  MaxFaults = 2
CHECK_DEADLOCK FALSE
CONSTRAINT SecondObject
SYMMETRY Interchangeable
INVARIANTS ShowsCurrent UpdatesReach NoEcho
