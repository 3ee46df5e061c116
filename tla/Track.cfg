SPECIFICATION FairSpec
CONSTANTS
  o1 = o1
  o2 = o2
  Objects <- TwoObjects
  Times <- TwoTimes
  BatchSize = 1
  MaxQueue = 2
  MaxEvents = 3
  MaxFaults = 1
  MaxRestarts = 1
CHECK_DEADLOCK FALSE
INVARIANTS LossIsCounted CurrentOnItsWay
PROPERTIES ReadsComplete QueueDrains
