SPECIFICATION FairSpec
CONSTANTS
  c1 = c1
  c2 = c2
  k1 = k1
  k2 = k2
  NoConsumer = NoConsumer
  Consumer <- TwoConsumers
  Key <- TwoKeys
  N = 4
  Log <- FourRecords
  MaxRebalances = 2
  MaxCrashes = 1
  MaxFaults = 1
INVARIANTS
  HandledAtMostOnce
  NothingPassedOver
  SkipHidesNoLoss
PROPERTIES
  PartitionDrains
CHECK_DEADLOCK FALSE
