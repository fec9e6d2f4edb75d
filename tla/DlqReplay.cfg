SPECIFICATION FairSpec
CONSTANTS
  w1 = w1
  w2 = w2
  d1 = d1
  d2 = d2
  d3 = d3
  j1 = j1
  j2 = j2
  Free = Free
  Worker <- TwoWorkers
  Record <- ThreeRecords
  Job <- Jobs
  JobOf <- TwoOfOneJob
  SelfTargeted <- PassedRecord
  Unreadable <- PassedRecord
  MaxAttempts = 2
  TtlOutlivesHold = TRUE
  MaxFaults = 1
  MaxCrashes = 1
  MaxRebalances = 1
INVARIANTS
  RetryExclusive
  InjectedOncePerTake
  BlockedIsAttended
PROPERTIES
  DlqDrains
CHECK_DEADLOCK FALSE
