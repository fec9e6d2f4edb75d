SPECIFICATION JobIndexFairSpec
CONSTANTS
  j1 = j1
  j2 = j2
  Job <- Jobs
  NoIndex = NoIndex
  Ttl = 1
  MaxRecords = 5
  MaxBuildFaults = 1
  MaxAppRestarts = 1
PROPERTIES
  YoungIndexKept
  ExpiredIndexFreed
  CompletedIsIndexed
CHECK_DEADLOCK FALSE
