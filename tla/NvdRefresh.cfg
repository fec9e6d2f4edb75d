SPECIFICATION RefreshFairSpec
CONSTANTS
  LastCve = 4
  InScope <- InScopeMC
  PageSize = 1
  BatchSize = 2
  Interval = 1
  Lookback = 2
  MaxChanges = 3
  MaxCli = 1
  MaxDisruptions = 1
INVARIANTS
  CorpusCurrent
PROPERTIES
  WindowsMeet
  RefreshGoesOn
