SPECIFICATION ProgressFairSpec
CONSTANTS
  Node <- NodesMC
  Archive <- ArchivesMC
  Watched <- WatchedMC
  Kids <- KidsMC
  Order <- OrderMC
  At <- AtMC
  Past <- PastMC
  Level <- LevelMC
  Size <- SizeMC
  Opener <- OpenerMC
  Escape <- EscapeMC
  Verbose <- VerboseMC
  DepthCap = 2
  RatioLimit = 4
  MaxWalkFaults = 1
  b1 = b1
  Browser <- Browsers
  NoSnapshot = NoSnapshot
  MaxVisits = 2
  MaxRestarts = 1
  MaxReread = 1
INVARIANTS
  LeavesInOrder
  
  OutputBounded
  LatestWins
  NeverAhead
PROPERTIES
  WalkEnds
  CompletionShown
CHECK_DEADLOCK FALSE
