SPECIFICATION CalibrationSpec
CONSTANTS
  Family <- Families
  Vendors <- VendorsMC
  Products <- ProductsMC
  NoFamily = NoFamily
  NoVersion = NoVersion
  NoMatch = NoMatch
  NoScore = NoScore
  AnyRest = AnyRest
  Component <- ComponentsMC
  Row <- RowsMC
  Similarity <- SimilarityMC
  TopK = 2
  Base <- BaseMC
  MaxComponents = 2
  StrictenDelta = 5
  LoosenDelta = 3
  MinSamples = 1
  MaxVerdicts = 3
INVARIANTS
  StrongestKept
  ExactConfirmed
  FollowsFeedback
CHECK_DEADLOCK FALSE
