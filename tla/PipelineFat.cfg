SPECIFICATION FairSpec
CONSTANTS
  b1 = b1  b2 = b2  b3 = b3  b4 = b4
  triageR = triageR  unpackR = unpackR  analysisR = analysisR  matchR = matchR
  allR = allR
  NoBlob = NoBlob
  Blob <- ThreeBlobs
  Router <- FatRouters
  Serves <- FatServes
  Leaves = 3
  Backend = "contract"
  MaxFaults = 0
  MaxCrashes = 0
INVARIANTS
  GateSound
  EveryChildTravels
PROPERTIES
  ImplementsJobReport
  TriagedReachesFinalize
CHECK_DEADLOCK FALSE
