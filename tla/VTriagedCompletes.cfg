SPECIFICATION FairSpec
CONSTANTS
  b1 = b1  b2 = b2  b3 = b3  b4 = b4
  triageR = triageR  unpackR = unpackR  analysisR = analysisR  matchR = matchR
  allR = allR
  NoBlob = NoBlob
  Blob <- TwoBlobs
  Router <- FatRouters
  Serves <- FatServes
  Leaves = 1
  Backend = "mongo"
  MaxFaults = 0
  MaxCrashes = 0
PROPERTIES
  TriagedCompletes
CHECK_DEADLOCK FALSE
