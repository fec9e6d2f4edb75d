SPECIFICATION Spec
CONSTANTS
  b1 = b1  b2 = b2  b3 = b3  b4 = b4
  triageR = triageR  unpackR = unpackR  analysisR = analysisR  matchR = matchR
  allR = allR
  NoBlob = NoBlob
  Blob <- TwoBlobs
  Router <- FatRouters
  Serves <- FatServes
  Leaves = 2
  Backend = "contract"
  MaxFaults = 0
  MaxCrashes = 0
SYMMETRY BlobSymmetry
INVARIANTS
  ReportComplete
CHECK_DEADLOCK FALSE
