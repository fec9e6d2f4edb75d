SPECIFICATION Spec
CONSTANTS
  b1 = b1  b2 = b2  b3 = b3  b4 = b4
  triageR = triageR  unpackR = unpackR  analysisR = analysisR  matchR = matchR
  allR = allR
  NoBlob = NoBlob
  Blob <- ThreeBlobs
  Router <- ScaledRouters
  Serves <- ScaledServes
  Leaves = 2
  Backend = "contract"
  MaxFaults = 1
  MaxCrashes = 1
SYMMETRY BlobSymmetry
INVARIANTS
  AtMostOneCompletion
  AnnouncedIsDurable
  ReplaysBounded
  TotalCoversFanOut
  CountersCountChildren
PROPERTIES
  TotalFinalOnceMarked
CHECK_DEADLOCK FALSE
