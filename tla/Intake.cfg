SPECIFICATION IntakeFairSpec
CONSTANTS
  j1 = j1
  j2 = j2
  same = same
  old = old
  bomb = bomb
  r1 = r1
  r2 = r2
  Job <- Jobs
  Upload <- Jobs
  Uploader <- Jobs
  MaxResends = 1
  MaxFaults = 1
  Image <- Images
  Contents <- Uploaded
  SizeOf <- Sizes
  FormatOf <- Formats
  DeclaredOf <- Declared
  UnknownFormat = "unknown"
  MinBlob = 64
  SizeRatio = 100
  Bit <- Bits
  Positions <- PositionsOf
  Triager <- Routers
  NoUpload = NoUpload
  MaxTriageFaults = 1
INVARIANTS
  EmitOnce
  NoFalseNegative
  DuplicateIsCovered
PROPERTIES
  SubmittedIsTriaged
CHECK_DEADLOCK FALSE
