SPECIFICATION Spec
CONSTANTS
  a = a
  b = b
  c1 = c1
  c2 = c2
  NoChunk = NoChunk
  Names = {1, 2}
  Chunks = {a, b}
  Clen <- MCClen
  NumVolumes = 2
  SpareMin = 3
  Threshold <- MCThreshold
  DeadGate = 50
  PressureGate = 80
  Clients = {c1}
  Commands = {"put", "rm", "compact"}
  Contents <- MCContents
  Transport = "local"
  MaxCasRetries = 2
  HalfRemovals = TRUE
  MaxOps = 6
INVARIANTS TypeOK OnlyHollowDangle LiveWithinTotal PutFindsVolume BudgetWall
CHECK_DEADLOCK FALSE
