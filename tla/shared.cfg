SPECIFICATION FairSpec
CONSTANTS
  a = a
  b = b
  c1 = c1
  c2 = c2
  NoChunk = NoChunk
  Names = {1, 2}
  Chunks = {a, b}
  Clen <- MCClen
  NumVolumes = 3
  SpareMin = 3
  Threshold <- MCThreshold
  DeadGate = 50
  PressureGate = 80
  Clients = {c1, c2}
  Commands = {"put", "rm", "compact"}
  Contents <- MCContents
  Transport = "hosted"
  MaxCasRetries = 2
  HalfRemovals = FALSE
  MaxOps = 3
INVARIANT SnapshotFresh
PROPERTIES ImplementsFileStore CommandsEnd
CHECK_DEADLOCK FALSE
