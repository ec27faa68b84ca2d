SPECIFICATION Spec
CONSTANTS
  a = a
  b = b
  c1 = c1
  c2 = c2
  NoChunk = NoChunk
  Names = {1, 2}
  Chunks = {a, b}
  Clen <- MCClen
  NumVolumes = 3
  SpareMin = 3
  Threshold <- MCThreshold
  DeadGate = 100
  PressureGate = 80
  Clients = {c1, c2}
  Commands = {"put", "rm", "compact"}
  Contents <- MCContents
  Transport = "file"
  MaxCasRetries = 2
  HalfRemovals = FALSE
  MaxOps = 4
INVARIANT NoDangling
CHECK_DEADLOCK FALSE
