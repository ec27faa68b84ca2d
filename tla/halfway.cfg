SPECIFICATION Spec
CONSTANTS
  a = a
  b = b
  c1 = c1
  NoChunk = NoChunk
  Names = {1}
  Chunks = {a, b}
  Clen <- MCClen
  NumVolumes = 2
  SpareMin = 3
  Threshold <- MCThreshold
  DeadGate = 50
  PressureGate = 80
  Clients = {c1}
  Commands = {"put", "rm", "compact"}
  Contents <- MCContents
  Transport = "local"
  MaxCasRetries = 1
  HalfRemovals = TRUE
  MaxOps = 8
INVARIANT NoDangling
CHECK_DEADLOCK FALSE
ACTION_CONSTRAINT Undisturbed
