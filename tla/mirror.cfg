SPECIFICATION MirrorSpec
CONSTANTS
  a = a
  b = b
  c1 = c1
  NoChunk = NoChunk
  Names = {1, 2}
  Chunks = {a, b}
  Clen <- MCClen
  NumVolumes = 3
  SpareMin = 3
  Threshold <- MCThreshold
  DeadGate = 50
  PressureGate = 80
  Clients = {c1}
  Commands = {"put", "rm", "compact"}
  Contents <- MCContents
  Transport = "local"
  MaxCasRetries = 1
  HalfRemovals = TRUE
  MaxOps = 4
INVARIANTS MirrorTypeOK
PROPERTIES MirrorServes InterruptionHarmless
CHECK_DEADLOCK FALSE
