SPECIFICATION ReaderSpec
CONSTANTS
  a = a
  b = b
  c1 = c1
  c2 = c2
  r1 = r1
  Readers = {r1}
  NoChunk = NoChunk
  Names = {1, 2}
  Chunks = {a, b}
  Clen <- MCClen
  NumVolumes = 3
  SpareMin = 3
  Threshold <- MCThreshold
  DeadGate = 50
  PressureGate = 80
  Clients = {c1}
  Commands = {"put", "rm", "compact"}
  Contents <- MCContents
  Transport = "hosted"
  MaxCasRetries = 2
  HalfRemovals = FALSE
  MaxOps = 4
INVARIANTS NoDangling ReclaimsGarbage MissingMeansOvertaken Accounted
PROPERTY CompactionFrees
CHECK_DEADLOCK FALSE
