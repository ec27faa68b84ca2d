SPECIFICATION Spec
CONSTANTS
  a = a
  NoChunk = NoChunk
  Names = {1, 2}
  Chunks = {a}
  Clen <- MCClen
  NumVolumes = 2
  SpareMin = 3
  Threshold <- MCThreshold
  DeadGate = 50
  PressureGate = 80
  checkpoint_interval = 3
  MaxCommits = 6
INVARIANTS ReadersSeeWhatWasMade ExcessIsCompactions

CHECK_DEADLOCK FALSE
