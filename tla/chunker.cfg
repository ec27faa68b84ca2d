SPECIFICATION FairSpec
CONSTANTS
  a = a
  b = b
  Bytes = {a, b}
  Gear <- MCGear
  HashBits = 6
  AvgSize = 4
  ReadSize = 20
  Inputs <- MCInputs
INVARIANTS TypeOK ContentDecides ChunksTile BufferBounded EditsAreLocal
PROPERTY StreamEnds
CHECK_DEADLOCK FALSE
