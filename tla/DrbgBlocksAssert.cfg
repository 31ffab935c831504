SPECIFICATION BlocksSpec
CONSTANTS
  HalfRange = 8
  ChunkBlocks = 4
  MaxBlocks = 9
INVARIANTS AssertVNotZero
