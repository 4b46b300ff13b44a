CONSTANTS
  Byte = {0, 1, 2}
  MaxLen = 3
  MaxSymbols = 4
  Bucket <- MCBucket
  Candidates <- MCCandidates
  ChunkMax = 3
  Batches <- MCBatches
  Sizes = {4, 14, 16}
SPECIFICATION ESpec
INVARIANT WithinBuffer
INVARIANT ConservativeSpace
PROPERTY IsGreedyParser
CHECK_DEADLOCK FALSE
