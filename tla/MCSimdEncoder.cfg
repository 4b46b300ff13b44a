CONSTANTS
  ChunkMax = 2
  JobMax = 3
  CodeRoom = 30
  KernelMin = 2
  Batches <- MCBatches
  Sizes = {8, 23, 40}
SPECIFICATION Spec
INVARIANT LinesWhole
INVARIANT StagingDisjoint
INVARIANT KernelGetsWork
INVARIANT ConservativeSpace
PROPERTY Returns
CHECK_DEADLOCK FALSE
