CONSTANTS
  ChunkMax = 2
  JobMax = 3
  CodeRoom = 30
  KernelMin = 2
  Batches <- MCBatches
  Sizes = {23}
SPECIFICATION Spec
INVARIANT WithinBuffer
CHECK_DEADLOCK FALSE
