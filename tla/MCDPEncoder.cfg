CONSTANTS
  Thread = {e1}
  MaxLen = 4
  ChunkMax = 4
  Tables <- MCTables
  Batches <- MCBatches
  Sizes = {14, 30}
SPECIFICATION Spec
INVARIANT IsOptimal
INVARIANT StandsForLine
CHECK_DEADLOCK FALSE
