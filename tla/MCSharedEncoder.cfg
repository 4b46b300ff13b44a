CONSTANTS
  Thread = {e1, e2}
  MaxLen = 4
  ChunkMax = 4
  Tables <- MCTables
  Batches <- MCBatches
  Sizes = {14}
SPECIFICATION Spec
INVARIANT StandsForLine
CHECK_DEADLOCK FALSE
