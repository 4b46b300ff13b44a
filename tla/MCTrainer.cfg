CONSTANTS
  Byte = {0, 1, 2}
  MaxLen = 4
  MaxSymbols = 4
  Bucket <- MCBucket
  Candidates <- Strings
  Samples <- MCSamples
  MinCount <- MCMinCount
  Options <- MCOptions
  MaxSymbols12 = 3
  Bucket12 <- MCBucket12
  SampleTarget = 5
  SampleLine = 3
  LineLengths <- MCLineLengths
SPECIFICATION MCSpec
INVARIANT SymbolsOccur
INVARIANT CountsFitTable
INVARIANT TrainedTable
INVARIANT TrainedMap
INVARIANT SampleFits
PROPERTY UsesTheTable
PROPERTY TakesTheBest
PROPERTY TakesTheBest12
CHECK_DEADLOCK FALSE
