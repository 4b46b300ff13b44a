SPECIFICATION MCSpec
CONSTANTS
  NumCodes = 6
  MaxLen = 3
  MaxQueue = 3
  ChunkLen = 5
  Corpora <- MCCorpora
  Alphabet = {0, 1, 2}
  Longest = 3
  NormalCodes = 5
  SampleUnit = 8
  Targets <- MCTargets
  Garbage <- MCGarbage
  Inputs <- MCInputs
  Tails <- MCTails
  Rows <- MCRows
  BlockSizes = {1, 2, 3}
  Hits <- MCHits
  Newline = 10
INVARIANT IntervalsAreOccurrences
INVARIANT ShortestCover
INVARIANT IndexFindsLongest
INVARIANT TextComesBack
INVARIANT RowsComeBack
PROPERTY PicksTheBest
\* a program ends
CHECK_DEADLOCK FALSE
