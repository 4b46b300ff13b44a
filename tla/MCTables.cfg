CONSTANTS
  Byte = {0, 1, 2}
  MaxLen = 4
  MaxSymbols = 5
  Bucket <- MCBucket
  Candidates <- MCCandidates
  NCodes = 4
  LowSize = 2
  High1Size = 6
  High2Size = 4
  ReadSize = 2
  MaxSample = 7
  Singles = {0, 1, 3}
  Followers = {0, 1, 3}
SPECIFICATION MCSpec
INVARIANT LongestMatch
INVARIANT FinalLayout
INVARIANT DecoderKnowsEncoder
INVARIANT ScansAreExact
INVARIANT TerminatorIsMostFrequent
PROPERTY ClearForgets
PROPERTY FinalizeKeepsSymbols
CHECK_DEADLOCK FALSE
