CONSTANTS
  Base = 3
  BlkSz = 2
  Encode <- MCEncode
  Decode <- MCDecode
  Files <- MCFiles
SPECIFICATION Spec
INVARIANT BuffersExclusive
INVARIANT BlocksInOrder
PROPERTY IsBlockFilter
