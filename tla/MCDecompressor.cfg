CONSTANTS
  Word = 4
  Symbols <- MCSymbols
  Inputs <- MCInputs
  Sizes = {1, 4, 16, 17, 20}
  Byte12 = {0, 1}
  MaxSymbols12 = 4
  Bucket12 <- MCBucket12
  Dictionaries <- MCDictionaries
  Batches <- MCBatches
  Rooms = {0, 2, 3, 7, 8, 9, 11, 13, 17, 20, 31}
SPECIFICATION MCSpec
INVARIANT InBounds
INVARIANT Room12
INVARIANT LinesComeBack12
PROPERTY ReturnsText
CHECK_DEADLOCK FALSE
