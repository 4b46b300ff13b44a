CONSTANTS
  NCodes = 2
  LowSize = 256
  High1Size = 256
  High2Size = 16
  ReadSize = 8
  MaxSample = 4095
  Singles = {}
  Followers = {0}
SPECIFICATION CSpec
INVARIANT PairCountsHave12Bits
