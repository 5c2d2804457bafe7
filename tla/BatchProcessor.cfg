SPECIFICATION FairSpec
CONSTANTS
  i1 = i1
  i2 = i2
  i3 = i3
  i4 = i4
  Items = {i1, i2, i3, i4}
  NumElems <- MCNumElems
  KeyOf <- MCKeyOf
  ChanCap = 1
  Configs <- MCConfigs
INVARIANTS EachElementOnce SentBeforeShutdownReturns BatchesWellFormed LimitHolds
PROPERTIES EverythingFinishes
CHECK_DEADLOCK FALSE
