SPECIFICATION FairSpec
CONSTANTS
  r1 = r1
  r2 = r2
  r3 = r3
  c1 = c1
  c2 = c2
  NoReq = NoReq
  NoOne = NoOne
  Reqs = {r1, r2, r3}
  Configs <- MCConfigs
  KeyOf <- MCKeyOf
  MaxPartitions = 1
  MinSize = 2
  Consumers = {c1, c2}
INVARIANTS OneHolder NothingStranded NothingBehind
PROPERTIES ShutdownTerminates
CHECK_DEADLOCK FALSE
