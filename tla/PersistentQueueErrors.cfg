SPECIFICATION Spec
CONSTANTS
  r1 = r1
  r2 = r2
  r3 = r3
  r4 = r4
  NoValue = NoValue
  Reqs = {r1, r2, r3}
  ItemsOf <- MCItemsOf
  Capacity = 2
  SizerItems = FALSE
  BlockOnOverflow = FALSE
  Consumers = {c1, c2}
  NilDecodes = TRUE
  OldQueue <- TwoOld
  OldRead = 1
  RecoveryCrashes = FALSE
  MaxIndex = 7
  MaxErrs = 2
  MaxCrashes = 1
INVARIANTS TypeOK AcceptedSurvives ClientClosedLast WithinCapacity NoIdleConsumer
CHECK_DEADLOCK FALSE
