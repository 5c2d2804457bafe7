SPECIFICATION FairSpec
CONSTANTS
  r1 = r1
  r2 = r2
  r3 = r3
  r4 = r4
  NoValue = NoValue
  Reqs = {r1, r2, r3, r4}
  ItemsOf <- MCItemsOf
  Capacity = 2
  SizerItems = TRUE
  BlockOnOverflow = TRUE
  Consumers = {c1}
  NilDecodes = FALSE
  OldQueue <- NoOldQueue
  OldRead = 0
  RecoveryCrashes = FALSE
  MaxIndex = 8
  MaxErrs = 0
  MaxCrashes = 2
INVARIANTS DispatchedOnce NoStrandedProducer
PROPERTIES Implements OffersFinish
CHECK_DEADLOCK FALSE
