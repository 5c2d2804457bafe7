SPECIFICATION Spec
CONSTANTS
  r1 = r1
  r2 = r2
  r3 = r3
  r4 = r4
  NoValue = NoValue
  Reqs = {r1, r2}
  ItemsOf <- MCItemsOf
  Capacity = 3
  SizerItems = TRUE
  BlockOnOverflow = TRUE
  Consumers = {c1, c2}
  NilDecodes = FALSE
  OldQueue <- NoOldQueue
  OldRead = 0
  RecoveryCrashes = TRUE
  MaxIndex = 6
  MaxErrs = 0
  MaxCrashes = 2
INVARIANT AcceptedSurvives
CHECK_DEADLOCK FALSE
