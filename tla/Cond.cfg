SPECIFICATION Spec
CONSTANTS
  NoOne = NoOne
  Threads = {t1, t2, t3, t4}
INVARIANTS CondBalance CancelNeverBlocks
PROPERTY Implements
CHECK_DEADLOCK FALSE
