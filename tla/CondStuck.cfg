SPECIFICATION Spec
CONSTANTS
  NoOne = NoOne
  Threads = {t1, t2, t3, t4}
INVARIANT SignalNeverStuck
CHECK_DEADLOCK FALSE
