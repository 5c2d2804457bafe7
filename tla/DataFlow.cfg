SPECIFICATION Spec
CONSTANTS
  N = 2
  Size = 3
  Topologies <- MCTopologies
INVARIANTS DeliveredAsConfigured SharedIsNeverWritten RefsBalanced FreedOnlyIfShared
CHECK_DEADLOCK FALSE
