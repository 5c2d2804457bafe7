SPECIFICATION Spec
CONSTANTS
  e1 = e1
  e2 = e2
  x = x
  y = y
  at = at
  am = am
  bt = bt
  t1 = t1
  t2 = t2
  m1 = m1
  Exts <- MCExts
  Fixed <- MCFixed
  Receivers <- MCReceivers
  Key <- MCKey
  Edges <- MCEdges
  Entry <- MCEntry
  Configs <- MCConfigs
  PartialReload = TRUE
  NoOne = NoOne
  MaxFaults = 0
  MaxReports = 0
  MaxReloads = 1
INVARIANTS UnchangedKeepRunning
CHECK_DEADLOCK FALSE
