SPECIFICATION FairSpec
CONSTANTS
  r1 = r1
  r2 = r2
  r3 = r3
  NoReq = NoReq
  Reqs = {r1, r2, r3}
  NumItems <- MCNumItems
  MinSize = 2
  MaxSize = 3
  Oversize <- MCOversize
  Consumers = {c1, c2}
  NumWorkers = 2
INVARIANTS DoneWhenFinished NoSilentLoss EachItemOnce
PROPERTIES EveryoneAnswered
CHECK_DEADLOCK FALSE
