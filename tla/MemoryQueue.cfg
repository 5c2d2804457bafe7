SPECIFICATION Spec
CONSTANTS
  r2 = r2
  c1 = c1
  NoOne = NoOne
  Reqs = {r1, r2, r3, r4}
  Configs <- MCConfigs
  Capacity = 2
  Consumers = {c1, c2}
  Slots = {d1, d2, d3, d4}
INVARIANTS ResultMatches RefsHeld SizeExact DrainsBeforeStop OfferReturns
SYMMETRY FullSymmetry
CHECK_DEADLOCK FALSE
