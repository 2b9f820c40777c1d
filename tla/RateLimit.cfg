SPECIFICATION Spec
CONSTANTS
  Clients = {c1, c2}
  Requests = {r1, r2}
  Limit = 1
  LastMinute = 1
  MaxArrivals = 5
  MaxLosses = 1
  NoClient = NoClient
SYMMETRY RequestSymmetry
INVARIANTS
  QuotaAtMostDoubles
  RefusedOnlyOverLimit
CHECK_DEADLOCK FALSE
