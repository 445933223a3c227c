SPECIFICATION AuthFairSpec
CONSTANTS
  Runs = {r1, r2}
  Requests = {m1, m2}
  MaxCancels = 3
  d1 = d1
  d2 = d2
  Dependencies <- Given
  Logins = {l1, l2}
  Right = {l1}
  Places = 2
  MaxVerifying = 1
INVARIANTS HandlersHaveContext RunAccounted BackendsAccounted
PROPERTIES ServiceSpec StopEnds CapacityReturns
CHECK_DEADLOCK FALSE
