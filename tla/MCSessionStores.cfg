SPECIFICATION AllSpec
CONSTANTS
  Keys = {k1, k2, k3, k4, k5}
  Principals = {alice, bob}
  MaxSessions = 2
  TTL = 2
  MaxTime = 2
  None = None
  Calls = {c1, c2}
  MaxConcurrency = 1
  MaxIssued = 4
SYMMETRY Symmetry
INVARIANT AllAccounted
PROPERTY MemoryImplementsSessions
CHECK_DEADLOCK FALSE
