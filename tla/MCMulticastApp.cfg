SPECIFICATION EitherFairSpec
CONSTANTS
  Peers = {p1, p2}
  Requests = {r1, r2, r3}
  MaxConcurrency = 2
  Readers = {a, b}
  Sizes = {1, 2, 5}
  MaxSize = 3
  MaxBytes = 4
  PerPeer = 2
INVARIANTS RequestsAccounted QueueConsistent
PROPERTIES ServiceSpec StopEnds EveryRequestEnds QuotaIsReturned
CHECK_DEADLOCK FALSE
