SPECIFICATION AiohttpFairSpec
CONSTANTS
  r1 = r1
  r2 = r2
  r3 = r3
  Requests = {r1, r2, r3}
  Own <- OwnRequests
  Size <- BodySize
  MaxPending = 2
  MaxBytes = 2
  Upgrades = {r1, r2, r3}
  Senders = {s1, s2}
  Modes = {TRUE, FALSE}
  MaxConnections = 2
  QueueSize = 1
INVARIANTS ServerAccounted RepliesMatch ConnectionsAccounted
PROPERTIES NoWorkForTheGone EveryRequestAnswered CloseEnds
CHECK_DEADLOCK FALSE
