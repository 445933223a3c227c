SPECIFICATION ClientFairSpec
CONSTANTS
  Calls = {c1, c2, c3}
  Kinds = {"call", "batch", "notify", "listen"}
  MaxPushes = 1
  MaxConcurrency = 2
INVARIANT ExchangesAccounted
PROPERTIES HarmlessWaiters EveryCallEnds
CHECK_DEADLOCK FALSE
