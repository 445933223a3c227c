SPECIFICATION ClientSpec
CONSTANTS
  Calls = {c1, c2}
  Kinds = {"call", "notes"}
  MaxPushes = 0
  MaxConcurrency = 1
INVARIANT NeverMismatched
CHECK_DEADLOCK FALSE
