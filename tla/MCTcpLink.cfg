SPECIFICATION FairSpec
CONSTANTS
  Clients = {c1, c2}
  Keyed = {c1}
  Server = server
  None = None
  Schemes = {"hmac", "token"}
  Closers = {server, c1}
  MaxFrames = 1
INVARIANTS PlaceAccounted
PROPERTIES LinkSpec WaitsEnd
CHECK_DEADLOCK FALSE
