SPECIFICATION ScenesFairSpec
CONSTANTS
  Peers = {c1, c2}
  Senders = {s1, s2}
  MaxConnections = 2
  QueueSize = 1
  IdleTimeout = 1
  MostFrames = 3
INVARIANTS ConnectionsAccounted FramesInOrder
PROPERTY SlotsReturn
CHECK_DEADLOCK FALSE
