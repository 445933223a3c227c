SPECIFICATION LinkFairSpec
CONSTANTS
  Closers = {c1, c2}
  Operations = {o1, o2}
  RecvTask = o1
  SendTask = o2
  None = None
  MaxFrames = 1
  PipeSize = 1
  BufferSize = 1
PROPERTY CloseGetsOn
CHECK_DEADLOCK FALSE
