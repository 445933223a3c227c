SPECIFICATION LocalFairSpec
CONSTANTS
  Closers = {c1, c2}
  Operations = {o1, o2}
  RecvTask = o1
  SendTask = o2
  None = None
  MaxFrames = 1
  PipeSize = 1
  BufferSize = 1
  FromA = 2
  FromB = 1
  MaxQueued = 1
INVARIANTS LinkSupervised Delivery
PROPERTIES FramesArrive CloseStops OrphanEnds NothingSentAfterClose WaitsEnd
CHECK_DEADLOCK FALSE
