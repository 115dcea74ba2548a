\* One caller, an audio delay of one frame: what is held while the queue is empty.
SPECIFICATION Spec
CONSTANTS
  Callers = {c1}
  MaxThreads = 1
  MaxCalls = 2
  MaxTime = 3
  HighWater = 1
  LowLatency = 1
  Delays = {1}
  Transients = FALSE
  JoinExpires = FALSE
PROPERTIES FramesInOrder
