\* Two threads of the server call the same engine.
SPECIFICATION Spec
CONSTANTS
  Callers = {c1, c2}
  MaxThreads = 2
  MaxCalls = 2
  MaxTime = 0
  HighWater = 1
  LowLatency = 1
  Delays = {0}
  Transients = FALSE
  JoinExpires = FALSE
INVARIANTS OneThreadPair
