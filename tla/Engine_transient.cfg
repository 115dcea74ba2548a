\* A one-shot effect (on, off) and then an effect that needs the threads.
SPECIFICATION Spec
CONSTANTS
  Callers = {c1}
  MaxThreads = 1
  MaxCalls = 2
  MaxTime = 0
  HighWater = 1
  LowLatency = 1
  Delays = {0}
  Transients = TRUE
  JoinExpires = FALSE
PROPERTIES StartLeavesThreads
