\* One-shot effects, an audio delay and joins that give up after their timeout.
SPECIFICATION FairSpec
CONSTANTS
  Callers = {c1}
  MaxThreads = 2
  MaxCalls = 2
  MaxTime = 0
  HighWater = 1
  LowLatency = 1
  Delays = {0, 1}
  Transients = TRUE
  JoinExpires = TRUE
INVARIANTS DelayBounded
PROPERTIES StragglersEnd
