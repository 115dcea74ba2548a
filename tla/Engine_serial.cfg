\* One caller at a time, joins that see the threads end, no audio delay.
SPECIFICATION FairHistorySpec
CONSTANTS
  Callers = {c1}
  MaxThreads = 2
  MaxCalls = 3
  MaxTime = 3
  HighWater = 2
  LowLatency = 1
  Delays = {0}
  Transients = FALSE
  JoinExpires = FALSE
INVARIANTS TypeOK OneThreadPair
PROPERTIES FramesInOrder QuietWhenStopped PlaysAsAsked PlayerGoesOn
