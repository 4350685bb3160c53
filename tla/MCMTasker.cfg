CONSTANTS
  k1 = k1
  k2 = k2
  v1 = v1
  NoKey = NoKey
  NoVal = NoVal
  Keys = {k1, k2}
  Vals = {v1}
  Timeouts = {0, 1, 2}
  DefDelay = 2
  MaxCachedStacks = 1
  MaxThreads = 2
  MaxYields = 1
  MaxNow = 6
SPECIFICATION FairSpec
INVARIANTS TypeOK Handshake WaitersMatch OnePlace CountExact
PROPERTIES NoEarlyTimeout PollMeetsDeadline TimedWaitEnds ReadyRuns
