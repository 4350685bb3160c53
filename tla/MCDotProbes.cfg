CONSTANTS
  w1 = w1
  w2 = w2
  a1 = a1
  a2 = a2
  Workers = {w1, w2}
  Names = {a1, a2}
  NoJob = NoJob
  NoEntry = NoEntry
  RatePeriod = 1
  ResolveTime = 1
  PurgeEvery = 1
  MaxBusy = 1
  FailWait = 2
  SuccessWait = 2
  MaxLag = 1
  MaxNow = 3
  MaxPushes = 2
SPECIFICATION DotFairSpec
INVARIANTS ProbesCounted
PROPERTIES ProbesSpaced BusyEnds
CHECK_DEADLOCK FALSE
