CONSTANTS
  w1 = w1
  w2 = w2
  n1 = n1
  n2 = n2
  Workers = {w1, w2}
  Names = {n1}
  NoJob = NoJob
  RatePeriod = 2
  ResolveTime = 1
  PurgeEvery = 2
  MaxLag = 1
  MaxNow = 2
  MaxPushes = 3
SPECIFICATION FairSpec
INVARIANTS TypeOK Conservation PushesCounted
PROPERTIES QueueDrains RateLimited
CHECK_DEADLOCK FALSE
