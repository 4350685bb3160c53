CONSTANTS
  w1 = w1
  w2 = w2
  n1 = n1
  n2 = n2
  Workers = {w1}
  Names = {n1}
  NoJob = NoJob
  RatePeriod = 1
  ResolveTime = 1
  PurgeEvery = 2
  MaxLag = 1
  MaxNow = 4
  MaxPushes = 2
SPECIFICATION Spec
PROPERTIES ScheduledWillRun
