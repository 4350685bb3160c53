CONSTANTS
  i1 = i1
  i2 = i2
  i3 = i3
  s1 = s1
  s2 = s2
  Questions <- OneQuestion
  Subnets = {s1}
  Ids = {i1, i2, i3}
  Fds = {10, 11}
  WaitTimes = {1, 2}
  NetworkTimeout = 2
  MaxChainLength = 2
  NearMissLimit = 0
  IdsRepeat = FALSE
  Closed = Closed
  NoPacket = NoPacket
  NoSubnet = NoSubnet
  DefDelay = 1
  MaxCachedStacks = 0
  MaxThreads = 3
  MaxNow = 4
  MaxAsks = 4
SPECIFICATION Spec
INVARIANTS EverybodyChainedServed
