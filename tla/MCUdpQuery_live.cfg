CONSTANTS
  i1 = i1
  i2 = i2
  i3 = i3
  s1 = s1
  s2 = s2
  Questions <- OneQuestion
  Subnets = {s1}
  Ids = {i1}
  Fds = {10, 11}
  WaitTimes = {1, 2}
  NetworkTimeout = 2
  MaxChainLength = 1
  NearMissLimit = 1
  IdsRepeat = TRUE
  Closed = Closed
  NoPacket = NoPacket
  NoSubnet = NoSubnet
  DefDelay = 0
  MaxCachedStacks = 0
  MaxThreads = 2
  MaxNow = 5
  MaxAsks = 2
SPECIFICATION FairSpec
PROPERTIES AskEnds UsesMTasker
