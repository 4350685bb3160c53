CONSTANTS
  a1 = a1
  w1 = w1
  w2 = w2
  t1 = t1
  t2 = t2
  a2 = a2
  Addrs = {a1, a2}
  Questions = {q1}
  Whole = Whole
  MaxFails = 2
  FailsKept = 2
  Expire = 1
  Penalties <- ScaledPenalties
  MaxNow = 2
  MaxIdleTime = 1
  MaxQueries = 2
  MaxIdlePerAuth = 1
  MaxIdlePerThread = 1
  Workers = {w1, w2}
  Threads = {t1, t2}
  Setups <- AllSetups
  NoAddr = NoAddr
  NoQuestion = NoQuestion
  NoConn = NoConn
  TcpAnswers = TRUE
SPECIFICATION Spec
INVARIANTS TypeOK Deserved
PROPERTIES RefusedThenAsked
