SPECIFICATION Spec
CONSTANTS
  Workers = {w1, w2}
  None = None
  Worlds <- MCWorlds
  MaxQueries = 50
  MaxDepth = 8
  MaxCNAMEs = 10
  MaxNSQueries = 10
  OneLabel = 4
  MaxMinimize = 10
  MaxStack = 30
INVARIANTS TypeOK AnswerTrue WorkingIsFound
CHECK_DEADLOCK FALSE
PROPERTY Answered
