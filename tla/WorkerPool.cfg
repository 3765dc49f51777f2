SPECIFICATION PoolSpec
CONSTANTS
  Workers = 2
  Callers = {1, 2}
  Isolates = {i1, i2}
  MainIsolate = i1
  NoIsolate = NoIsolate
  MaxCalls = 2
  MaxRequests = 2
  MaxTimeouts = 1
INVARIANTS AnswerNeverBlocks NoLeak LostOnlyLate LoadCounts
PROPERTIES ImplementsDartCall RequestsAnswered ImplementsCall
CHECK_DEADLOCK FALSE
