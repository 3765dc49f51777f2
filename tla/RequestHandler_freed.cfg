SPECIFICATION Spec
CONSTANTS
  Callers = {c1}
  Isolates = {i1}
  NoIsolate = NoIsolate
  MaxCalls = 2
INVARIANT HandlerReadsLiveData
CHECK_DEADLOCK FALSE
