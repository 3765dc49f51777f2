SPECIFICATION BridgeSpec
CONSTANTS
  Callers = {d}
  Routines = {g, r}
  Main = g
  NoThread = NoThread
  Dart = d
  Go = g
  Reader = r
  Requests = 2
  Cap = 1
  MaxSend = 4
  MaxOut = 3
  HasTimeout = FALSE
INVARIANTS NothingLost
CHECK_DEADLOCK FALSE
