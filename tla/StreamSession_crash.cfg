SPECIFICATION Spec
CONSTANTS
  Callers = {c1}
  Routines = {h}
  Main = h
  NoThread = NoThread
  Cap = 1
  MaxSend = 3
  MaxOut = 2
  HasTimeout = FALSE
INVARIANTS NeverCrashes
CHECK_DEADLOCK FALSE
