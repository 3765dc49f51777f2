SPECIFICATION HandlersSpec
CONSTANTS
  Callers = {c1}
  Routines = {h}
  Main = h
  NoThread = NoThread
  Cap = 1
  MaxSend = 2
  MaxOut = 3
  HasTimeout = TRUE
  Items = 2
INVARIANTS NoDoubleClose NoGap OneTerminal ToldUnlessCancelled EndIsComplete
PROPERTIES SendersReleased CancelEndsHandler
CHECK_DEADLOCK FALSE
