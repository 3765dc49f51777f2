SPECIFICATION Spec
CONSTANTS
  Threads = {t1, t2}
  Streams = {h1}
  NoStream = NoStream
INVARIANT NoHandlerAfterUnload
CHECK_DEADLOCK FALSE
