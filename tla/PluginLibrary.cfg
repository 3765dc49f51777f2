SPECIFICATION LibSpec
CONSTANTS
  Threads = {t1, t2}
  Streams = {h1}
  NoStream = NoStream
  Cap = 1
INVARIANTS NoCallAfterUnload AllStreamsClosed
PROPERTIES ImplementsPipe CloseReturns EofIsTheEnd ImplementsHost
CHECK_DEADLOCK FALSE
