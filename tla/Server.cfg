SPECIFICATION HostSpec
CONSTANTS
  Threads = {w1, w2}
  NoThread = NoThread
  Nets = {{}, {"uds"}}
  Overlap = FALSE
  MaxStart = 2
INVARIANTS ImplOpenWhenVisible StartedServes NothingLeft RoundTrip
PROPERTIES ExportsReturn
CHECK_DEADLOCK FALSE
