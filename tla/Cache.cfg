SPECIFICATION CacheSpec
CONSTANTS
  Clients = {c1}
  Keys = {k1, k2}
  Sizes = {2}
  Ttls = {1}
  EntryLimits = {1}
  ByteLimits = {3}
  Throttle = 0
  ChanCap = 1
  FlushAt = 2
  Batch = 1
  MaxTime = 2
  Threads = {t1, t2}
  MaxTimers = 3
INVARIANTS LimitEnforced CleanClose FlushArmed PauseKept
PROPERTIES NoResurrection
