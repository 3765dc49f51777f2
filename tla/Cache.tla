-------------------------------- MODULE Cache --------------------------------
(***************************************************************************)
(* The cache service as a whole: the table and its workers (CacheService)  *)
(* under Pause and Resume (CachePause).  The two meet at the ticker of     *)
(* cleanupLoop, which does nothing while the cache is paused, and in       *)
(* Close, which stops the pause timer before it cancels the workers.       *)
(*                                                                         *)
(* A behaviour is either one in which the application comes and goes, and  *)
(* may compact the files, while the clients put nothing (background), or   *)
(* one in which it stays and does not.                                     *)
(***************************************************************************)
EXTENDS CacheService

CONSTANTS Threads, MaxTimers   \* of CachePause

ASSUME PauseAssumption == MaxTimers \in Nat \ {0}

VARIABLES background,
          paused, pauseTimer, started, timer, pc, last   \* of CachePause

Pausing == INSTANCE CachePause

rest == <<now, rows, limits, updates, cloc, evict, maintenanceMu, op, dbOpen, timedOut, disturbed,
          background>>
pauseVars == <<paused, pauseTimer, started, timer, pc, last>>
allVars == <<vars, background, pauseVars>>

CacheInit == Init /\ Pausing!Init /\ background \in BOOLEAN

(* The ticker fires while the cache is paused: continue.                   *)
SkipTick ==
  /\ background /\ cloc = "wait" /\ paused
  /\ UNCHANGED allVars

(* A call of Pause, Resume or Close, or the callback of a timer.           *)
PauseStep ==
  /\ background
  /\ Pausing!Next
  /\ UNCHANGED rest

(* Close has stopped the timer, cancelled the workers and waited.          *)
Stopped == \A t \in Threads : pc[t] # "stop"

Maintain ==
  \/ ~paused /\ Tick
  \/ LockMaintenance \/ CleanupExpired \/ CountRows \/ SumSize \/ UnlockMaintenance
  \/ StopCleanup \/ StopUpdates \/ FlushDone
  \/ Compact \/ CompactReturns
  \/ Stopped /\ CloseDb

CacheNext ==
  \/ PauseStep \/ SkipTick
  \/ background /\ Maintain /\ UNCHANGED <<background, pauseVars>>
  \/ ~background /\ Next /\ ~Compact /\ UNCHANGED <<background, pauseVars>>

CacheSpec == CacheInit /\ [][CacheNext]_allVars

---------------------------------------------------------------------------
(* "The pause takes effect after 3 seconds, allowing Resume to cancel it"  *)
(* (cache.go:691): after a Pause that no Resume and no Close followed, the *)
(* cleanup is paused or a timer or its callback is on the way to pause it, *)
(* also when the Pause found another one pending.                          *)
PauseKept == last = "pause" /\ ~closed => paused \/ Pausing!OnItsWay
=============================================================================
