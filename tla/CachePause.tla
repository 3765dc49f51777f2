----------------------------- MODULE CachePause -----------------------------
(***************************************************************************)
(* Pausing the cleanup of the cache: Pause, Resume and Close of            *)
(* pkg/service/cache.go against the callbacks of time.AfterFunc, each of   *)
(* which runs in a goroutine of its own.  Stop of a timer whose callback   *)
(* has started does nothing.  A step is a critical section of pauseMu or   *)
(* one access of the atomic paused.                                        *)
(***************************************************************************)
EXTENDS Naturals

CONSTANTS Threads,   \* goroutines that call Pause, Resume and Close
          MaxTimers  \* bound: timers ever started

Timers == 1..MaxTimers

VARIABLES
  paused, closed,
  pauseTimer,   \* the timer the field holds, 0 for nil
  started,      \* timers started so far
  timer,        \* what became of each timer and of its callback
  pc,           \* where each thread is
  last          \* the call that is to decide whether the cleanup is paused

vars == <<paused, closed, pauseTimer, started, timer, pc, last>>

Init ==
  /\ paused = FALSE /\ closed = FALSE
  /\ pauseTimer = 0 /\ started = 0
  /\ timer = [i \in Timers |-> "none"]
  /\ pc = [t \in Threads |-> "idle"] /\ last = "none"

Goto(t, l) == pc' = [pc EXCEPT ![t] = l]

(* A timer that is already pending, or being paused, makes Pause return.   *)
Pending == paused \/ pauseTimer # 0

(* Overlapping calls may be taken to happen in either order.               *)
Overlap == \E t \in Threads : pc[t] = "swap"

Pause(t) ==
  /\ pc[t] = "idle" /\ started < MaxTimers
  /\ IF Pending
       THEN UNCHANGED <<pauseTimer, started, timer>>
       ELSE /\ started' = started + 1
            /\ pauseTimer' = started + 1
            /\ timer' = [timer EXCEPT ![started + 1] = "running"]
  /\ last' = IF Overlap THEN "none" ELSE "pause"
  /\ UNCHANGED <<paused, closed, pc>>

(* pauseTimer.Stop(), and the field is cleared.                            *)
BugField == pauseTimer
Field == 0

StopTimer ==
  /\ pauseTimer' = Field
  /\ timer' = [i \in Timers |-> IF i = pauseTimer /\ timer[i] = "running" THEN "stopped" ELSE timer[i]]

Resume(t) ==
  /\ pc[t] = "idle"
  /\ StopTimer
  /\ Goto(t, "swap") /\ last' = "resume"
  /\ UNCHANGED <<paused, closed, started>>

ResumeSwap(t) ==
  /\ pc[t] = "swap"
  /\ paused' = FALSE
  /\ Goto(t, "idle")
  /\ UNCHANGED <<closed, pauseTimer, started, timer, last>>

Close(t) ==
  /\ pc[t] = "idle" /\ ~closed
  /\ closed' = TRUE
  /\ Goto(t, "stop")
  /\ UNCHANGED <<paused, pauseTimer, started, timer, last>>

CloseStop(t) ==
  /\ pc[t] = "stop"
  /\ StopTimer
  /\ Goto(t, "idle")
  /\ UNCHANGED <<paused, closed, started, last>>

(* The callback: the critical section, and then the swap of paused.        *)
Fire(i) ==
  /\ timer[i] = "running"
  /\ timer' = [timer EXCEPT ![i] = "fired"]
  /\ UNCHANGED <<paused, closed, pauseTimer, started, pc, last>>

Clear == pauseTimer' = 0

ClearTimer(i) ==
  /\ timer[i] = "fired"
  /\ timer' = [timer EXCEPT ![i] = "cleared"]
  /\ Clear
  /\ UNCHANGED <<paused, closed, started, pc, last>>

SetPaused(i) ==
  /\ timer[i] = "cleared"
  /\ timer' = [timer EXCEPT ![i] = "done"]
  /\ paused' = TRUE
  /\ UNCHANGED <<closed, pauseTimer, started, pc, last>>

---------------------------------------------------------------------------
Callback == \E i \in Timers : Fire(i) \/ ClearTimer(i) \/ SetPaused(i)

Next == \/ Callback
        \/ \E t \in Threads : \/ Pause(t) \/ Resume(t) \/ ResumeSwap(t)
                              \/ Close(t) \/ CloseStop(t)

Spec == Init /\ [][Next]_vars

(* A timer, or its callback, that is going to pause the cleanup.           *)
OnItsWay == \E i \in Timers : timer[i] \in {"running", "fired", "cleared"}
=============================================================================
