----------------------------- MODULE CacheProofs -----------------------------
(***************************************************************************)
(* The cache, for any number of clients, keys, limits, rows and timers,    *)
(* with and without an application that pauses it.                         *)
(*                                                                         *)
(* That the eviction keeps the limits needs facts about sums over the rows *)
(* of a table.  They are proved here of the recursive function behind      *)
(* SumFunction, each by way of the smallest set of rows that contradicts   *)
(* it: there is one in every non-empty set of subsets of a finite set.     *)
(***************************************************************************)
EXTENDS Cache, FiniteSetTheorems, WellFoundedInduction, TLAPS

(* What a step of the whole is to the table and its workers.               *)
LEMMA ServiceSteps == [CacheNext]_allVars => [Next]_vars \/ UNCHANGED rest
<1> SUFFICES ASSUME [CacheNext]_allVars PROVE [Next]_vars \/ UNCHANGED rest
  OBVIOUS
<1>1. CASE PauseStep
  BY <1>1 DEF PauseStep
<1>2. CASE SkipTick \/ UNCHANGED allVars
  BY <1>2 DEF SkipTick, allVars
<1>3. CASE Maintain
  BY <1>3 DEF Maintain, Next, Cleanup, Updater, Caller
<1>4. QED
  BY <1>1, <1>2, <1>3 DEF CacheNext

---------------------------------------------------------------------------
(* accessUpdateLoop and Close                                              *)
WorkersInv == (aloc = "exit" => pending = Empty) /\ CleanClose

LEMMA WorkersNext == FlushArmed /\ WorkersInv /\ [CacheNext]_allVars => (FlushArmed /\ WorkersInv)'
<1> SUFFICES ASSUME FlushArmed, WorkersInv, [CacheNext]_allVars PROVE (FlushArmed /\ WorkersInv)'
  OBVIOUS
<1> USE DEF FlushArmed, WorkersInv, CleanClose
<1>1. CASE UNCHANGED <<updates, cloc, dbOpen, timedOut>>
  BY <1>1 DEF updates
<1>2. ASSUME NEW c \in Clients, Client(c) PROVE (FlushArmed /\ WorkersInv)'
  BY <1>2 DEF Client, PreparePut, Put, GetRow, Got, updates, life
<1>3. CASE Clock \/ Delete \/ Clear \/ SetLimits \/ Compact \/ CompactReturns \/ Close
  BY <1>1, <1>3 DEF Clock, Delete, Clear, Remove, SetLimits, Compact, CompactReturns, Close, life
<1>4. CASE CloseDb
  BY <1>4 DEF CloseDb, Joined, updates
<1>5. CASE TakeUpdate
  BY <1>5 DEF TakeUpdate, Arm, life
<1>6. CASE FlushTimer \/ StopUpdates
  BY <1>6 DEF FlushTimer, StopUpdates, life
<1>7. CASE FlushOne
  BY <1>7 DEF FlushOne, life
<1>8. CASE FlushDone
  BY <1>8 DEF FlushDone, life
<1>9. CASE Cleanup \/ StopCleanup
  <2>1. UNCHANGED <<updates, dbOpen, timedOut>> /\ cloc # "exit"
    BY <1>9 DEF Cleanup, Tick, LockMaintenance, CleanupExpired, CountRows, EvictCount, SumSize, OldestRows,
           DeleteBatch, UnlockMaintenance, StopCleanup, CFrame, life
  <2>2. QED
    BY <2>1 DEF updates
<1>10. QED
  BY <1>1, <1>2, <1>3, <1>4, <1>5, <1>6, <1>7, <1>8, <1>9, ServiceSteps
     DEF Next, Caller, Updater, vars, life, rest, updates

LEMMA Workers == CacheSpec => [](FlushArmed /\ WorkersInv)
<1>1. CacheInit => FlushArmed /\ WorkersInv
  BY DEF CacheInit, Init, FlushArmed, WorkersInv, CleanClose
<1>2. QED
  BY <1>1, WorkersNext, PTL DEF CacheSpec

(* A collected access time is written without another access having to     *)
(* come: the timer runs whenever some are pending (cache.go:323).          *)
THEOREM TimerRuns == CacheSpec => []FlushArmed
BY Workers, PTL

(* Close without its timeout has waited for both goroutines, and nothing   *)
(* that was collected is left unwritten (cache.go:42).                     *)
THEOREM ClosesCleanly == CacheSpec => []CleanClose
BY Workers, PTL DEF WorkersInv

---------------------------------------------------------------------------
(* The rows of the table.                                                  *)
LEMMA WithoutKeys == ASSUME NEW S PROVE DOMAIN Without(S) = DOMAIN rows \ S
BY DEF Without, Restrict

(* Only a Put adds keys.                                                   *)
LEMMA OnlyPutAdds ==
  ASSUME [Next]_vars \/ UNCHANGED rest
  PROVE  \/ DOMAIN rows' \subseteq DOMAIN rows
         \/ \E c \in Clients : /\ Put(c) /\ At(c, "put") /\ dbOpen
                               /\ DOMAIN rows' = DOMAIN rows \cup {op[c].key}
<1> USE WithoutKeys
<1>1. ASSUME NEW c \in Clients, Put(c)
      PROVE  \/ UNCHANGED rows
             \/ At(c, "put") /\ dbOpen /\ DOMAIN rows' = DOMAIN rows \cup {op[c].key}
  BY <1>1 DEF Put, With
<1>2. ASSUME NEW c \in Clients, PreparePut(c) \/ GetRow(c) \/ Got(c) PROVE UNCHANGED rows
  BY <1>2 DEF PreparePut, GetRow, Got
<1>3. CASE Clock \/ SetLimits \/ Compact \/ CompactReturns \/ Close \/ CloseDb
  BY <1>3 DEF Clock, SetLimits, Compact, CompactReturns, Close, CloseDb
<1>4. CASE Delete \/ Clear
  BY <1>4 DEF Delete, Clear, Remove
<1>5. CASE TakeUpdate \/ FlushTimer \/ StopUpdates \/ FlushDone
  BY <1>5 DEF TakeUpdate, FlushTimer, StopUpdates, FlushDone
<1>6. CASE FlushOne
  BY <1>6 DEF FlushOne, Touch
<1>7. CASE Tick \/ StopCleanup \/ LockMaintenance \/ CountRows \/ SumSize \/ OldestRows \/ UnlockMaintenance
  BY <1>7 DEF Tick, StopCleanup, LockMaintenance, CountRows, SumSize, OldestRows, UnlockMaintenance
<1>8. CASE CleanupExpired \/ DeleteBatch
  BY <1>8 DEF CleanupExpired, DeleteBatch
<1>9. CASE EvictCount
  BY <1>9 DEF EvictCount
<1>10. CASE UNCHANGED vars \/ UNCHANGED rest
  BY <1>10 DEF vars, rest
<1>11. QED
  BY <1>1, <1>2, <1>3, <1>4, <1>5, <1>6, <1>7, <1>8, <1>9, <1>10 DEF Next, Client, Caller, Updater, Cleanup

(* A key that was deleted, expired or evicted comes back by a Put only,    *)
(* also when its access time is written afterwards.                        *)
THEOREM NothingComesBack == CacheSpec => NoResurrection
<1>1. [CacheNext]_allVars =>
        [\A k \in DOMAIN rows' \ DOMAIN rows : \E c \in Clients : At(c, "put") /\ op[c].key = k]_vars
  BY ServiceSteps, OnlyPutAdds
<1>2. QED
  BY <1>1, PTL DEF CacheSpec, NoResurrection

---------------------------------------------------------------------------
(* Pause and Resume                                                        *)
(* The timer in the field has not run its critical section, so its         *)
(* callback is still to come when a Pause finds it there.                  *)
PauseInv ==
  /\ timer \in [Pausing!Timers -> {"none", "running", "fired", "cleared", "stopped", "done"}]
  /\ pc \in [Threads -> {"idle", "swap", "stop"}]
  /\ pauseTimer \in Pausing!Timers \cup {0} /\ started \in 0 .. MaxTimers
  /\ pauseTimer # 0 => timer[pauseTimer] \in {"running", "fired"}
  /\ \A t \in Threads : pc[t] = "swap" => last # "pause"
  /\ \A t \in Threads : pc[t] = "stop" => closed
  /\ PauseKept

LEMMA PauseNext == PauseInv /\ [CacheNext]_allVars => PauseInv'
<1> SUFFICES ASSUME PauseInv, [CacheNext]_allVars PROVE PauseInv'
  OBVIOUS
<1> USE DEF PauseInv, PauseKept, Pausing!OnItsWay, Pausing!Timers, Pausing!Goto
<1>1. CASE UNCHANGED pauseVars /\ (closed => closed')
  BY <1>1 DEF pauseVars
<1>2. ASSUME NEW t \in Threads, Pausing!Pause(t) PROVE PauseInv'
  BY <1>2, PauseAssumption DEF Pausing!Pause, Pausing!Pending, Pausing!Overlap
<1>3. ASSUME NEW t \in Threads, Pausing!Resume(t) PROVE PauseInv'
  BY <1>3 DEF Pausing!Resume, Pausing!StopTimer, Pausing!Field
<1>4. ASSUME NEW t \in Threads, Pausing!ResumeSwap(t) PROVE PauseInv'
  BY <1>4 DEF Pausing!ResumeSwap
<1>5. ASSUME NEW t \in Threads, Pausing!Close(t) PROVE PauseInv'
  BY <1>5 DEF Pausing!Close
<1>6. ASSUME NEW t \in Threads, Pausing!CloseStop(t) PROVE PauseInv'
  BY <1>6 DEF Pausing!CloseStop, Pausing!StopTimer, Pausing!Field
<1>7. ASSUME NEW i \in Pausing!Timers, Pausing!Fire(i) PROVE PauseInv'
  BY <1>7 DEF Pausing!Fire
<1>8. ASSUME NEW i \in Pausing!Timers, Pausing!ClearTimer(i) PROVE PauseInv'
  BY <1>8 DEF Pausing!ClearTimer, Pausing!Clear
<1>9. ASSUME NEW i \in Pausing!Timers, Pausing!SetPaused(i) PROVE PauseInv'
  BY <1>9 DEF Pausing!SetPaused
<1>10. CASE PauseStep
  BY <1>2, <1>3, <1>4, <1>5, <1>6, <1>7, <1>8, <1>9, <1>10 DEF PauseStep, Pausing!Next, Pausing!Callback
<1>11. Next => (closed => closed')
  <2>1. ASSUME NEW c \in Clients, Client(c) PROVE closed' = closed
    BY <2>1 DEF Client, PreparePut, Put, GetRow, Got, life
  <2>2. CASE Clock \/ Caller
    BY <2>2 DEF Clock, Caller, Delete, Clear, Remove, SetLimits, Compact, CompactReturns, Close, CloseDb, life
  <2>3. CASE Updater \/ StopUpdates
    BY <2>3 DEF Updater, TakeUpdate, FlushTimer, FlushOne, FlushDone, StopUpdates, life
  <2>4. CASE Cleanup \/ StopCleanup
    BY <2>4 DEF Cleanup, Tick, LockMaintenance, CleanupExpired, CountRows, EvictCount, SumSize, OldestRows,
           DeleteBatch, UnlockMaintenance, StopCleanup, CFrame, life
  <2>5. QED
    BY <2>1, <2>2, <2>3, <2>4 DEF Next
<1>12. Maintain => Next
  BY DEF Maintain, Next, Cleanup, Updater, Caller
<1>13. CASE ~PauseStep
  BY <1>1, <1>11, <1>12, <1>13 DEF CacheNext, SkipTick, allVars, vars, life
<1>14. QED
  BY <1>10, <1>13

LEMMA PauseInitially == CacheInit => PauseInv
BY PauseAssumption DEF CacheInit, Pausing!Init, PauseInv, PauseKept, Pausing!Timers

(* A Pause that neither a Resume nor Close came after is never lost,       *)
(* whatever timers of earlier calls are firing at that moment              *)
(* (cache.go:691).                                                         *)
THEOREM PauseTakesEffect == CacheSpec => []PauseKept
<1>1. PauseInv => PauseKept
  BY DEF PauseInv
<1>2. QED
  BY <1>1, PauseInitially, PauseNext, PTL DEF CacheSpec

---------------------------------------------------------------------------
(* Sums: the function that SumFunction chooses for the subsets of S, and   *)
(* that there is one, and only one, when S is finite.                      *)
Chosen(s) == CHOOSE x \in s : TRUE
Summed(f, g, S) ==
  g = [s \in SUBSET S |-> IF s = {} THEN 0 ELSE f[Chosen(s)] + g[s \ {Chosen(s)}]]

LEMMA SumIs == ASSUME NEW f PROVE SumFunction(f) = (CHOOSE g : Summed(f, g, DOMAIN f))[DOMAIN f]
BY DEF SumFunction, SumFunctionOnSet, FoldFunctionOnSet, MapThenFoldSet, Summed, Chosen

LEMMA SmallestSubset ==
  ASSUME NEW D, IsFiniteSet(D), NEW B \in SUBSET SUBSET D, B # {}
  PROVE  \E T \in B : \A U \in B : U \subseteq T => U = T
<1>1. IsWellFoundedOn(StrictSubsetOrdering(D), FiniteSubsetsOf(D))
  BY FS_StrictSubsetOrderingWellFounded
<1>2. B \subseteq FiniteSubsetsOf(D)
  BY FS_Subset DEF FiniteSubsetsOf
<1>3. \E T \in B : \A U \in B : ~(<<U, T>> \in StrictSubsetOrdering(D))
  BY <1>1, <1>2, WFMin
<1>4. QED
  BY <1>3 DEF StrictSubsetOrdering

LEMMA ChosenIsIn == \A s : s # {} => Chosen(s) \in s
BY DEF Chosen

LEMMA SummedAt ==
  ASSUME NEW f, NEW g, NEW D, Summed(f, g, D), NEW T \in SUBSET D
  PROVE  /\ T = {} => g[T] = 0
         /\ T # {} => g[T] = f[Chosen(T)] + g[T \ {Chosen(T)}]
BY DEF Summed

LEMMA SumsAgree ==
  ASSUME NEW f, NEW g, NEW D, Summed(f, g, D), NEW e, NEW h, NEW C, Summed(e, h, C),
         NEW X \in SUBSET D, X \subseteq C, IsFiniteSet(X), \A x \in X : f[x] = e[x]
  PROVE  g[X] = h[X]
<1> DEFINE B == {U \in SUBSET X : g[U] # h[U]}
<1>1. SUFFICES ASSUME B # {} PROVE FALSE
  OBVIOUS
<1>0. B \in SUBSET SUBSET X
  OBVIOUS
<1> HIDE DEF B
<1>2. PICK T \in B : \A U \in B : U \subseteq T => U = T
  BY <1>1, <1>0, SmallestSubset
<1>3. T \in SUBSET X /\ g[T] # h[T] /\ T \in SUBSET D /\ T \in SUBSET C
  BY <1>2 DEF B
<1>4. CASE T = {}
  BY <1>3, <1>4, SummedAt
<1>5. CASE T # {}
  <2>1. Chosen(T) \in T /\ f[Chosen(T)] = e[Chosen(T)]
    BY <1>3, <1>5, ChosenIsIn
  <2>2. g[T \ {Chosen(T)}] = h[T \ {Chosen(T)}]
    BY <1>2, <1>3, <2>1 DEF B
  <2>3. QED
    BY <1>3, <1>5, <2>1, <2>2, SummedAt
<1>6. QED
  BY <1>4, <1>5

LEMMA SumExists ==
  ASSUME NEW f, NEW D, IsFiniteSet(D)
  PROVE  \E g : Summed(f, g, D)
<1> DEFINE B == {U \in SUBSET D : ~ \E g : Summed(f, g, U)}
<1>1. SUFFICES ASSUME B # {} PROVE FALSE
  <2>1. D \in SUBSET D
    OBVIOUS
  <2>2. QED
    BY <2>1
<1>0. B \in SUBSET SUBSET D
  OBVIOUS
<1> HIDE DEF B
<1>2. PICK T \in B : \A U \in B : U \subseteq T => U = T
  BY <1>1, <1>0, SmallestSubset
<1>3. T \in SUBSET D /\ (\A g : ~Summed(f, g, T)) /\ \A U \in SUBSET T : U # T => \E g : Summed(f, g, U)
  BY <1>2 DEF B
<1> DEFINE G(U) == CHOOSE g : Summed(f, g, U)
           c == Chosen(T)
           h == [s \in SUBSET T |-> IF s # T THEN G(s)[s]
                                    ELSE IF T = {} THEN 0 ELSE f[c] + G(T \ {c})[T \ {c}]]
<1>4. \A U \in SUBSET T : U # T => Summed(f, G(U), U)
  BY <1>3
<1> HIDE DEF G
<1>5. \A s \in SUBSET T : s # {} => h[s] = f[Chosen(s)] + h[s \ {Chosen(s)}]
  <2> SUFFICES ASSUME NEW s \in SUBSET T, s # {}
               PROVE  h[s] = f[Chosen(s)] + h[s \ {Chosen(s)}]
    OBVIOUS
  <2>1. Chosen(s) \in s /\ s \ {Chosen(s)} \in SUBSET T /\ s \ {Chosen(s)} # T
    BY ChosenIsIn
  <2>2. CASE s = T
    BY <2>1, <2>2
  <2>3. CASE s # T
    <3>1. Summed(f, G(s), s) /\ Summed(f, G(s \ {Chosen(s)}), s \ {Chosen(s)})
      BY <1>4, <2>1, <2>3
    <3>2. IsFiniteSet(s \ {Chosen(s)})
      BY <1>3, FS_Subset
    <3>3. G(s)[s \ {Chosen(s)}] = G(s \ {Chosen(s)})[s \ {Chosen(s)}]
      BY <3>1, <3>2, SumsAgree
    <3>4. G(s)[s] = f[Chosen(s)] + G(s)[s \ {Chosen(s)}]
      BY <3>1, SummedAt
    <3>5. QED
      BY <2>1, <2>3, <3>3, <3>4
  <2>4. QED
    BY <2>2, <2>3
<1>6. h[{}] = 0
  <2>1. CASE T = {}
    BY <2>1
  <2>2. CASE T # {}
    BY <1>4, <2>2, SummedAt
  <2>3. QED
    BY <2>1, <2>2
<1>7. h = [s \in SUBSET T |-> h[s]]
  OBVIOUS
<1> HIDE DEF h
<1>8. Summed(f, h, T)
  BY <1>5, <1>6, <1>7 DEF Summed
<1>9. QED
  BY <1>3, <1>8

(* The sum of f over a part T of its domain.                               *)
Sum(f, T) == SumFunction([k \in T |-> f[k]])


(* Sum(f, T) is f of one element of T and the sum over the others.         *)
LEMMA SumTaken ==
  ASSUME NEW f, NEW T, IsFiniteSet(T)
  PROVE  /\ T = {} => Sum(f, T) = 0
         /\ T # {} => Sum(f, T) = f[Chosen(T)] + Sum(f, T \ {Chosen(T)})
<1> DEFINE r(U) == [k \in U |-> f[k]]
           G(U) == CHOOSE g : Summed(r(U), g, U)
<1>1. ASSUME NEW U \in SUBSET T PROVE Summed(r(U), G(U), U) /\ Sum(f, U) = G(U)[U]
  <2>1. IsFiniteSet(U) /\ DOMAIN r(U) = U
    BY FS_Subset
  <2>2. Summed(r(U), G(U), U)
    BY <2>1, SumExists
  <2>3. Sum(f, U) = G(U)[U]
    BY <2>1, SumIs DEF Sum
  <2>4. QED
    BY <2>2, <2>3
<1> HIDE DEF G, r
<1>2. CASE T = {}
  <2>1. Summed(r(T), G(T), T) /\ Sum(f, T) = G(T)[T]
    BY <1>1
  <2>2. G(T)[T] = 0
    BY <1>2, <2>1, SummedAt
  <2>3. QED
    BY <1>2, <2>1, <2>2
<1>3. CASE T # {}
  <2> DEFINE c == Chosen(T)
             U == T \ {c}
  <2>1. c \in T /\ U \in SUBSET T
    BY <1>3, ChosenIsIn
  <2>2. Summed(r(T), G(T), T) /\ Summed(r(U), G(U), U) /\ Sum(f, T) = G(T)[T] /\ Sum(f, U) = G(U)[U]
    BY <1>1, <2>1
  <2>3. \A x \in U : r(T)[x] = r(U)[x]
    BY <2>1 DEF r
  <2>4. IsFiniteSet(U) /\ r(T)[c] = f[c]
    BY <2>1, FS_Subset DEF r
  <2> HIDE DEF U
  <2>5. G(T)[U] = G(U)[U]
    BY <2>1, <2>2, <2>3, <2>4, SumsAgree
  <2>6. G(T)[T] = r(T)[c] + G(T)[U]
    BY <1>3, <2>2, SummedAt DEF U
  <2>7. Sum(f, T) = f[c] + Sum(f, U)
    BY <2>2, <2>4, <2>5, <2>6
  <2>8. QED
    BY <1>3, <2>7 DEF U
<1>4. QED
  BY <1>2, <1>3

LEMMA SumEmpty == \A f : Sum(f, {}) = 0
BY SumTaken, FS_EmptySet

LEMMA SumChosen ==
  ASSUME NEW f, NEW T, IsFiniteSet(T), T # {}
  PROVE  Sum(f, T) = f[Chosen(T)] + Sum(f, T \ {Chosen(T)})
BY SumTaken

LEMMA SumType ==
  ASSUME NEW D, IsFiniteSet(D), NEW f, \A x \in D : f[x] \in Nat, NEW T \in SUBSET D
  PROVE  Sum(f, T) \in Nat
<1> DEFINE B == {U \in SUBSET D : Sum(f, U) \notin Nat}
<1>1. SUFFICES ASSUME B # {} PROVE FALSE
  OBVIOUS
<1>0. B \in SUBSET SUBSET D
  OBVIOUS
<1> HIDE DEF B
<1>2. PICK S \in B : \A U \in B : U \subseteq S => U = S
  BY <1>1, <1>0, SmallestSubset
<1>3. S \in SUBSET D /\ Sum(f, S) \notin Nat /\ \A U \in SUBSET S : U # S => Sum(f, U) \in Nat
  BY <1>2 DEF B
<1>4. IsFiniteSet(S) /\ (S # {} => Chosen(S) \in S)
  BY <1>3, FS_Subset, ChosenIsIn
<1>5. CASE S = {}
  BY <1>3, <1>5, SumEmpty
<1>6. CASE S # {}
  <2>1. Sum(f, S \ {Chosen(S)}) \in Nat /\ f[Chosen(S)] \in Nat
    BY <1>3, <1>4, <1>6
  <2>2. QED
    BY <1>3, <1>4, <1>6, <2>1, SumChosen
<1>7. QED
  BY <1>5, <1>6

(* In whatever order the elements are taken.                               *)
LEMMA SumOne ==
  ASSUME NEW D, IsFiniteSet(D), NEW f, \A x \in D : f[x] \in Nat, NEW T \in SUBSET D, NEW y \in T
  PROVE  Sum(f, T) = f[y] + Sum(f, T \ {y})
<1> DEFINE B == {U \in SUBSET D : \E x \in U : Sum(f, U) # f[x] + Sum(f, U \ {x})}
<1>1. SUFFICES ASSUME B # {} PROVE FALSE
  OBVIOUS
<1>0. B \in SUBSET SUBSET D
  OBVIOUS
<1> HIDE DEF B
<1>2. PICK S \in B : \A U \in B : U \subseteq S => U = S
  BY <1>1, <1>0, SmallestSubset
<1>3. PICK x \in S : Sum(f, S) # f[x] + Sum(f, S \ {x})
  BY <1>2 DEF B
<1>4. S \in SUBSET D /\ \A U \in SUBSET S : U # S => \A z \in U : Sum(f, U) = f[z] + Sum(f, U \ {z})
  BY <1>2 DEF B
<1> DEFINE c == Chosen(S)
<1>5. IsFiniteSet(S) /\ c \in S
  BY <1>3, <1>4, FS_Subset, ChosenIsIn
<1> HIDE DEF c
<1>6. Sum(f, S) = f[c] + Sum(f, S \ {c})
  BY <1>3, <1>5, SumTaken DEF c
<1>7. x # c
  BY <1>3, <1>6
<1>8. /\ Sum(f, S \ {c}) = f[x] + Sum(f, (S \ {c}) \ {x})
      /\ Sum(f, S \ {x}) = f[c] + Sum(f, (S \ {x}) \ {c})
  BY <1>3, <1>4, <1>5, <1>7
<1>9. Sum(f, (S \ {c}) \ {x}) = Sum(f, (S \ {x}) \ {c})
  <2>1. (S \ {c}) \ {x} = (S \ {x}) \ {c}
    OBVIOUS
  <2>2. QED
    BY <2>1, Zenon
<1>10. f[x] \in Nat /\ f[c] \in Nat /\ Sum(f, (S \ {x}) \ {c}) \in Nat
  BY <1>3, <1>4, <1>5, SumType
<1>11. QED
  BY <1>3, <1>6, <1>8, <1>9, <1>10

(* The sum over a set is that over a part of it and over what is left.     *)
LEMMA SumSplits ==
  ASSUME NEW D, IsFiniteSet(D), NEW f, \A x \in D : f[x] \in Nat, NEW T \in SUBSET D, NEW V \in SUBSET T
  PROVE  Sum(f, T) = Sum(f, V) + Sum(f, T \ V)
<1> DEFINE B == {U \in SUBSET T : Sum(f, T) # Sum(f, U) + Sum(f, T \ U)}
<1>t. IsFiniteSet(T) /\ \A U \in SUBSET T : IsFiniteSet(U) /\ Sum(f, U) \in Nat
  BY FS_Subset, SumType
<1>1. SUFFICES ASSUME B # {} PROVE FALSE
  OBVIOUS
<1>0. B \in SUBSET SUBSET T
  OBVIOUS
<1> HIDE DEF B
<1>2. PICK S \in B : \A U \in B : U \subseteq S => U = S
  BY <1>t, <1>1, <1>0, SmallestSubset
<1>3. /\ S \in SUBSET T /\ Sum(f, T) # Sum(f, S) + Sum(f, T \ S)
      /\ \A U \in SUBSET S : U # S => Sum(f, T) = Sum(f, U) + Sum(f, T \ U)
  BY <1>2 DEF B
<1>4. CASE S = {}
  <2>1. T \ S = T
    BY <1>4
  <2>2. Sum(f, T \ S) = Sum(f, T) /\ Sum(f, S) = 0
    BY <1>4, <2>1, SumEmpty, Zenon
  <2>3. QED
    BY <1>t, <1>3, <2>2
<1>5. ASSUME NEW y \in S PROVE FALSE
  <2>1. Sum(f, S) = f[y] + Sum(f, S \ {y})
    BY <1>3, SumOne
  <2>2. Sum(f, T \ (S \ {y})) = f[y] + Sum(f, (T \ (S \ {y})) \ {y})
    <3>1. T \ (S \ {y}) \in SUBSET D /\ y \in T \ (S \ {y})
      BY <1>3
    <3>2. QED
      BY <3>1, SumOne
  <2>3. Sum(f, (T \ (S \ {y})) \ {y}) = Sum(f, T \ S)
    <3>1. (T \ (S \ {y})) \ {y} = T \ S
      BY <1>3
    <3>2. QED
      BY <3>1, Zenon
  <2>4. Sum(f, T) = Sum(f, S \ {y}) + Sum(f, T \ (S \ {y}))
    <3>1. S \ {y} \in SUBSET S /\ S \ {y} # S
      OBVIOUS
    <3>2. QED
      BY <1>3, <3>1
  <2>5. f[y] \in Nat /\ Sum(f, S \ {y}) \in Nat /\ Sum(f, T \ S) \in Nat
    BY <1>t, <1>3
  <2>6. QED
    BY <1>3, <2>1, <2>2, <2>3, <2>4, <2>5
<1>6. QED
  BY <1>3, <1>4, <1>5

---------------------------------------------------------------------------
(* What the eviction relies on while nothing is put: it has counted no     *)
(* fewer rows and bytes than there are, and deletes what exceeds a limit.  *)
(* What the values are.                                                    *)
RowType == [size : Nat, expires : Nat, accessed : Nat]

Calls ==
  \A c \in Clients : /\ At(c, "put") => op[c].row \in RowType
                     /\ At(c, "put") \/ At(c, "got") => op[c].key \in Keys

Typed ==
  /\ now \in Nat /\ maxEntries \in Nat /\ maxBytes \in Nat
  /\ DOMAIN rows \subseteq Keys /\ IsFiniteSet(DOMAIN rows)
  /\ \A k \in DOMAIN rows : rows[k] \in RowType
  /\ accessChan \in Seq(Keys \X Nat)
  /\ \A k \in DOMAIN pending : pending[k] \in Nat
  /\ DOMAIN op = Clients /\ Calls
  /\ excess \in Nat /\ total \in Int
  /\ ids = [k \in DOMAIN ids |-> ids[k]]
  /\ IsFiniteSet(DOMAIN ids) /\ \A k \in DOMAIN ids : ids[k] \in Nat

(* The bytes of the rows that are not among ids.                           *)
BytesBut(S) == SumFunction([k \in DOMAIN rows \ S |-> rows[k].size])

(* The account of a maintenance, while nothing is put.                     *)
Enough ==
  /\ maxEntries > 0 =>
       /\ cloc = "evict" => Count <= maxEntries + excess
       /\ cloc \in {"sum", "batch", "delete", "vacuum"} => Count <= maxEntries
  /\ maxBytes > 0 =>
       /\ cloc = "batch" => Bytes <= total
       /\ cloc = "delete" => BytesBut(DOMAIN ids) + SumFunction(ids) <= total
       /\ cloc = "vacuum" => Bytes <= maxBytes

LimitInv == Typed /\ (~disturbed /\ dbOpen => Enough)

LEMMA Amounts ==
  ASSUME Typed
  PROVE  /\ Count \in Nat /\ Bytes = BytesBut({})
         /\ \A S : BytesBut(S) \in Nat
<1> DEFINE f == [k \in DOMAIN rows |-> rows[k].size]
<1>1. IsFiniteSet(DOMAIN rows) /\ \A k \in DOMAIN rows : f[k] \in Nat
  BY DEF Typed, RowType
<1>2. ASSUME NEW S PROVE BytesBut(S) \in Nat
  <2>1. BytesBut(S) = Sum(f, DOMAIN rows \ S)
    <3>1. [k \in DOMAIN rows \ S |-> rows[k].size] = [k \in DOMAIN rows \ S |-> f[k]]
      OBVIOUS
    <3>2. QED
      BY <3>1 DEF BytesBut, Sum
  <2>2. DOMAIN rows \ S \in SUBSET DOMAIN rows
    OBVIOUS
  <2> HIDE DEF f
  <2>3. QED
    BY <1>1, <2>1, <2>2, SumType
<1>3. Bytes = BytesBut({})
  <2>1. DOMAIN rows \ {} = DOMAIN rows
    OBVIOUS
  <2>2. QED
    BY <2>1, Zenon DEF Bytes, BytesBut
<1>4. Count \in Nat
  BY <1>1, FS_CardinalityType DEF Count
<1>5. QED
  BY <1>2, <1>3, <1>4

(* Rows that go away, and touched ones, only make less of it.              *)
LEMMA Shrunk ==
  ASSUME Typed, DOMAIN rows' \subseteq DOMAIN rows,
         \A k \in DOMAIN rows' : rows'[k].size = rows[k].size
  PROVE  /\ IsFiniteSet(DOMAIN rows') /\ Count' \in 0 .. Count /\ Bytes' \in 0 .. Bytes
         /\ \A S : SumFunction([k \in DOMAIN rows' \ S |-> rows'[k].size]) \in 0 .. BytesBut(S)
<1> DEFINE f == [k \in DOMAIN rows |-> rows[k].size]
           New(S) == SumFunction([k \in DOMAIN rows' \ S |-> rows'[k].size])
<1>1. IsFiniteSet(DOMAIN rows) /\ \A k \in DOMAIN rows : f[k] \in Nat
  BY DEF Typed, RowType
<1>2. ASSUME NEW S PROVE New(S) \in 0 .. BytesBut(S)
  <2> DEFINE T == DOMAIN rows \ S
             V == DOMAIN rows' \ S
  <2>1. T \in SUBSET DOMAIN rows /\ V \in SUBSET T
    OBVIOUS
  <2>2. BytesBut(S) = Sum(f, T)
    <3>1. [k \in T |-> rows[k].size] = [k \in T |-> f[k]]
      OBVIOUS
    <3>2. QED
      BY <3>1 DEF BytesBut, Sum
  <2>3. New(S) = Sum(f, V)
    <3>1. [k \in V |-> rows'[k].size] = [k \in V |-> f[k]]
      OBVIOUS
    <3>2. QED
      BY <3>1 DEF Sum
  <2> HIDE DEF f, T, V, New
  <2>4. Sum(f, T) = Sum(f, V) + Sum(f, T \ V)
    BY <1>1, <2>1, SumSplits
  <2>5. Sum(f, V) \in Nat /\ Sum(f, T \ V) \in Nat
    BY <1>1, <2>1, SumType
  <2>6. QED
    BY <2>2, <2>3, <2>4, <2>5
<1>3. Bytes' = New({})
  <2>1. DOMAIN rows' \ {} = DOMAIN rows'
    OBVIOUS
  <2>2. QED
    BY <2>1, Zenon DEF Bytes
<1>4. IsFiniteSet(DOMAIN rows') /\ Count' \in 0 .. Count
  BY <1>1, FS_Subset, FS_CardinalityType DEF Count
<1>5. QED
  BY <1>2, <1>3, <1>4, Amounts

(* The bytes of a batch and those of the other rows.                       *)
LEMMA Parts ==
  ASSUME Typed, NEW S \in SUBSET DOMAIN rows
  PROVE  /\ SumFunction([k \in S |-> rows[k].size]) \in Nat
         /\ Bytes = BytesBut(S) + SumFunction([k \in S |-> rows[k].size])
<1> DEFINE f == [k \in DOMAIN rows |-> rows[k].size]
           D == DOMAIN rows
<1>1. IsFiniteSet(D) /\ \A k \in D : f[k] \in Nat
  BY DEF Typed, RowType
<1>2. /\ [k \in S |-> rows[k].size] = [k \in S |-> f[k]]
      /\ [k \in D \ S |-> rows[k].size] = [k \in D \ S |-> f[k]]
      /\ [k \in D |-> rows[k].size] = [k \in D |-> f[k]]
  OBVIOUS
<1>3. /\ SumFunction([k \in S |-> rows[k].size]) = Sum(f, S)
      /\ BytesBut(S) = Sum(f, D \ S) /\ Bytes = Sum(f, D)
  BY <1>2, Zenon DEF BytesBut, Sum, Bytes
<1> HIDE DEF f, D
<1>4. S \in SUBSET D
  BY DEF D
<1>5. Sum(f, D) = Sum(f, S) + Sum(f, D \ S) /\ Sum(f, S) \in Nat /\ Sum(f, D \ S) \in Nat
  <2>1. D \in SUBSET D /\ D \ S \in SUBSET D
    OBVIOUS
  <2>2. QED
    BY <1>1, <1>4, <2>1, SumSplits, SumType
<1>6. QED
  BY <1>3, <1>5

LEMMA IdsType == Typed => SumFunction(ids) \in Nat
<1> SUFFICES ASSUME Typed PROVE SumFunction(ids) \in Nat
  OBVIOUS
<1>1. ids = [k \in DOMAIN ids |-> ids[k]] /\ IsFiniteSet(DOMAIN ids) /\ \A k \in DOMAIN ids : ids[k] \in Nat
  BY DEF Typed
<1>2. SumFunction(ids) = Sum(ids, DOMAIN ids)
  BY <1>1 DEF Sum
<1>3. QED
  BY <1>1, <1>2, SumType

LEMMA Kept ==
  ASSUME Typed, Enough, DOMAIN rows' \subseteq DOMAIN rows,
         \A k \in DOMAIN rows' : rows'[k].size = rows[k].size,
         UNCHANGED <<limits, evict, cloc>>
  PROVE  Enough'
<1>1. UNCHANGED <<maxEntries, maxBytes, excess, total, ids, cloc>>
  BY DEF limits, evict
<1>2. /\ Count' \in 0 .. Count /\ Bytes' \in 0 .. Bytes
      /\ SumFunction([k \in DOMAIN rows' \ DOMAIN ids |-> rows'[k].size]) \in 0 .. BytesBut(DOMAIN ids)
  BY Shrunk
<1>3. BytesBut(DOMAIN ids)' = SumFunction([k \in DOMAIN rows' \ DOMAIN ids |-> rows'[k].size])
  BY <1>1 DEF BytesBut
<1>4. Count \in Nat /\ Bytes \in Nat /\ BytesBut(DOMAIN ids) \in Nat
  BY Amounts
<1>5. /\ maxEntries \in Nat /\ maxBytes \in Nat /\ excess \in Nat /\ total \in Int
      /\ SumFunction(ids) \in Nat
  BY IdsType DEF Typed
<1>6. maxEntries' > 0 =>
        /\ cloc' = "evict" => Count' <= maxEntries' + excess'
        /\ cloc' \in {"sum", "batch", "delete", "vacuum"} => Count' <= maxEntries'
  BY <1>1, <1>2, <1>4, <1>5 DEF Enough
<1>7. maxBytes' > 0 =>
        /\ cloc' = "batch" => Bytes' <= total'
        /\ cloc' = "delete" => BytesBut(DOMAIN ids)' + SumFunction(ids)' <= total'
        /\ cloc' = "vacuum" => Bytes' <= maxBytes'
  BY <1>1, <1>2, <1>3, <1>4, <1>5 DEF Enough
<1>8. QED
  BY <1>6, <1>7 DEF Enough

Counted == Count \in Nat /\ Bytes \in Nat

LEMMA AmountTypes == Typed => Counted
BY Amounts DEF Counted

LEMMA AmountTypesNext == Typed' => Counted'
BY AmountTypes, PTL

LEMMA EnoughNext ==
  ASSUME Typed, Typed', ~disturbed /\ dbOpen => Enough, ~disturbed', dbOpen',
         [Next]_vars \/ UNCHANGED rest
  PROVE  Enough'
<1> USE WithoutKeys
<1>0. /\ Count \in Nat /\ Bytes \in Nat /\ Count' \in Nat /\ Bytes' \in Nat
      /\ maxEntries \in Nat /\ maxBytes \in Nat /\ excess \in Nat /\ total \in Int
  BY AmountTypes, AmountTypesNext DEF Typed, Counted
<1>1. CASE UNCHANGED <<rows, limits, evict, cloc, dbOpen, disturbed>>
  BY <1>1, Kept
<1>2. ASSUME NEW c \in Clients, Client(c) PROVE Enough'
  <2>1. CASE Put(c)
    BY <2>1 DEF Put
  <2>2. CASE PreparePut(c) \/ GetRow(c) \/ Got(c)
    BY <1>1, <2>2 DEF PreparePut, GetRow, Got, life
  <2>3. QED
    BY <1>2, <2>1, <2>2 DEF Client
<1>3. CASE Clock \/ Compact \/ CompactReturns \/ Close
  BY <1>1, <1>3 DEF Clock, Compact, CompactReturns, Close, life
<1>4. CASE SetLimits \/ CloseDb
  BY <1>4 DEF SetLimits, CloseDb
<1>5. CASE Delete \/ Clear
  <2>1. PICK S : Remove(S)
    BY <1>5 DEF Delete, Clear
  <2>2. /\ DOMAIN rows' \subseteq DOMAIN rows /\ \A k \in DOMAIN rows' : rows'[k] = rows[k]
        /\ UNCHANGED <<limits, evict, cloc, dbOpen, disturbed>>
    BY <2>1 DEF Remove, Without, Restrict, life
  <2>3. QED
    BY <2>2, Kept
<1>6. CASE TakeUpdate \/ FlushTimer \/ StopUpdates \/ FlushDone
  BY <1>1, <1>6 DEF TakeUpdate, FlushTimer, StopUpdates, FlushDone, life
<1>7. CASE FlushOne
  <2>1. /\ DOMAIN rows' \subseteq DOMAIN rows /\ \A k \in DOMAIN rows' : rows'[k].size = rows[k].size
        /\ UNCHANGED <<limits, evict, cloc, dbOpen, disturbed>>
    <3>1. PICK k \in DOMAIN pending : Touch(k)
      BY <1>7 DEF FlushOne
    <3>2. \A j \in DOMAIN rows : rows[j] \in RowType
      BY DEF Typed
    <3>3. DOMAIN rows' = DOMAIN rows /\ \A j \in DOMAIN rows : rows'[j].size = rows[j].size
      BY <3>1, <3>2 DEF Touch, RowType
    <3>4. UNCHANGED <<limits, evict, cloc, dbOpen, disturbed>>
      BY <1>7 DEF FlushOne, life
    <3>5. QED
      BY <3>3, <3>4
  <2>2. QED
    BY <2>1, Kept
<1>8. CASE Tick \/ StopCleanup \/ LockMaintenance \/ CleanupExpired \/ UnlockMaintenance
  BY <1>8 DEF Tick, StopCleanup, LockMaintenance, CleanupExpired, UnlockMaintenance, CleanTo, Enough
<1>9. ASSUME Cleanup, ~(Tick \/ LockMaintenance \/ CleanupExpired \/ UnlockMaintenance)
      PROVE  Enough'
  <2>1. Enough /\ UNCHANGED <<maxEntries, maxBytes>> /\ dbOpen /\ dbOpen'
    <3>1. UNCHANGED <<limits, dbOpen, disturbed>>
      BY <1>9 DEF Cleanup, CountRows, EvictCount, SumSize, OldestRows, DeleteBatch, CFrame, life
    <3>2. QED
      BY <3>1 DEF limits
  <2>2. CASE CountRows
    <3>1. UNCHANGED rows /\ cloc' \in {"evict", "sum"} /\ Count' = Count
      BY <2>2 DEF CountRows, CleanTo, Count
    <3>2. maxEntries > 0 => /\ cloc' = "evict" => Count = maxEntries + excess'
                            /\ cloc' = "sum" => Count <= maxEntries
      BY <1>0, <2>1, <2>2 DEF CountRows, CleanTo, Excess
    <3>3. QED
      BY <1>0, <2>1, <3>1, <3>2 DEF Enough
  <2>3. CASE EvictCount
    <3>1. PICK S \in Oldest(excess) : rows' = Without(S)
      BY <2>1, <2>3 DEF EvictCount
    <3>2. IsFiniteSet(DOMAIN rows) /\ S \cap DOMAIN rows = S
      BY <3>1 DEF Oldest, Typed
    <3>3. Count' = Count - Cardinality(S)
      <4>1. DOMAIN rows \cap S = S
        BY <3>2
      <4>2. Cardinality(DOMAIN rows \ S) = Count - Cardinality(DOMAIN rows \cap S)
        BY <3>2, FS_Difference DEF Count
      <4>3. DOMAIN rows' = DOMAIN rows \ S
        BY <3>1
      <4>4. QED
        BY <4>1, <4>2, <4>3, Zenon DEF Count
    <3>4. Cardinality(S) = IF excess < Count THEN excess ELSE Count
      BY <3>1 DEF Oldest
    <3>5. cloc = "evict" /\ cloc' = "sum"
      BY <2>3 DEF EvictCount, CleanTo
    <3>6. QED
      BY <1>0, <2>1, <3>3, <3>4, <3>5 DEF Enough
  <2>4. CASE SumSize
    <3>1. cloc = "sum" /\ cloc' \in {"batch", "vacuum"} /\ Count' = Count /\ Bytes' = Bytes
      BY <2>4 DEF SumSize, CleanTo, Count, Bytes
    <3>2. maxBytes > 0 => /\ cloc' = "batch" => total' = Bytes
                          /\ cloc' = "vacuum" => Bytes <= maxBytes
      BY <1>0, <2>1, <2>4 DEF SumSize, CleanTo
    <3>3. QED
      BY <1>0, <2>1, <3>1, <3>2 DEF Enough
  <2>5. CASE OldestRows
    <3>1. cloc = "batch" /\ cloc' \in {"delete", "vacuum"} /\ rows' = rows /\ Count' = Count /\ Bytes' = Bytes
      BY <2>5 DEF OldestRows, CleanTo, Count, Bytes
    <3>2. CASE cloc' = "delete"
      <4>1. PICK S \in SUBSET DOMAIN rows : ids' = [k \in S |-> rows[k].size]
        BY <2>5, <3>2 DEF OldestRows, CleanTo, Oldest
      <4>2. Bytes = BytesBut(S) + SumFunction(ids')
        BY <4>1, Parts
      <4>3. BytesBut(DOMAIN ids)' = BytesBut(S)
        BY <3>1, <4>1 DEF BytesBut
      <4>4. total' = total
        BY <2>5, <3>2 DEF OldestRows, CleanTo
      <4>5. BytesBut(S) \in Nat
        BY Amounts
      <4>6. QED
        BY <1>0, <2>1, <3>1, <3>2, <4>2, <4>3, <4>4, <4>5 DEF Enough
    <3>3. CASE cloc' = "vacuum"
      <4>1. rows = Empty
        BY <2>1, <2>5, <3>3 DEF OldestRows, CleanTo
      <4>2. Bytes = 0
        <5>1. DOMAIN rows = {} /\ [k \in {} |-> rows[k].size] = [k \in {} |-> rows[k]]
          BY <4>1 DEF Empty
        <5>2. SumFunction([k \in {} |-> rows[k]]) = 0
          BY SumEmpty DEF Sum
        <5>3. QED
          BY <5>1, <5>2, Zenon DEF Bytes
      <4>3. QED
        BY <1>0, <2>1, <3>1, <3>3, <4>2 DEF Enough
    <3>4. QED
      BY <3>1, <3>2, <3>3
  <2>6. CASE DeleteBatch
    <3>1. /\ cloc = "delete" /\ cloc' \in {"batch", "vacuum"} /\ rows' = Without(DOMAIN ids)
          /\ cloc' = "batch" => total' = total - SumFunction(ids)
          /\ cloc' = "vacuum" => ~(total - SumFunction(ids) > maxBytes)
      BY <2>1, <2>6 DEF DeleteBatch, CleanTo
    <3>2. DOMAIN rows' = DOMAIN rows \ DOMAIN ids
      BY <3>1
    <3>3. Bytes' = BytesBut(DOMAIN ids)
      <4>1. [k \in DOMAIN rows' |-> rows'[k].size] = [k \in DOMAIN rows \ DOMAIN ids |-> rows[k].size]
        BY <3>1, <3>2 DEF Without, Restrict
      <4>2. QED
        BY <4>1, Zenon DEF Bytes, BytesBut
    <3>4. Count' <= Count
      BY <3>2, FS_Subset DEF Count, Typed
    <3>5. SumFunction(ids) \in Nat
      BY IdsType
    <3>6. QED
      BY <1>0, <2>1, <3>1, <3>3, <3>4, <3>5 DEF Enough
  <2>7. QED
    BY <1>9, <2>2, <2>3, <2>4, <2>5, <2>6 DEF Cleanup
<1>10. CASE UNCHANGED vars \/ UNCHANGED rest
  BY <1>1, <1>10 DEF vars, rest, life
<1>11. QED
  BY <1>2, <1>3, <1>4, <1>5, <1>6, <1>7, <1>8, <1>9, <1>10 DEF Next, Caller, Updater, Cleanup

LEMMA Appended == ASSUME NEW S, NEW s \in Seq(S), NEW e \in S PROVE Append(s, e) \in Seq(S)
OBVIOUS

LEMMA TypedNext == Typed /\ ([Next]_vars \/ UNCHANGED rest) => Typed'
<1> SUFFICES ASSUME Typed, [Next]_vars \/ UNCHANGED rest PROVE Typed'
  OBVIOUS
<1> USE WithoutKeys
<1>1. CASE UNCHANGED <<now, rows, limits, accessChan, pending, op, evict>>
  BY <1>1 DEF Typed, limits, evict, Calls, At
<1>2. ASSUME Typed, UNCHANGED <<now, limits, accessChan, op, evict>>,
             DOMAIN rows' \subseteq DOMAIN rows, \A k \in DOMAIN rows' : rows'[k] \in RowType,
             DOMAIN pending' \subseteq DOMAIN pending, \A k \in DOMAIN pending' : pending'[k] \in Nat
      PROVE  Typed'
  <2>1. IsFiniteSet(DOMAIN rows')
    BY <1>2, FS_Subset DEF Typed
  <2>2. QED
    BY <1>2, <2>1 DEF Typed, limits, evict, Calls, At
<1>3. ASSUME NEW c \in Clients, Client(c) PROVE Typed'
  <2>1. CASE PreparePut(c)
    <3>1. PICK k \in Keys, size \in Sizes, ttl \in Ttls :
            op' = [op EXCEPT ![c] = [kind |-> "put", key |-> k, row |-> Row(size, ttl)]]
      BY <2>1 DEF PreparePut, Goto
    <3>2. Row(size, ttl) \in RowType
      BY CacheAssumption DEF Row, RowType, Typed
    <3>3. DOMAIN op' = Clients /\ Calls'
      BY <3>1, <3>2 DEF Typed, Calls, At
    <3>4. UNCHANGED <<now, rows, limits, accessChan, pending, evict>>
      BY <2>1 DEF PreparePut, updates
    <3>5. QED
      BY <3>3, <3>4 DEF Typed, limits, evict
  <2>2. CASE Put(c)
    <3>1. op[c].row \in RowType /\ op[c].key \in Keys /\ IsFiniteSet(DOMAIN rows)
      BY <2>2 DEF Put, Typed, Calls
    <3>2. IsFiniteSet(DOMAIN rows \cup {op[c].key})
      BY <3>1, FS_AddElement
    <3>3. /\ IsFiniteSet(DOMAIN rows') /\ DOMAIN rows' \subseteq Keys
          /\ \A k \in DOMAIN rows' : rows'[k] \in RowType
      BY <2>2, <3>1, <3>2 DEF Put, With, Typed
    <3>4. DOMAIN op' = Clients /\ Calls'
      BY <2>2 DEF Put, Return, Goto, Idle, Typed, Calls, At
    <3>5. UNCHANGED <<now, limits, accessChan, pending, evict>>
      BY <2>2 DEF Put, updates
    <3>6. QED
      BY <3>3, <3>4, <3>5 DEF Typed, limits, evict
  <2>3. CASE GetRow(c)
    <3>1. PICK k \in DOMAIN rows : op' = [op EXCEPT ![c] = [kind |-> "got", key |-> k, row |-> rows[k]]]
      BY <2>3 DEF GetRow, Goto
    <3>2. DOMAIN op' = Clients /\ Calls'
      BY <3>1 DEF Typed, Calls, At
    <3>3. UNCHANGED <<now, rows, limits, accessChan, pending, evict>>
      BY <2>3 DEF GetRow, updates
    <3>4. QED
      BY <3>2, <3>3 DEF Typed, limits, evict
  <2>4. CASE Got(c)
    <3>1. DOMAIN op' = Clients /\ Calls'
      BY <2>4 DEF Got, Return, Goto, Idle, Typed, Calls, At
    <3>2. accessChan' \in Seq(Keys \X Nat)
      <4>1. op[c].key \in Keys /\ now \in Nat /\ accessChan \in Seq(Keys \X Nat)
        BY <2>4 DEF Got, Typed, Calls
      <4>2. accessChan' = accessChan \/ accessChan' = Append(accessChan, <<op[c].key, now>>)
        BY <2>4 DEF Got
      <4>3. <<op[c].key, now>> \in Keys \X Nat
        BY <4>1
      <4> DEFINE U == Keys \X Nat
      <4>4. accessChan \in Seq(U) /\ <<op[c].key, now>> \in U
        BY <4>1, <4>3
      <4> HIDE DEF U
      <4>5. accessChan' \in Seq(U)
        BY <4>2, <4>4, Appended
      <4>6. QED
        BY <4>5 DEF U
    <3>3. UNCHANGED <<now, rows, limits, pending, evict>>
      BY <2>4 DEF Got
    <3>4. QED
      BY <3>1, <3>2, <3>3 DEF Typed, limits, evict
  <2>5. QED
    BY <1>3, <2>1, <2>2, <2>3, <2>4 DEF Client
<1>4. CASE Clock
  BY <1>4 DEF Clock, Typed, limits, updates, evict, Calls, At
<1>5. CASE Compact \/ CompactReturns \/ Close \/ CloseDb
  BY <1>1, <1>5 DEF Compact, CompactReturns, Close, CloseDb, updates
<1>6. CASE SetLimits
  BY <1>6, CacheAssumption DEF SetLimits, Typed, updates, evict, Calls, At
<1>7. CASE Delete \/ Clear
  <2>1. PICK S : Remove(S)
    BY <1>7 DEF Delete, Clear
  <2>2. QED
    BY <1>2, <2>1 DEF Remove, Without, Restrict, updates, Typed
<1>8. CASE TakeUpdate
  <2>1. accessChan # <<>> /\ accessChan' = Tail(accessChan) /\ Head(accessChan)[2] \in Nat
    BY <1>8 DEF TakeUpdate, Typed
  <2>2. accessChan' \in Seq(Keys \X Nat)
    BY <2>1 DEF Typed
  <2>3. \A k \in DOMAIN pending' : pending'[k] \in Nat
    BY <1>8, <2>1 DEF TakeUpdate, With, Typed
  <2>4. UNCHANGED <<now, rows, limits, op, evict>>
    BY <1>8 DEF TakeUpdate
  <2>5. QED
    BY <2>2, <2>3, <2>4 DEF Typed, limits, evict, Calls, At
<1>9. CASE FlushTimer \/ StopUpdates \/ FlushDone
  BY <1>1, <1>9 DEF FlushTimer, StopUpdates, FlushDone
<1>10. CASE FlushOne
  <2>1. PICK k \in DOMAIN pending : Touch(k) /\ pending' = Restrict(pending, DOMAIN pending \ {k})
    BY <1>10 DEF FlushOne
  <2>2. pending[k] \in Nat /\ \A j \in DOMAIN rows : rows[j] \in RowType
    BY <2>1 DEF Typed
  <2>3. DOMAIN rows' \subseteq DOMAIN rows /\ \A j \in DOMAIN rows' : rows'[j] \in RowType
    BY <2>1, <2>2 DEF Touch, RowType
  <2>4. DOMAIN pending' \subseteq DOMAIN pending /\ \A j \in DOMAIN pending' : pending'[j] \in Nat
    BY <2>1 DEF Restrict, Typed
  <2>5. UNCHANGED <<now, limits, accessChan, op, evict>>
    BY <1>10 DEF FlushOne
  <2>6. QED
    BY <1>2, <2>3, <2>4, <2>5
<1>11. CASE Tick \/ StopCleanup \/ LockMaintenance \/ UnlockMaintenance
  BY <1>1, <1>11 DEF Tick, StopCleanup, LockMaintenance, UnlockMaintenance, CFrame, updates
<1>12. CASE CleanupExpired
  BY <1>2, <1>12 DEF CleanupExpired, CFrame, Without, Restrict, updates, Typed
<1>13. CASE CountRows
  <2>1. Count \in Nat /\ maxEntries \in Nat
    BY AmountTypes DEF Typed, Counted
  <2>2. excess' \in Nat
    BY <1>13, <2>1 DEF CountRows, Excess
  <2>3. QED
    BY <1>13, <2>2 DEF CountRows, CFrame, updates, limits, Typed, Calls, At
<1>14. CASE SumSize
  <2>1. total' \in Int
    BY <1>14, AmountTypes DEF SumSize, Counted
  <2>2. QED
    BY <1>14, <2>1 DEF SumSize, CFrame, updates, limits, Typed, Calls, At
<1>15. ASSUME UNCHANGED <<now, limits, accessChan, pending, op>>,
              DOMAIN rows' \subseteq DOMAIN rows, \A k \in DOMAIN rows' : rows'[k] \in RowType,
              excess' \in Nat, total' \in Int,
              ids' = [k \in DOMAIN ids' |-> ids'[k]],
              IsFiniteSet(DOMAIN ids'), \A k \in DOMAIN ids' : ids'[k] \in Nat
       PROVE  Typed'
  <2>1. IsFiniteSet(DOMAIN rows')
    BY <1>15, FS_Subset DEF Typed
  <2>2. QED
    BY <1>15, <2>1 DEF Typed, limits, Calls, At
<1>16. CASE EvictCount
  <2>1. PICK S : rows' = IF dbOpen THEN Without(S) ELSE rows
    BY <1>16 DEF EvictCount
  <2>2. excess' \in Nat /\ UNCHANGED <<now, limits, accessChan, pending, op, total, ids>>
    BY <1>16 DEF EvictCount, CFrame, updates
  <2>3. QED
    BY <1>15, <2>1, <2>2 DEF Without, Restrict, Typed
<1>17. CASE OldestRows
  <2>1. total' \in Int /\ UNCHANGED <<rows, excess, now, limits, accessChan, pending, op>>
    BY <1>17 DEF OldestRows, CFrame, updates, Typed
  <2>2. CASE ids' = Empty
    BY <1>15, <2>1, <2>2, FS_EmptySet DEF Empty, Typed
  <2>3. ASSUME NEW S \in SUBSET DOMAIN rows, ids' = [k \in S |-> rows[k].size] PROVE Typed'
    <3>1. IsFiniteSet(S) /\ \A k \in S : rows[k].size \in Nat
      BY FS_Subset DEF Typed, RowType
    <3>2. DOMAIN ids' = S /\ (\A k \in S : ids'[k] \in Nat) /\ ids' = [k \in S |-> ids'[k]]
      BY <2>3, <3>1
    <3>3. QED
      BY <1>15, <2>1, <3>1, <3>2 DEF Typed
  <2>4. QED
    BY <1>17, <2>2, <2>3 DEF OldestRows, Oldest
<1>18. CASE DeleteBatch
  <2>1. total' \in Int /\ ids' = Empty /\ UNCHANGED <<excess, now, limits, accessChan, pending, op>>
    BY <1>18, IdsType DEF DeleteBatch, CFrame, updates, Typed
  <2>2. rows' = rows \/ rows' = Without(DOMAIN ids)
    BY <1>18 DEF DeleteBatch
  <2>3. QED
    BY <1>15, <2>1, <2>2, FS_EmptySet DEF Without, Restrict, Empty, Typed
<1>19. CASE UNCHANGED vars \/ UNCHANGED rest
  BY <1>1, <1>19 DEF vars, rest, updates
<1>20. QED
  BY <1>3, <1>4, <1>5, <1>6, <1>7, <1>8, <1>9, <1>10, <1>11, <1>12, <1>13, <1>14, <1>16, <1>17, <1>18, <1>19
     DEF Next, Caller, Updater, Cleanup

LEMMA LimitInitially == CacheInit => LimitInv
<1> SUFFICES ASSUME CacheInit PROVE LimitInv
  OBVIOUS
<1>1. Init
  BY DEF CacheInit
<1>2. Typed
  BY <1>1, FS_EmptySet DEF Init, Typed, Empty, Idle, Calls, At
<1>3. Enough
  BY <1>1 DEF Init, Enough
<1>4. QED
  BY <1>2, <1>3 DEF LimitInv

LEMMA LimitNext == LimitInv /\ [CacheNext]_allVars => LimitInv'
<1> SUFFICES ASSUME LimitInv, [CacheNext]_allVars PROVE LimitInv'
  OBVIOUS
<1>1. [Next]_vars \/ UNCHANGED rest
  BY ServiceSteps
<1>2. Typed'
  BY <1>1, TypedNext DEF LimitInv
<1>3. ~disturbed' /\ dbOpen' => Enough'
  BY <1>1, <1>2, EnoughNext DEF LimitInv
<1>4. QED
  BY <1>2, <1>3 DEF LimitInv

(* A maintenance during which nothing was put and no limit was changed     *)
(* leaves no store above its limits (cache.go:374), however the rows that  *)
(* it read for a batch were deleted or touched before it deleted them: its *)
(* own account of the bytes that are left is never below what there is.    *)
THEOREM LimitsHold == CacheSpec => []LimitEnforced
<1>1. LimitInv => LimitEnforced
  BY DEF LimitInv, Enough, LimitEnforced
<1>2. QED
  BY <1>1, LimitInitially, LimitNext, PTL DEF CacheSpec
=============================================================================
