------------------------ MODULE StreamSessionProofs ------------------------
(***************************************************************************)
(* Proofs about StreamSession, for any number of callers and goroutines,   *)
(* any capacity and any bounds: type correctness, that no channel is ever  *)
(* closed twice, that every caller's messages arrive in the order of its   *)
(* calls, without a gap, and that nobody is parked where there is room.    *)
(***************************************************************************)
EXTENDS StreamSession, TLAPS

(* Who may still close DoneChan: nobody twice.  Before the session is      *)
(* closed no thread is between closing the session and closing DoneChan;   *)
(* after EndStream or ErrorStream exactly the thread that took the step is.*)
Ending(t) == pc[t] \in EndPC

FlagsAgree ==
  /\ dataClosed = inputClosed
  /\ doneClosed => closed
  /\ closed /\ ~inputClosed => mu # NoThread
  /\ mu # NoThread => closed /\ doneClosed

MutexHolder ==
  /\ mu # NoThread => pc[mu] = "cls3"
  /\ \A t \in Threads : pc[t] = "cls3" => mu = t

OneEnding ==
  /\ \A t \in Threads : Ending(t) => closed /\ inputClosed /\ ~doneClosed
  /\ \A t, u \in Threads : Ending(t) /\ Ending(u) => t = u

SendQueue ==
  /\ \A i \in DOMAIN sendq : pc[sendq[i]] = "parked"
  /\ \A i, j \in DOMAIN sendq : sendq[i] = sendq[j] => i = j

IInv == /\ TypeOK /\ FlagsAgree /\ MutexHolder /\ OneEnding /\ SendQueue /\ NoDoubleClose

USE SessionAssumption

---------------------------------------------------------------------------
(* Typing.                                                                 *)

LEMMA EmptyQueue == <<>> \in Seq(Callers)
  OBVIOUS

LEMMA AppendFacts ==
  ASSUME NEW S, NEW s \in Seq(S), NEW x \in S
  PROVE  Append(s, x) \in Seq(S) /\ Len(Append(s, x)) = Len(s) + 1
  OBVIOUS

LEMMA TailFacts ==
  ASSUME NEW S, NEW s \in Seq(S), s # <<>>
  PROVE  /\ Tail(s) \in Seq(S) /\ Len(Tail(s)) = Len(s) - 1
         /\ Head(s) \in S /\ Len(s) > 0
  OBVIOUS

LEMMA MsgType ==
  ASSUME TypeOK, NEW c \in Callers
  PROVE  Msg(c) \in Callers \X Nat
  BY DEF TypeOK, Msg

LEMMA TypeInit == Init => TypeOK
<1> SUFFICES ASSUME Init PROVE TypeOK
  OBVIOUS
<1>1. buf \in Seq(Callers \X Nat) /\ Len(buf) <= Cap
  BY DEF Init
<1>2. sendq \in Seq(Callers) /\ out \in Seq(MsgKind) /\ rcvd \in Seq(Callers \X Nat)
  BY DEF Init
<1>3. /\ issued \in [Callers -> Nat]
      /\ pc \in [Threads -> CallerPC \cup RoutinePC]
      /\ crash \in Crash
  BY DEF Init, CallerPC, Crash
<1>4. QED
  BY <1>1, <1>2, <1>3 DEF Init, TypeOK

LEMMA CloseDataChanType ==
  ASSUME TypeOK, CloseDataChan
  PROVE  dataClosed' \in BOOLEAN /\ sendq' \in Seq(Callers) /\ crash' \in Crash
<1>1. dataClosed' \in BOOLEAN
  BY DEF CloseDataChan
<1>2. sendq' \in Seq(Callers)
  BY EmptyQueue DEF CloseDataChan
<1>3. crash' \in Crash
  BY DEF CloseDataChan, TypeOK, Crash
<1>4. QED
  BY <1>1, <1>2, <1>3

LEMMA EnsureInputClosedType ==
  ASSUME TypeOK, EnsureInputClosed
  PROVE  /\ inputClosed' \in BOOLEAN /\ dataClosed' \in BOOLEAN
         /\ sendq' \in Seq(Callers) /\ crash' \in Crash
  BY CloseDataChanType DEF TypeOK, EnsureInputClosed

LEMMA CloseDoneChanType ==
  ASSUME TypeOK, NEW t \in Threads, NEW l \in CallerPC \cup RoutinePC, CloseDoneChan(t, l)
  PROVE  /\ doneClosed' \in BOOLEAN /\ dataClosed' \in BOOLEAN
         /\ sendq' \in Seq(Callers) /\ crash' \in Crash
         /\ pc' \in [Threads -> CallerPC \cup RoutinePC]
<1>1. "idle" \in CallerPC
  BY DEF CallerPC
<1>2. sendq' \in Seq(Callers)
  BY EmptyQueue DEF CloseDoneChan
<1>3. crash' \in Crash
  BY DEF CloseDoneChan, TypeOK, Crash
<1>4. pc' \in [Threads -> CallerPC \cup RoutinePC]
  BY <1>1 DEF TypeOK, CloseDoneChan
<1>5. doneClosed' \in BOOLEAN /\ dataClosed' \in BOOLEAN
  BY DEF TypeOK, CloseDoneChan
<1>6. QED
  BY <1>2, <1>3, <1>4, <1>5

LEMMA GotoType ==
  ASSUME TypeOK, NEW t \in Threads, NEW l \in CallerPC \cup RoutinePC, Goto(t, l)
  PROVE  pc' \in [Threads -> CallerPC \cup RoutinePC]
  BY DEF TypeOK, Goto

LEMMA TypeNext == TypeOK /\ [Next]_vars => TypeOK'
<1> SUFFICES ASSUME TypeOK, [Next]_vars PROVE TypeOK'
  OBVIOUS
<1> USE DEF CallerPC, RoutinePC, SendPC, ClosePC, EndPC
<1>1. ASSUME NEW t \in Threads,
            CloseUnmap(t)
      PROVE  TypeOK'
  <2>1. pc' \in [Threads -> CallerPC \cup RoutinePC]
    BY <1>1, GotoType DEF CloseUnmap, After
  <2>2. QED
    BY <1>1, <2>1 DEF TypeOK, CloseUnmap, flags, meta
<1>2. ASSUME NEW t \in Threads,
            CloseDone(t)
      PROVE  TypeOK'
  <2>1. CASE closed
    <3>1. pc' \in [Threads -> CallerPC \cup RoutinePC]
      BY <1>2, <2>1, GotoType DEF CloseDone, After
    <3>2. UNCHANGED <<inMap, mu, flags, readyClosed, buf, sendq, meta, out, rcvd, issued, crash>>
      BY <1>2, <2>1 DEF CloseDone, flags
    <3>3. QED
      BY <3>1, <3>2 DEF TypeOK, flags, meta
  <2>2. CASE ~closed
    <3>1. /\ closed' = TRUE /\ mu' = t /\ CloseDoneChan(t, "cls3")
          /\ UNCHANGED <<inMap, inputClosed, readyClosed, buf, meta, out, rcvd, issued>>
      BY <1>2, <2>2 DEF CloseDone, CloseFirst
    <3>2. /\ doneClosed' \in BOOLEAN /\ dataClosed' \in BOOLEAN
          /\ sendq' \in Seq(Callers) /\ crash' \in Crash
          /\ pc' \in [Threads -> CallerPC \cup RoutinePC]
      BY <3>1, CloseDoneChanType
    <3>3. QED
      BY <3>1, <3>2 DEF TypeOK, meta
  <2>3. QED
    BY <2>1, <2>2
<1>3. ASSUME NEW t \in Threads,
            CloseData(t)
      PROVE  TypeOK'
  <2>1. pc' \in [Threads -> CallerPC \cup RoutinePC]
    BY <1>3, GotoType DEF CloseData, After
  <2>2. /\ inputClosed' \in BOOLEAN /\ dataClosed' \in BOOLEAN
        /\ sendq' \in Seq(Callers) /\ crash' \in Crash
    BY <1>3, EnsureInputClosedType DEF CloseData
  <2>3. QED
    BY <1>3, <2>1, <2>2 DEF TypeOK, CloseData, meta, Unlock
<1>4. ASSUME NEW c \in Callers,
            SendLookup(c)
      PROVE  TypeOK'
  <2>1. pc' \in [Threads -> CallerPC \cup RoutinePC]
    BY <1>4, GotoType DEF SendLookup, Threads
  <2>2. issued' \in [Callers -> Nat]
    BY <1>4 DEF SendLookup, TypeOK
  <2>3. QED
    BY <1>4, <2>1, <2>2 DEF TypeOK, SendLookup, flags, meta
<1>5. ASSUME NEW c \in Callers,
            SendCheck(c)
      PROVE  TypeOK'
  <2>1. pc' \in [Threads -> CallerPC \cup RoutinePC]
    BY <1>5, GotoType DEF SendCheck, Threads, Goto, TypeOK
  <2>2. QED
    BY <1>5, <2>1 DEF TypeOK, SendCheck, flags, meta
<1>6. ASSUME NEW c \in Callers,
            SendSelect(c)
      PROVE  TypeOK'
  <2>1. pc' \in [Threads -> CallerPC \cup RoutinePC]
    <3>1. pc' = pc \/ Goto(c, "idle") \/ Goto(c, "parked")
      BY <1>6 DEF SendSelect
    <3>2. QED
      BY <3>1, GotoType DEF Threads, TypeOK
  <2>2. buf' \in Seq(Callers \X Nat) /\ Len(buf') <= Cap
    <3>1. CASE buf' = buf
      BY <3>1 DEF TypeOK
    <3>2. CASE buf' = Append(buf, Msg(c)) /\ Len(buf) < Cap
      BY <3>2, MsgType, AppendFacts DEF TypeOK
    <3>3. QED
      BY <1>6, <3>1, <3>2 DEF SendSelect, HasRoom
  <2>3. sendq' \in Seq(Callers)
    <3>1. CASE sendq' = sendq
      BY <3>1 DEF TypeOK
    <3>2. CASE sendq' = Append(sendq, c)
      BY <3>2, AppendFacts DEF TypeOK
    <3>3. QED
      BY <1>6, <3>1, <3>2 DEF SendSelect
  <2>4. crash' \in Crash
    BY <1>6 DEF SendSelect, TypeOK, Crash
  <2>5. QED
    BY <1>6, <2>1, <2>2, <2>3, <2>4 DEF TypeOK, SendSelect, flags, meta
<1>7. ASSUME NEW c \in Callers, NEW l \in {"inp", "rdy"},
            Lookup(c, l)
      PROVE  TypeOK'
  <2>1. pc' \in [Threads -> CallerPC \cup RoutinePC]
    BY <1>7, GotoType DEF Lookup, Threads
  <2>2. QED
    BY <1>7, <2>1 DEF TypeOK, Lookup, flags, meta
<1>8. ASSUME NEW c \in Callers,
            CloseStreamInput(c)
      PROVE  TypeOK'
  <2>1. pc' \in [Threads -> CallerPC \cup RoutinePC]
    BY <1>8, GotoType DEF CloseStreamInput, Threads
  <2>2. /\ inputClosed' \in BOOLEAN /\ dataClosed' \in BOOLEAN
        /\ sendq' \in Seq(Callers) /\ crash' \in Crash
    <3>1. CASE closed
      BY <1>8, <3>1 DEF CloseStreamInput, TypeOK
    <3>2. CASE ~closed
      BY <1>8, <3>2, EnsureInputClosedType DEF CloseStreamInput
    <3>3. QED
      BY <3>1, <3>2
  <2>3. QED
    BY <1>8, <2>1, <2>2 DEF TypeOK, CloseStreamInput, meta
<1>9. ASSUME NEW c \in Callers,
            SignalStreamReady(c)
      PROVE  TypeOK'
  <2>1. pc' \in [Threads -> CallerPC \cup RoutinePC]
    BY <1>9, GotoType DEF SignalStreamReady, Threads
  <2>2. QED
    BY <1>9, <2>1 DEF TypeOK, SignalStreamReady, flags, meta
<1>10. ASSUME NEW r \in Routines, NEW l \in {"await", "recv", "recvsel"},
            Start(r, l)
      PROVE  TypeOK'
  <2>1. pc' \in [Threads -> CallerPC \cup RoutinePC]
    BY <1>10, GotoType DEF Start, Threads
  <2>2. QED
    BY <1>10, <2>1 DEF TypeOK, Start, flags, meta
<1>11. ASSUME NEW r \in Routines,
            WaitForReady(r)
      PROVE  TypeOK'
  <2>1. pc' \in [Threads -> CallerPC \cup RoutinePC]
    BY <1>11, GotoType DEF WaitForReady, Threads
  <2>2. QED
    BY <1>11, <2>1 DEF TypeOK, WaitForReady, flags, meta
<1>12. ASSUME NEW r \in Routines,
            Recv(r)
      PROVE  TypeOK'
  <2>1. pc' \in [Threads -> CallerPC \cup RoutinePC]
    BY <1>12 DEF Recv, Threads, TypeOK, Goto
  <2>2. buf' \in Seq(Callers \X Nat) /\ Len(buf') <= Cap
    <3>1. buf # <<>>
      BY <1>12 DEF Recv
    <3>2. \/ buf' = Tail(buf)
          \/ sendq # <<>> /\ buf' = Append(Tail(buf), Msg(Head(sendq)))
      BY <1>12 DEF Recv
    <3>3. Tail(buf) \in Seq(Callers \X Nat) /\ Len(Tail(buf)) = Len(buf) - 1
      BY <3>1, TailFacts DEF TypeOK
    <3>4. sendq # <<>> => Msg(Head(sendq)) \in Callers \X Nat
      BY TailFacts, MsgType DEF TypeOK
    <3>5. CASE buf' = Tail(buf)
      BY <3>3, <3>5, SessionAssumption DEF TypeOK
    <3>6. CASE sendq # <<>> /\ buf' = Append(Tail(buf), Msg(Head(sendq)))
      BY <3>3, <3>4, <3>6, AppendFacts, SessionAssumption DEF TypeOK
    <3>7. QED
      BY <3>2, <3>5, <3>6
  <2>3. sendq' \in Seq(Callers)
    <3>1. CASE sendq' = sendq
      BY <3>1 DEF TypeOK
    <3>2. CASE sendq # <<>> /\ sendq' = Tail(sendq)
      BY <3>2, TailFacts DEF TypeOK
    <3>3. QED
      BY <1>12, <3>1, <3>2 DEF Recv
  <2>4. rcvd' \in Seq(Callers \X Nat)
    BY <1>12 DEF Recv, TypeOK
  <2>5. UNCHANGED <<inMap, mu, closed, inputClosed, dataClosed, doneClosed, readyClosed,
                    hasHeaders, headersSent, hasTrailers, out, issued, crash>>
    BY <1>12 DEF Recv, flags, meta
  <2>6. QED
    BY <2>1, <2>2, <2>3, <2>4, <2>5 DEF TypeOK
<1>13. ASSUME NEW r \in Routines,
            RecvEnd(r) \/ GiveUp(r)
      PROVE  TypeOK'
  <2>1. pc' \in [Threads -> CallerPC \cup RoutinePC]
    BY <1>13, GotoType DEF RecvEnd, GiveUp, Threads
  <2>2. QED
    BY <1>13, <2>1 DEF TypeOK, RecvEnd, GiveUp, flags, meta
<1>14. ASSUME NEW r \in Routines, NEW l \in {"data", "half"},
            SendFromStream(r, l)
      PROVE  TypeOK'
  <2>1. pc' \in [Threads -> CallerPC \cup RoutinePC]
    BY <1>14, GotoType DEF SendFromStream, Threads
  <2>2. QED
    BY <1>14, <2>1 DEF TypeOK, SendFromStream, flags, meta
<1>15. ASSUME NEW r \in Routines,
            SendHeader(r)
      PROVE  TypeOK'
  <2>1. pc' \in [Threads -> CallerPC \cup RoutinePC]
    BY <1>15, GotoType DEF SendHeader, Threads
  <2>2. QED
    BY <1>15, <2>1 DEF TypeOK, SendHeader, flags, meta
<1>16. ASSUME NEW r \in Routines, NEW l \in MsgKind, NEW n \in {"idle", "end", "done"},
            Callback(r, l, n)
      PROVE  TypeOK'
  <2>1. pc' \in [Threads -> CallerPC \cup RoutinePC]
    BY <1>16, GotoType DEF Callback, Threads
  <2>2. out' \in Seq(MsgKind)
    BY <1>16, AppendFacts DEF Callback, TypeOK
  <2>3. QED
    BY <1>16, <2>1, <2>2 DEF TypeOK, Callback, flags, meta
<1>17. ASSUME NEW r \in Routines,
            SetHeader(r)
      PROVE  TypeOK'
  <2>1. crash' \in Crash
    BY <1>17 DEF SetHeader, TypeOK, Crash, MayRace
  <2>2. QED
    BY <1>17, <2>1 DEF TypeOK, SetHeader, flags, meta
<1>18. ASSUME NEW r \in Routines,
            SetTrailer(r)
      PROVE  TypeOK'
  <2>1. crash' \in Crash
    BY <1>18 DEF SetTrailer, TypeOK, Crash, MayRace
  <2>2. QED
    BY <1>18, <2>1 DEF TypeOK, SetTrailer, flags, meta
<1>19. ASSUME NEW r \in Routines, NEW l \in {"trailer", "end", "error"},
            Finish(r, l)
      PROVE  TypeOK'
  <2>1. pc' \in [Threads -> CallerPC \cup RoutinePC]
    BY <1>19, GotoType DEF Finish, Threads
  <2>2. /\ inputClosed' \in BOOLEAN /\ dataClosed' \in BOOLEAN
        /\ sendq' \in Seq(Callers) /\ crash' \in Crash
    BY <1>19, EnsureInputClosedType DEF Finish
  <2>3. QED
    BY <1>19, <2>1, <2>2 DEF TypeOK, Finish, meta
<1>20. ASSUME NEW r \in Routines,
            CloseDoneLast(r)
      PROVE  TypeOK'
  <2>1. /\ doneClosed' \in BOOLEAN /\ dataClosed' \in BOOLEAN
        /\ sendq' \in Seq(Callers) /\ crash' \in Crash
        /\ pc' \in [Threads -> CallerPC \cup RoutinePC]
    BY <1>20, CloseDoneChanType DEF CloseDoneLast, Threads
  <2>2. QED
    BY <1>20, <2>1 DEF TypeOK, CloseDoneLast, meta
<1>21. CASE UNCHANGED vars
  BY <1>21 DEF TypeOK, vars, flags, meta
<1>22. QED
  BY <1>1, <1>2, <1>3, <1>4, <1>5, <1>6, <1>7, <1>8, <1>9, <1>10, <1>11, <1>12, <1>13, <1>14, <1>15, <1>16, <1>17, <1>18, <1>19, <1>20, <1>21 DEF Next, Continue, Begin, EndStream, ErrorStream, MsgKind

(* Every variable keeps its type.                                          *)
THEOREM TypeCorrect == Spec => []TypeOK
  BY TypeInit, TypeNext, PTL DEF Spec

---------------------------------------------------------------------------
(* No channel is closed twice.                                             *)

LEMMA IInvInit == Init => IInv
<1> SUFFICES ASSUME Init PROVE IInv
  OBVIOUS
<1>1. FlagsAgree /\ MutexHolder /\ NoDoubleClose
  BY SessionAssumption DEF Init, FlagsAgree, MutexHolder, NoDoubleClose, Threads
<1>2. OneEnding
  BY DEF Init, OneEnding, Ending, EndPC
<1>3. SendQueue
  BY DEF Init, SendQueue
<1>4. QED
  BY <1>1, <1>2, <1>3, TypeInit DEF IInv

(* A step of one thread that neither enters nor leaves the places the      *)
(* invariant speaks of, and touches no flag, keeps it.                     *)
Marked == EndPC \cup {"cls3", "parked"}

LEMMA QuietStep ==
  ASSUME IInv, TypeOK', NEW t \in Threads, NEW l, Goto(t, l),
         pc[t] \notin Marked, l \notin Marked,
         UNCHANGED <<flags, mu, sendq>>, crash' = crash
  PROVE  IInv'
<1> USE DEF Marked, EndPC
<1>1. \A u \in Threads : pc'[u] = IF u = t THEN l ELSE pc[u]
  BY DEF Goto, IInv, TypeOK
<1>2. FlagsAgree' /\ NoDoubleClose'
  BY DEF IInv, FlagsAgree, NoDoubleClose, flags
<1>3. MutexHolder'
  BY <1>1 DEF IInv, MutexHolder, TypeOK
<1>4. OneEnding'
  BY <1>1 DEF IInv, OneEnding, Ending, flags
<1>5. SendQueue'
  <2>1. \A i \in DOMAIN sendq : sendq[i] \in Threads
    BY DEF IInv, TypeOK, Threads
  <2>2. QED
    BY <1>1, <2>1 DEF IInv, SendQueue
<1>6. QED
  BY <1>2, <1>3, <1>4, <1>5 DEF IInv

(* Closing the input twice is harmless: the second time nothing happens.   *)
LEMMA CloseInputStep ==
  ASSUME IInv, EnsureInputClosed
  PROVE  /\ inputClosed' = TRUE /\ dataClosed' = TRUE
         /\ crash' # "double close"
         /\ sendq' = sendq \/ sendq' = <<>>
  BY DEF IInv, TypeOK, FlagsAgree, NoDoubleClose, EnsureInputClosed, CloseDataChan

(* The same for a step that also closes the input.                         *)
LEMMA InputStep ==
  ASSUME IInv, TypeOK', NEW t \in Threads, NEW l, Goto(t, l),
         pc[t] \notin Marked, l \notin Marked,
         EnsureInputClosed, UNCHANGED <<closed, doneClosed, mu>>
  PROVE  IInv'
<1> USE DEF Marked, EndPC
<1>1. \A u \in Threads : pc'[u] = IF u = t THEN l ELSE pc[u]
  BY DEF Goto, IInv, TypeOK
<1>2. FlagsAgree' /\ NoDoubleClose'
  BY CloseInputStep DEF IInv, FlagsAgree, NoDoubleClose
<1>3. MutexHolder'
  BY <1>1 DEF IInv, MutexHolder, TypeOK
<1>4. OneEnding'
  BY <1>1, CloseInputStep DEF IInv, OneEnding, Ending
<1>5. SendQueue'
  <2>1. \A i \in DOMAIN sendq : sendq[i] \in Threads
    BY DEF IInv, TypeOK, Threads
  <2>2. CASE sendq' = sendq
    BY <1>1, <2>1, <2>2 DEF IInv, SendQueue
  <2>3. CASE sendq' = <<>>
    BY <2>3 DEF SendQueue
  <2>4. QED
    BY <2>2, <2>3, CloseInputStep
<1>6. QED
  BY <1>2, <1>3, <1>4, <1>5 DEF IInv

(* EndStream and ErrorStream, up to the callbacks.                         *)
LEMMA FinishStep ==
  ASSUME IInv, TypeOK', NEW r \in Routines, NEW l \in {"trailer", "end", "error"},
         Finish(r, l)
  PROVE  IInv'
<1>1. r \in Threads /\ pc[r] = "idle"
  BY DEF Threads, Finish, At
<1>2. \A u \in Threads : pc'[u] = IF u = r THEN l ELSE pc[u]
  BY <1>1 DEF Finish, Goto, IInv, TypeOK
<1>3. ~closed /\ mu = NoThread /\ ~doneClosed
  BY DEF Finish, NotFinished, Lock, IInv, FlagsAgree
<1>4. closed' = TRUE /\ doneClosed' = doneClosed /\ mu' = mu
  BY DEF Finish
<1>5. inputClosed' = TRUE /\ dataClosed' = TRUE /\ NoDoubleClose'
      /\ (sendq' = sendq \/ sendq' = <<>>)
  BY CloseInputStep DEF Finish, NoDoubleClose
<1>6. FlagsAgree'
  BY <1>3, <1>4, <1>5 DEF FlagsAgree
<1>7. MutexHolder'
  BY <1>2, <1>3, <1>4 DEF IInv, MutexHolder
<1>8. OneEnding'
  <2>1. \A u \in Threads : ~Ending(u)
    BY <1>3 DEF IInv, OneEnding
  <2>2. QED
    BY <2>1, <1>2, <1>3, <1>4, <1>5 DEF OneEnding, Ending, TypeOK, IInv
<1>9. SendQueue'
  <2>1. \A i \in DOMAIN sendq : sendq[i] \in Threads
    BY DEF IInv, TypeOK, Threads
  <2>2. CASE sendq' = sendq
    BY <1>1, <1>2, <2>1, <2>2 DEF IInv, SendQueue
  <2>3. CASE sendq' = <<>>
    BY <2>3 DEF SendQueue
  <2>4. QED
    BY <2>2, <2>3, <1>5
<1>10. QED
  BY <1>5, <1>6, <1>7, <1>8, <1>9 DEF IInv

(* Closing DoneChan, by the thread that marked the session closed.         *)
LEMMA DoneChanPC ==
  ASSUME IInv, NEW t \in Threads, NEW l, CloseDoneChan(t, l)
  PROVE  /\ pc'[t] = l
         /\ \A u \in Threads \ {t} : pc'[u] = pc[u] \/ (pc[u] = "parked" /\ pc'[u] = "idle")
         /\ SendQueue'
<1>1. \A u \in Parked : pc[u] = "parked"
  BY DEF IInv, SendQueue, Parked
<1>2. /\ pc'[t] = l
      /\ \A u \in Threads \ {t} : pc'[u] = IF u \in Parked THEN "idle" ELSE pc[u]
  BY DEF CloseDoneChan
<1>3. sendq' = <<>>
  BY DEF CloseDoneChan
<1>4. SendQueue'
  BY <1>3 DEF SendQueue
<1>5. \A u \in Threads \ {t} : pc'[u] = pc[u] \/ (pc[u] = "parked" /\ pc'[u] = "idle")
  <2> SUFFICES ASSUME NEW u \in Threads \ {t}
               PROVE  pc'[u] = pc[u] \/ (pc[u] = "parked" /\ pc'[u] = "idle")
    OBVIOUS
  <2>1. CASE u \in Parked
    BY <1>1, <1>2, <2>1
  <2>2. CASE u \notin Parked
    BY <1>2, <2>2
  <2>3. QED
    BY <2>1, <2>2
<1>6. QED
  BY <1>2, <1>4, <1>5

LEMMA CloseDoneStep ==
  ASSUME IInv, TypeOK', NEW t \in Threads, CloseDone(t)
  PROVE  IInv'
<1>1. CASE closed
  <2>1. Goto(t, After(t)) /\ After(t) \notin Marked /\ pc[t] \notin Marked
    BY <1>1 DEF CloseDone, After, Marked, EndPC, At
  <2>2. UNCHANGED <<flags, mu, sendq>> /\ crash' = crash
    BY <1>1 DEF CloseDone, flags
  <2>3. QED
    BY <2>1, <2>2, QuietStep
<1>2. CASE ~closed
  <2>1. /\ ~doneClosed /\ mu = NoThread
        /\ \A u \in Threads : ~Ending(u) /\ pc[u] # "cls3"
    BY <1>2, SessionAssumption DEF CloseDone, Lock, IInv, FlagsAgree, OneEnding, MutexHolder, Threads
  <2>2. /\ closed' = TRUE /\ mu' = t /\ CloseDoneChan(t, "cls3")
        /\ inputClosed' = inputClosed /\ dataClosed' = dataClosed /\ doneClosed' = TRUE
    BY <1>2 DEF CloseDone, CloseFirst, CloseDoneChan
  <2>3. /\ pc'[t] = "cls3" /\ SendQueue'
        /\ \A u \in Threads \ {t} : pc'[u] = pc[u] \/ (pc[u] = "parked" /\ pc'[u] = "idle")
    BY <2>2, DoneChanPC
  <2>4. t # NoThread
    BY SessionAssumption DEF Threads
  <2>5. FlagsAgree'
    BY <2>2, <2>4 DEF IInv, FlagsAgree
  <2>6. MutexHolder'
    BY <2>1, <2>2, <2>3 DEF MutexHolder
  <2>7. OneEnding'
    BY <2>1, <2>3 DEF OneEnding, Ending, EndPC
  <2>8. NoDoubleClose'
    BY <2>1, <2>2 DEF IInv, NoDoubleClose, CloseDoneChan
  <2>9. QED
    BY <2>3, <2>5, <2>6, <2>7, <2>8 DEF IInv
<1>3. QED
  BY <1>1, <1>2

LEMMA CloseDataStep ==
  ASSUME IInv, TypeOK', NEW t \in Threads, CloseData(t)
  PROVE  IInv'
<1>1. mu = t /\ pc[t] = "cls3" /\ t # NoThread /\ mu' = NoThread
  BY SessionAssumption DEF CloseData, Threads, At, Unlock
<1>2. closed /\ doneClosed /\ UNCHANGED <<closed, doneClosed>>
  BY <1>1 DEF CloseData, IInv, FlagsAgree
<1>3. inputClosed' = TRUE /\ dataClosed' = TRUE /\ NoDoubleClose'
      /\ (sendq' = sendq \/ sendq' = <<>>)
  BY CloseInputStep DEF CloseData, NoDoubleClose
<1>4. \A u \in Threads : pc'[u] = IF u = t THEN After(t) ELSE pc[u]
  BY DEF CloseData, Goto, IInv, TypeOK
<1>5. After(t) \in {"idle", "exited"}
  BY DEF After
<1>6. FlagsAgree'
  BY <1>1, <1>2, <1>3 DEF FlagsAgree
<1>7. MutexHolder'
  BY <1>1, <1>4, <1>5 DEF IInv, MutexHolder
<1>8. OneEnding'
  <2>1. \A u \in Threads : ~Ending(u)
    BY <1>2 DEF IInv, OneEnding
  <2>2. QED
    BY <2>1, <1>4, <1>5 DEF OneEnding, Ending, EndPC
<1>9. SendQueue'
  <2>1. \A i \in DOMAIN sendq : sendq[i] \in Threads
    BY DEF IInv, TypeOK, Threads
  <2>2. CASE sendq' = sendq
    BY <1>1, <1>4, <2>1, <2>2 DEF IInv, SendQueue
  <2>3. CASE sendq' = <<>>
    BY <2>3 DEF SendQueue
  <2>4. QED
    BY <2>2, <2>3, <1>3
<1>10. QED
  BY <1>3, <1>6, <1>7, <1>8, <1>9 DEF IInv

LEMMA CloseDoneLastStep ==
  ASSUME IInv, TypeOK', NEW r \in Routines, CloseDoneLast(r)
  PROVE  IInv'
<1>1. r \in Threads /\ Ending(r)
  BY DEF Threads, CloseDoneLast, At, Ending, EndPC
<1>2. /\ closed /\ inputClosed /\ dataClosed /\ ~doneClosed /\ mu = NoThread
      /\ \A u \in Threads \ {r} : ~Ending(u)
  BY <1>1 DEF IInv, OneEnding, FlagsAgree
<1>3. CloseDoneChan(r, "idle") /\ UNCHANGED <<mu, closed, inputClosed>>
  BY DEF CloseDoneLast
<1>4. /\ pc'[r] = "idle" /\ SendQueue'
      /\ \A u \in Threads \ {r} : pc'[u] = pc[u] \/ (pc[u] = "parked" /\ pc'[u] = "idle")
  BY <1>1, <1>3, DoneChanPC
<1>5. FlagsAgree' /\ NoDoubleClose'
  BY <1>2, <1>3 DEF FlagsAgree, NoDoubleClose, CloseDoneChan, IInv
<1>6. MutexHolder'
  BY <1>2, <1>3, <1>4 DEF IInv, MutexHolder
<1>7. OneEnding'
  BY <1>2, <1>4 DEF OneEnding, Ending, EndPC
<1>8. QED
  BY <1>4, <1>5, <1>6, <1>7 DEF IInv

(* The callbacks of EndStream and ErrorStream stay inside the ending; all  *)
(* others are outside it.                                                  *)
LEMMA CallbackStep ==
  ASSUME IInv, TypeOK', NEW r \in Routines, NEW l, NEW n, Callback(r, l, n),
         \/ l \in {"data", "half", "header"} /\ n = "idle"
         \/ l \in {"trailer", "end", "error"} /\ n \in {"end", "done"}
  PROVE  IInv'
<1>1. /\ r \in Threads /\ pc[r] = l /\ Goto(r, n)
      /\ UNCHANGED <<flags, mu, sendq>> /\ crash' = crash
  BY DEF Threads, Callback, At, flags
<1>2. CASE l \in {"data", "half", "header"} /\ n = "idle"
  BY <1>1, <1>2, QuietStep DEF Marked, EndPC
<1>3. CASE l \in {"trailer", "end", "error"} /\ n \in {"end", "done"}
  <2>1. \A u \in Threads : pc'[u] = IF u = r THEN n ELSE pc[u]
    BY <1>1 DEF Goto, IInv, TypeOK
  <2>2. FlagsAgree' /\ NoDoubleClose'
    BY <1>1 DEF IInv, FlagsAgree, NoDoubleClose, flags
  <2>3. MutexHolder'
    BY <1>1, <1>3, <2>1 DEF IInv, MutexHolder, TypeOK
  <2>4. OneEnding'
    <3>1. \A u \in Threads : Ending(u)' => Ending(u)
      BY <1>1, <1>3, <2>1 DEF Ending, EndPC
    <3>2. QED
      BY <1>1, <3>1 DEF IInv, OneEnding, flags
  <2>5. SendQueue'
    <3>1. \A i \in DOMAIN sendq : sendq[i] \in Threads
      BY DEF IInv, TypeOK, Threads
    <3>2. QED
      BY <1>1, <1>3, <2>1, <3>1 DEF IInv, SendQueue
  <2>6. QED
    BY <2>2, <2>3, <2>4, <2>5 DEF IInv
<1>4. QED
  BY <1>2, <1>3

LEMMA SendSelectStep ==
  ASSUME IInv, TypeOK', NEW c \in Callers, SendSelect(c)
  PROVE  IInv'
<1>1. /\ c \in Threads /\ pc[c] = "snd2" /\ UNCHANGED <<flags, mu>>
      /\ crash # "double close"
  BY DEF Threads, SendSelect, At
<1>2. CASE Goto(c, "idle") /\ UNCHANGED <<sendq, crash>>
  BY <1>1, <1>2, QuietStep DEF Marked, EndPC
<1>3. CASE crash' = "send on closed" /\ UNCHANGED <<sendq, pc>>
  BY <1>1, <1>3 DEF IInv, FlagsAgree, MutexHolder, OneEnding, Ending, SendQueue,
                    NoDoubleClose, flags
<1>4. CASE sendq' = Append(sendq, c) /\ Goto(c, "parked") /\ crash' = crash
  <2>1. \A u \in Threads : pc'[u] = IF u = c THEN "parked" ELSE pc[u]
    BY <1>4 DEF Goto, IInv, TypeOK
  <2>2. FlagsAgree' /\ NoDoubleClose'
    BY <1>1, <1>4 DEF IInv, FlagsAgree, NoDoubleClose, flags
  <2>3. MutexHolder'
    BY <1>1, <2>1 DEF IInv, MutexHolder, TypeOK
  <2>4. OneEnding'
    BY <1>1, <2>1 DEF IInv, OneEnding, Ending, EndPC, flags
  <2>5. SendQueue'
    <3>1. \A i \in DOMAIN sendq : sendq[i] \in Threads /\ sendq[i] # c /\ pc[sendq[i]] = "parked"
      <4>1. \A i \in DOMAIN sendq : sendq[i] \in Threads
        BY DEF IInv, TypeOK, Threads
      <4>2. \A i \in DOMAIN sendq : pc[sendq[i]] = "parked"
        BY DEF IInv, SendQueue
      <4>3. QED
        BY <1>1, <4>1, <4>2
    <3>2. sendq \in Seq(Callers)
      BY DEF IInv, TypeOK
    <3>3. /\ DOMAIN sendq' = 1..(Len(sendq) + 1)
          /\ \A i \in DOMAIN sendq : sendq'[i] = sendq[i]
          /\ sendq'[Len(sendq) + 1] = c
          /\ DOMAIN sendq = 1..Len(sendq)
      BY <1>4, <3>2
    <3>4. \A i \in DOMAIN sendq' : i \in DOMAIN sendq \/ i = Len(sendq) + 1
      BY <3>2, <3>3
    <3>5. \A i \in DOMAIN sendq' : pc'[sendq'[i]] = "parked"
      BY <1>1, <2>1, <3>1, <3>3, <3>4
    <3>6. \A i, j \in DOMAIN sendq' : sendq'[i] = sendq'[j] => i = j
      BY <3>1, <3>3, <3>4 DEF IInv, SendQueue
    <3>7. QED
      BY <3>5, <3>6 DEF SendQueue
  <2>6. QED
    BY <2>2, <2>3, <2>4, <2>5 DEF IInv
<1>5. QED
  BY <1>2, <1>3, <1>4 DEF SendSelect

LEMMA RecvStep ==
  ASSUME IInv, TypeOK', NEW r \in Routines, Recv(r)
  PROVE  IInv'
<1>1. /\ r \in Threads /\ pc[r] \in {"recv", "recvsel"}
      /\ UNCHANGED <<flags, mu>> /\ crash' = crash
  BY DEF Threads, Recv, At
<1>2. CASE sendq' = sendq /\ Goto(r, "idle")
  BY <1>1, <1>2, QuietStep DEF Marked, EndPC
<1>3. CASE /\ sendq # <<>> /\ sendq' = Tail(sendq)
           /\ pc' = [pc EXCEPT ![r] = "idle", ![Head(sendq)] = "idle"]
  <2>1. /\ sendq \in Seq(Callers) /\ Len(sendq) > 0 /\ Head(sendq) = sendq[1]
        /\ DOMAIN sendq = 1..Len(sendq)
        /\ DOMAIN sendq' = 1..(Len(sendq) - 1)
        /\ \A i \in DOMAIN sendq' : sendq'[i] = sendq[i + 1]
    BY <1>3 DEF IInv, TypeOK
  <2>2. Head(sendq) \in Threads /\ pc[Head(sendq)] = "parked"
    BY <2>1 DEF IInv, SendQueue, Threads
  <2>3. \A u \in Threads : pc'[u] = IF u = r \/ u = Head(sendq) THEN "idle" ELSE pc[u]
    BY <1>1, <1>3, <2>2 DEF IInv, TypeOK
  <2>4. FlagsAgree' /\ NoDoubleClose'
    BY <1>1 DEF IInv, FlagsAgree, NoDoubleClose, flags
  <2>5. MutexHolder'
    BY <1>1, <2>2, <2>3 DEF IInv, MutexHolder, TypeOK
  <2>6. OneEnding'
    BY <1>1, <2>3 DEF IInv, OneEnding, Ending, EndPC, flags
  <2>7. SendQueue'
    <3>1. \A i \in DOMAIN sendq' : i \in Nat /\ i + 1 \in DOMAIN sendq /\ i + 1 # 1
      BY <2>1
    <3>2. \A i \in DOMAIN sendq' :
            /\ sendq'[i] \in Threads /\ sendq'[i] # Head(sendq) /\ sendq'[i] # r
            /\ pc[sendq'[i]] = "parked"
      BY <1>1, <2>1, <3>1 DEF IInv, SendQueue, Threads
    <3>3. \A i \in DOMAIN sendq' : pc'[sendq'[i]] = "parked"
      BY <2>3, <3>2
    <3>4. \A i, j \in DOMAIN sendq' : sendq'[i] = sendq'[j] => i = j
      BY <2>1, <3>1 DEF IInv, SendQueue
    <3>5. QED
      BY <3>3, <3>4 DEF SendQueue
  <2>8. QED
    BY <2>4, <2>5, <2>6, <2>7 DEF IInv
<1>4. QED
  BY <1>2, <1>3 DEF Recv

LEMMA IInvNext == IInv /\ [Next]_vars => IInv'
<1> SUFFICES ASSUME IInv, [Next]_vars PROVE IInv'
  OBVIOUS
<1>1. TypeOK'
  BY TypeNext DEF IInv
<1>2. Callers \subseteq Threads /\ Routines \subseteq Threads /\ Main \in Threads
  BY SessionAssumption DEF Threads
<1> USE DEF Marked, EndPC
<1>3. ASSUME NEW t \in Threads, CloseUnmap(t) PROVE IInv'
  <2>1. Goto(t, "cls2") \/ Goto(t, "idle") \/ Goto(t, "exited")
    BY <1>3 DEF CloseUnmap, After
  <2>2. UNCHANGED <<flags, mu, sendq>> /\ crash' = crash /\ pc[t] = "idle"
    BY <1>3 DEF CloseUnmap, At, flags
  <2>3. QED
    BY <1>1, <2>1, <2>2, QuietStep
<1>4. ASSUME NEW c \in Callers, SendLookup(c) \/ SendCheck(c) PROVE IInv'
  <2>1. Goto(c, "snd1") \/ Goto(c, "snd2") \/ Goto(c, "idle")
    BY <1>4 DEF SendLookup, SendCheck
  <2>2. UNCHANGED <<flags, mu, sendq>> /\ crash' = crash /\ pc[c] \in {"idle", "snd1"}
    BY <1>4 DEF SendLookup, SendCheck, At, flags
  <2>3. QED
    BY <1>1, <1>2, <2>1, <2>2, QuietStep
<1>5. ASSUME NEW c \in Callers, Lookup(c, "inp") \/ Lookup(c, "rdy") PROVE IInv'
  <2>1. Goto(c, "inp") \/ Goto(c, "rdy")
    BY <1>5 DEF Lookup
  <2>2. UNCHANGED <<flags, mu, sendq>> /\ crash' = crash /\ pc[c] = "idle"
    BY <1>5 DEF Lookup, At, flags
  <2>3. QED
    BY <1>1, <1>2, <2>1, <2>2, QuietStep
<1>6. ASSUME NEW c \in Callers, CloseStreamInput(c) PROVE IInv'
  <2>1. Goto(c, "idle") /\ pc[c] = "inp" /\ UNCHANGED <<closed, doneClosed, mu>>
    BY <1>6 DEF CloseStreamInput, At
  <2>2. CASE closed
    <3>1. UNCHANGED <<flags, mu, sendq>> /\ crash' = crash
      BY <1>6, <2>2 DEF CloseStreamInput, flags
    <3>2. QED
      BY <1>1, <1>2, <2>1, <3>1, QuietStep
  <2>3. CASE ~closed
    <3>1. EnsureInputClosed
      BY <1>6, <2>3 DEF CloseStreamInput
    <3>2. QED
      BY <1>1, <1>2, <2>1, <3>1, InputStep
  <2>4. QED
    BY <2>2, <2>3
<1>7. ASSUME NEW c \in Callers, SignalStreamReady(c) PROVE IInv'
  <2>1. /\ Goto(c, "idle") /\ pc[c] = "rdy"
        /\ UNCHANGED <<flags, mu, sendq>> /\ crash' = crash
    BY <1>7 DEF SignalStreamReady, At, flags
  <2>2. QED
    BY <1>1, <1>2, <2>1, QuietStep
<1>8. ASSUME NEW r \in Routines, NEW l \in {"await", "recv", "recvsel"}, Start(r, l)
      PROVE  IInv'
  <2>1. Goto(r, l) /\ pc[r] = "idle" /\ UNCHANGED <<flags, mu, sendq>> /\ crash' = crash
    BY <1>8 DEF Start, At, flags
  <2>2. QED
    BY <1>1, <1>2, <2>1, QuietStep
<1>9. ASSUME NEW r \in Routines, WaitForReady(r) \/ RecvEnd(r) \/ GiveUp(r) PROVE IInv'
  <2>1. /\ Goto(r, "idle") /\ pc[r] \in {"await", "recv", "recvsel"}
        /\ UNCHANGED <<flags, mu, sendq>> /\ crash' = crash
    BY <1>9 DEF WaitForReady, RecvEnd, GiveUp, At, flags
  <2>2. QED
    BY <1>1, <1>2, <2>1, QuietStep
<1>10. ASSUME NEW r \in Routines, NEW l \in {"data", "half"}, SendFromStream(r, l)
       PROVE  IInv'
  <2>1. Goto(r, l) /\ pc[r] = "idle" /\ UNCHANGED <<flags, mu, sendq>> /\ crash' = crash
    BY <1>10 DEF SendFromStream, At, flags
  <2>2. QED
    BY <1>1, <1>2, <2>1, QuietStep
<1>11. ASSUME NEW r \in Routines, SendHeader(r) PROVE IInv'
  <2>1. Goto(r, "header") \/ Goto(r, "idle")
    BY <1>11 DEF SendHeader
  <2>2. pc[r] = "idle" /\ UNCHANGED <<flags, mu, sendq>> /\ crash' = crash
    BY <1>11 DEF SendHeader, At, flags
  <2>3. QED
    BY <1>1, <1>2, <2>1, <2>2, QuietStep
<1>12. ASSUME NEW r \in Routines, SetHeader(r) \/ SetTrailer(r) PROVE IInv'
  <2>1. UNCHANGED <<flags, mu, sendq, pc>> /\ crash' \in {crash, "map race"}
    BY <1>12 DEF SetHeader, SetTrailer, MayRace
  <2>2. QED
    BY <1>1, <2>1 DEF IInv, FlagsAgree, MutexHolder, OneEnding, Ending, SendQueue,
                      NoDoubleClose, flags
<1>13. CASE UNCHANGED vars
  BY <1>1, <1>13 DEF vars, IInv, FlagsAgree, MutexHolder, OneEnding, Ending, SendQueue,
                     NoDoubleClose, flags
<1>14. ASSUME NEW t \in Threads, Continue(t) PROVE IInv'
  BY <1>1, <1>4, <1>6, <1>7, <1>9, <1>14, CloseDoneStep, CloseDataStep, SendSelectStep,
     RecvStep, CloseDoneLastStep, CallbackStep DEF Continue
<1>15. ASSUME NEW t \in Threads, Begin(t) PROVE IInv'
  BY <1>1, <1>3, <1>4, <1>5, <1>8, <1>9, <1>10, <1>11, <1>12, <1>15, FinishStep
     DEF Begin, EndStream, ErrorStream
<1>16. QED
  BY <1>13, <1>14, <1>15 DEF Next

(* A session whose DataChan is closed and empty stays so.                  *)
LEMMA DrainedStays ==
  ASSUME IInv, [Next]_vars, dataClosed, buf = <<>>
  PROVE  dataClosed' /\ buf' = <<>>
<1>1. CASE UNCHANGED vars
  BY <1>1 DEF vars, flags
<1>2. ASSUME NEW t \in Threads, CloseDone(t) \/ CloseData(t) PROVE dataClosed' /\ buf' = <<>>
  BY <1>2 DEF CloseDone, CloseFirst, CloseDoneChan, CloseData, EnsureInputClosed, CloseDataChan
<1>3. ASSUME NEW t \in Threads, SendCheck(t) \/ SendSelect(t) PROVE dataClosed' /\ buf' = <<>>
  BY <1>3 DEF SendCheck, SendSelect, HasRoom, flags
<1>4. ASSUME NEW t \in Threads, CloseStreamInput(t) \/ SignalStreamReady(t)
      PROVE  dataClosed' /\ buf' = <<>>
  BY <1>4 DEF CloseStreamInput, SignalStreamReady, EnsureInputClosed, CloseDataChan, flags
<1>5. ASSUME NEW t \in Threads, WaitForReady(t) \/ Recv(t) \/ RecvEnd(t) \/ GiveUp(t)
      PROVE  dataClosed' /\ buf' = <<>>
  BY <1>5 DEF WaitForReady, Recv, RecvEnd, GiveUp, flags
<1>6. ASSUME NEW t \in Threads, CloseDoneLast(t) PROVE dataClosed' /\ buf' = <<>>
  BY <1>6 DEF CloseDoneLast, CloseDoneChan
<1>7. ASSUME NEW t \in Threads, NEW l, NEW n, Callback(t, l, n) PROVE dataClosed' /\ buf' = <<>>
  BY <1>7 DEF Callback, flags
<1>8. ASSUME NEW t \in Threads, CloseUnmap(t) \/ SendLookup(t) PROVE dataClosed' /\ buf' = <<>>
  BY <1>8 DEF CloseUnmap, SendLookup, flags
<1>9. ASSUME NEW t \in Threads, NEW l, Lookup(t, l) \/ Start(t, l) \/ SendFromStream(t, l)
      PROVE  dataClosed' /\ buf' = <<>>
  BY <1>9 DEF Lookup, Start, SendFromStream, flags
<1>10. ASSUME NEW t \in Threads, SendHeader(t) \/ SetHeader(t) \/ SetTrailer(t)
       PROVE  dataClosed' /\ buf' = <<>>
  BY <1>10 DEF SendHeader, SetHeader, SetTrailer, flags
<1>11. ASSUME NEW t \in Threads, EndStream(t) \/ ErrorStream(t) PROVE dataClosed' /\ buf' = <<>>
  BY <1>11 DEF EndStream, ErrorStream, Finish, EnsureInputClosed, CloseDataChan
<1>12. ASSUME NEW t \in Threads, Continue(t) PROVE dataClosed' /\ buf' = <<>>
  BY <1>12, <1>2, <1>3, <1>4, <1>5, <1>6, <1>7 DEF Continue
<1>13. ASSUME NEW t \in Threads, Begin(t) PROVE dataClosed' /\ buf' = <<>>
  BY <1>13, <1>5, <1>8, <1>9, <1>10, <1>11 DEF Begin
<1>14. QED
  BY <1>1, <1>12, <1>13 DEF Next

(* DataChan and DoneChan are closed at most once, whatever the callers and *)
(* the goroutines that share the session do (stream_handler.go:139-178 and *)
(* 385-435).                                                               *)
THEOREM ClosedOnce == Spec => []NoDoubleClose
<1>1. IInv => NoDoubleClose
  BY DEF IInv
<1>2. QED
  BY <1>1, IInvInit, IInvNext, PTL DEF Spec

(* A goroutine or sender that sees DoneChan closed never goes on to find   *)
(* the input open for good: it is closed, or its closer holds the mutex.   *)
THEOREM DoneClosesInput == Spec => []DoneImpliesInputClosed
<1>1. IInv => DoneImpliesInputClosed
  BY DEF IInv, FlagsAgree, DoneImpliesInputClosed
<1>2. QED
  BY <1>1, IInvInit, IInvNext, PTL DEF Spec

---------------------------------------------------------------------------
(* No lost wake-up.  Most steps park nobody and leave the channels alone.  *)
NobodyParks == \A c \in Callers : pc'[c] = "parked" => pc[c] = "parked"

LEMMA ParkedQuiet ==
  ASSUME ParkedForRoom, NobodyParks, crash' = "none" => crash = "none",
         UNCHANGED <<buf, sendq, dataClosed, doneClosed>>
  PROVE  ParkedForRoom'
  BY DEF ParkedForRoom, NobodyParks, Parked

LEMMA ParkedGoto ==
  ASSUME IInv, ParkedForRoom, NEW t \in Threads, NEW l, Goto(t, l), l # "parked",
         crash' = crash, UNCHANGED <<buf, sendq, dataClosed, doneClosed>>
  PROVE  ParkedForRoom'
<1>1. NobodyParks
  BY DEF NobodyParks, Goto, IInv, TypeOK, Threads
<1> QED
  BY <1>1, ParkedQuiet

(* Closing the input takes the process down when somebody is parked.       *)
LEMMA ParkedInput ==
  ASSUME IInv, ParkedForRoom, NEW t \in Threads, NEW l, Goto(t, l), l # "parked",
         EnsureInputClosed, UNCHANGED <<buf, doneClosed>>
  PROVE  ParkedForRoom'
<1>1. NobodyParks
  BY DEF NobodyParks, Goto, IInv, TypeOK, Threads
<1>2. CASE inputClosed
  BY <1>1, <1>2, ParkedQuiet DEF EnsureInputClosed
<1>3. CASE ~inputClosed
  <2>1. crash' = "none" => sendq = <<>> /\ crash = "none"
    BY <1>3 DEF EnsureInputClosed, CloseDataChan
  <2>2. crash' = "none" => Parked = {}
    BY <2>1 DEF Parked
  <2> QED
    BY <1>1, <2>1, <2>2 DEF ParkedForRoom, NobodyParks
<1> QED
  BY <1>2, <1>3

(* Closing DoneChan wakes everybody.                                       *)
LEMMA ParkedDone ==
  ASSUME ParkedForRoom, NEW t \in Threads, NEW l, CloseDoneChan(t, l), l # "parked", crash = "none"
  PROVE  ParkedForRoom'
<1>1. \A c \in Callers : pc[c] = "parked" => c \in Parked
  BY DEF ParkedForRoom
<1>2. \A c \in Callers : pc'[c] # "parked"
  BY <1>1 DEF CloseDoneChan, Threads
<1> QED
  BY <1>2 DEF ParkedForRoom

LEMMA ParkedSend ==
  ASSUME IInv, IInv', ParkedForRoom, NEW c \in Callers, SendSelect(c)
  PROVE  ParkedForRoom'
<1>1. c \in Threads /\ pc[c] = "snd2" /\ crash = "none" /\ UNCHANGED <<dataClosed, doneClosed>>
  BY DEF Threads, SendSelect, At, flags
<1>2. CASE /\ HasRoom /\ buf' = Append(buf, Msg(c)) /\ Goto(c, "idle")
           /\ UNCHANGED <<sendq, crash>>
  <2>1. Len(buf) # Cap
    BY <1>2, SessionAssumption DEF HasRoom, IInv, TypeOK
  <2>2. \A u \in Callers : pc'[u] # "parked"
    BY <1>1, <1>2, <2>1 DEF ParkedForRoom, Goto, IInv, TypeOK, Threads
  <2> QED
    BY <2>2 DEF ParkedForRoom
<1>3. CASE crash' = "send on closed"
  BY <1>3 DEF ParkedForRoom
<1>4. CASE Goto(c, "idle") /\ UNCHANGED <<buf, sendq, crash>>
  BY <1>1, <1>4, ParkedGoto
<1>5. CASE /\ ~dataClosed /\ ~doneClosed /\ ~HasRoom /\ sendq' = Append(sendq, c)
           /\ Goto(c, "parked") /\ UNCHANGED <<buf, crash>>
  <2>1. Len(buf) = Cap
    BY <1>5, SessionAssumption DEF HasRoom, IInv, TypeOK
  <2>2. sendq \in Seq(Callers)
    BY DEF IInv, TypeOK
  <2>3. /\ DOMAIN sendq' = 1..(Len(sendq) + 1) /\ DOMAIN sendq = 1..Len(sendq)
        /\ \A i \in DOMAIN sendq : sendq'[i] = sendq[i]
        /\ sendq'[Len(sendq) + 1] = c /\ Len(sendq) \in Nat
    BY <1>5, <2>2
  <2>4. Parked \cup {c} \subseteq Parked'
    BY <2>3 DEF Parked
  <2>5. \A u \in Callers : pc'[u] = "parked" => u \in Parked'
    BY <1>1, <1>5, <2>4 DEF ParkedForRoom, Goto, IInv, TypeOK, Threads
  <2> QED
    BY <1>1, <1>5, <2>1, <2>5 DEF ParkedForRoom
<1> QED
  BY <1>2, <1>3, <1>4, <1>5 DEF SendSelect

(* The room that a receive makes goes to the sender that was parked first. *)
LEMMA ParkedRecv ==
  ASSUME IInv, ParkedForRoom, NEW r \in Routines, Recv(r)
  PROVE  ParkedForRoom'
<1>1. r \in Threads /\ buf # <<>> /\ crash = "none" /\ UNCHANGED <<dataClosed, doneClosed, crash>>
  BY DEF Threads, Recv, At, flags
<1>2. CASE sendq = <<>> /\ Goto(r, "idle")
  <2>1. \A u \in Callers : pc[u] # "parked"
    BY <1>1, <1>2 DEF ParkedForRoom, Parked
  <2>2. \A u \in Callers : pc'[u] # "parked"
    BY <1>1, <1>2, <2>1 DEF Goto, IInv, TypeOK, Threads
  <2> QED
    BY <2>2 DEF ParkedForRoom
<1>3. CASE /\ sendq # <<>> /\ buf' = Append(Tail(buf), Msg(Head(sendq))) /\ sendq' = Tail(sendq)
           /\ pc' = [pc EXCEPT ![r] = "idle", ![Head(sendq)] = "idle"]
  <2>1. /\ sendq \in Seq(Callers) /\ Len(sendq) \in Nat /\ Head(sendq) = sendq[1]
        /\ DOMAIN sendq = 1..Len(sendq)
        /\ DOMAIN sendq' = 1..(Len(sendq) - 1)
        /\ \A i \in DOMAIN sendq' : sendq'[i] = sendq[i + 1]
    BY <1>3 DEF IInv, TypeOK
  <2>2. Head(sendq) \in Callers
    BY <1>3, <2>1
  <2>3. Parked \subseteq Parked' \cup {Head(sendq)}
    <3> SUFFICES ASSUME NEW i \in DOMAIN sendq, i # 1 PROVE sendq[i] \in Parked'
      BY <2>1 DEF Parked
    <3>1. i - 1 \in DOMAIN sendq' /\ sendq'[i - 1] = sendq[i]
      BY <2>1
    <3> QED
      BY <3>1 DEF Parked
  <2>4. Len(buf') = Len(buf)
    <3>1. /\ Tail(buf) \in Seq(Callers \X Nat) /\ Len(Tail(buf)) = Len(buf) - 1
          /\ Len(buf) \in Nat
      BY <1>1, TailFacts DEF IInv, TypeOK
    <3>2. Msg(Head(sendq)) \in Callers \X Nat
      BY <2>2, MsgType DEF IInv
    <3> QED
      BY <1>3, <3>1, <3>2, AppendFacts
  <2>5. \A u \in Callers : pc'[u] = "parked" => pc[u] = "parked" /\ u # Head(sendq)
    BY <1>1, <1>3, <2>2 DEF IInv, TypeOK, Threads
  <2> QED
    BY <1>1, <2>3, <2>4, <2>5 DEF ParkedForRoom
<1> QED
  BY <1>2, <1>3 DEF Recv

LEMMA ParkedNext == IInv /\ IInv' /\ ParkedForRoom /\ [Next]_vars => ParkedForRoom'
<1> SUFFICES ASSUME IInv, IInv', ParkedForRoom, [Next]_vars PROVE ParkedForRoom'
  OBVIOUS
<1>1. Callers \subseteq Threads /\ Routines \subseteq Threads
  BY DEF Threads
<1>2. CASE UNCHANGED vars
  BY <1>2, ParkedQuiet DEF vars, flags, NobodyParks
<1>3. ASSUME NEW t \in Threads, CloseUnmap(t) PROVE ParkedForRoom'
  <2>1. Goto(t, "cls2") \/ Goto(t, "idle") \/ Goto(t, "exited")
    BY <1>3 DEF CloseUnmap, After
  <2> QED
    BY <1>3, <2>1, ParkedGoto DEF CloseUnmap, flags
<1>4. ASSUME NEW c \in Callers, SendLookup(c) \/ SendCheck(c) PROVE ParkedForRoom'
  <2>1. Goto(c, "snd1") \/ Goto(c, "snd2") \/ Goto(c, "idle")
    BY <1>4 DEF SendLookup, SendCheck
  <2> QED
    BY <1>1, <1>4, <2>1, ParkedGoto DEF SendLookup, SendCheck, flags
<1>5. ASSUME NEW c \in Callers, Lookup(c, "inp") \/ Lookup(c, "rdy") \/ SignalStreamReady(c)
      PROVE  ParkedForRoom'
  <2>1. Goto(c, "inp") \/ Goto(c, "rdy") \/ Goto(c, "idle")
    BY <1>5 DEF Lookup, SignalStreamReady
  <2> QED
    BY <1>1, <1>5, <2>1, ParkedGoto DEF Lookup, SignalStreamReady, flags
<1>6. ASSUME NEW c \in Callers, CloseStreamInput(c) PROVE ParkedForRoom'
  BY <1>1, <1>6, ParkedGoto, ParkedInput DEF CloseStreamInput
<1>7. ASSUME NEW r \in Routines, NEW l \in {"await", "recv", "recvsel", "data", "half"},
             Start(r, l) \/ SendFromStream(r, l)
      PROVE  ParkedForRoom'
  BY <1>1, <1>7, ParkedGoto DEF Start, SendFromStream, flags
<1>8. ASSUME NEW r \in Routines, WaitForReady(r) \/ RecvEnd(r) \/ GiveUp(r) PROVE ParkedForRoom'
  BY <1>1, <1>8, ParkedGoto DEF WaitForReady, RecvEnd, GiveUp, flags
<1>9. ASSUME NEW r \in Routines, SendHeader(r) PROVE ParkedForRoom'
  <2>1. Goto(r, "header") \/ Goto(r, "idle")
    BY <1>9 DEF SendHeader
  <2> QED
    BY <1>1, <1>9, <2>1, ParkedGoto DEF SendHeader, flags
<1>10. ASSUME NEW r \in Routines, SetHeader(r) \/ SetTrailer(r) PROVE ParkedForRoom'
  <2>1. UNCHANGED <<buf, sendq, dataClosed, doneClosed, pc>> /\ (crash' = "none" => crash = "none")
    BY <1>10 DEF SetHeader, SetTrailer, At, flags
  <2> QED
    BY <2>1, ParkedQuiet DEF NobodyParks
<1>11. ASSUME NEW r \in Routines, NEW l \in {"trailer", "end", "error"}, Finish(r, l)
       PROVE  ParkedForRoom'
  BY <1>1, <1>11, ParkedInput DEF Finish
<1>12. ASSUME NEW r \in Routines, NEW l, NEW n \in {"idle", "end", "done"}, Callback(r, l, n)
       PROVE  ParkedForRoom'
  BY <1>1, <1>12, ParkedGoto DEF Callback, flags
<1>13. ASSUME NEW r \in Routines, CloseDoneLast(r) PROVE ParkedForRoom'
  BY <1>1, <1>13, ParkedDone DEF CloseDoneLast, At
<1>14. ASSUME NEW t \in Threads, CloseDone(t) PROVE ParkedForRoom'
  <2>1. After(t) # "parked"
    BY DEF After
  <2>2. CASE closed
    BY <1>14, <2>1, <2>2, ParkedGoto DEF CloseDone
  <2>3. CASE ~closed
    BY <1>14, <2>3, ParkedDone DEF CloseDone, CloseFirst, At
  <2> QED
    BY <2>2, <2>3
<1>15. ASSUME NEW t \in Threads, CloseData(t) PROVE ParkedForRoom'
  <2>1. After(t) # "parked"
    BY DEF After
  <2> QED
    BY <1>15, <2>1, ParkedInput DEF CloseData
<1>16. ASSUME NEW t \in Threads, Continue(t) PROVE ParkedForRoom'
  BY <1>4, <1>5, <1>6, <1>8, <1>12, <1>13, <1>14, <1>15, <1>16, ParkedSend, ParkedRecv DEF Continue
<1>17. ASSUME NEW t \in Threads, Begin(t) PROVE ParkedForRoom'
  BY <1>3, <1>4, <1>5, <1>7, <1>8, <1>9, <1>10, <1>11, <1>17 DEF Begin, EndStream, ErrorStream
<1> QED
  BY <1>2, <1>16, <1>17 DEF Next

LEMMA ParkedInit == Init => ParkedForRoom
  BY DEF Init, ParkedForRoom, Threads

(* No wake-up of a sender is lost, for any number of senders: each event   *)
(* that ends its sleep, a receive or the closing of a channel, is still to *)
(* come (stream_handler.go:181-200).                                       *)
THEOREM NoLostWakeup == Spec => []ParkedForRoom
  BY IInvInit, IInvNext, ParkedInit, ParkedNext, PTL DEF Spec

---------------------------------------------------------------------------
(* Messages in order.  A message that is about to be put into DataChan     *)
(* follows one that is there; a caller that lost a message finds the       *)
(* session gone or closed at its next.                                     *)
Got(m) == \E i \in DOMAIN Accepted : Accepted[i] = m
Latest(c) == <<c, issued[c]>>
Preceding(c) == <<c, issued[c] - 1>>
Shut == inputClosed \/ doneClosed

Flow ==
  \A c \in Callers :
    /\ \A k : Got(<<c, k>>) => k <= issued[c]
    /\ pc[c] \in SendPC =>
         /\ issued[c] > 0 /\ ~Got(Latest(c))
         /\ issued[c] = 1 \/ Got(Preceding(c)) \/ (pc[c] = "snd1" /\ Shut)
    /\ pc[c] \notin SendPC => issued[c] = 0 \/ Got(Latest(c)) \/ ~inMap \/ Shut

OrderInv == NoGap /\ Flow

LEMMA ConcatAppend ==
  ASSUME NEW S, NEW r \in Seq(S), NEW b \in Seq(S), NEW m \in S
  PROVE  r \o Append(b, m) = Append(r \o b, m)
  OBVIOUS

LEMMA ConcatShift ==
  ASSUME NEW S, NEW r \in Seq(S), NEW b \in Seq(S), b # <<>>
  PROVE  Append(r, Head(b)) \o Tail(b) = r \o b
  OBVIOUS

LEMMA ConcatShiftAppend ==
  ASSUME NEW S, NEW r \in Seq(S), NEW b \in Seq(S), b # <<>>, NEW m \in S
  PROVE  Append(r, Head(b)) \o Append(Tail(b), m) = Append(r \o b, m)
<1>1. Tail(b) \in Seq(S) /\ Append(r, Head(b)) \in Seq(S)
  BY TailFacts, AppendFacts
<1> DEFINE q == Append(r, Head(b))  u == Tail(b)
<1>2. q \o Append(u, m) = Append(q \o u, m)
  <2>1. q \in Seq(S) /\ u \in Seq(S)
    BY <1>1
  <2> HIDE DEF q, u
  <2>2. QED
    BY <2>1, ConcatAppend
<1>3. QED
  BY <1>2, ConcatShift

(* Steps that accept nothing.                                              *)
LEMMA OrderKept ==
  ASSUME OrderInv, Accepted' = Accepted, UNCHANGED issued,
         Shut => Shut', inMap' => inMap,
         \A c \in Callers :
            \/ pc'[c] = pc[c]
            \/ pc[c] \notin SendPC /\ pc'[c] \notin SendPC
            \/ pc[c] \in SendPC /\ pc'[c] \notin SendPC /\ Shut'
            \/ pc[c] = "snd1" /\ ~Shut /\ pc'[c] \in SendPC
            \/ pc[c] = "snd2" /\ pc'[c] = "parked"
  PROVE  OrderInv'
<1>1. \A m : Got(m)' <=> Got(m)
  BY DEF Got
<1>2. NoGap'
  BY DEF OrderInv, NoGap
<1>3. ASSUME NEW c \in Callers
      PROVE  /\ \A k : Got(<<c, k>>)' => k <= issued'[c]
             /\ Latest(c)' = Latest(c) /\ Preceding(c)' = Preceding(c)
  BY <1>1 DEF OrderInv, Flow, Latest, Preceding
<1>4. ASSUME NEW c \in Callers, pc'[c] \in SendPC
      PROVE  /\ issued'[c] > 0 /\ ~Got(Latest(c))'
             /\ issued'[c] = 1 \/ Got(Preceding(c))' \/ (pc'[c] = "snd1" /\ Shut')
  <2>1. Got(Latest(c))' <=> Got(Latest(c))
    BY <1>3 DEF Got
  <2>2. Got(Preceding(c))' <=> Got(Preceding(c))
    BY <1>3 DEF Got
  <2>3. pc[c] \in SendPC
    BY <1>4 DEF SendPC
  <2>4. issued[c] > 0 /\ ~Got(Latest(c))
        /\ (issued[c] = 1 \/ Got(Preceding(c)) \/ (pc[c] = "snd1" /\ Shut))
    BY <2>3 DEF OrderInv, Flow
  <2>5. QED
    BY <1>4, <2>1, <2>2, <2>3, <2>4
<1>5. ASSUME NEW c \in Callers, pc'[c] \notin SendPC
      PROVE  issued'[c] = 0 \/ Got(Latest(c))' \/ ~inMap' \/ Shut'
  <2>1. Got(Latest(c))' <=> Got(Latest(c))
    BY <1>3 DEF Got
  <2>2. CASE pc[c] \notin SendPC
    BY <2>1, <2>2 DEF OrderInv, Flow
  <2>3. CASE pc[c] \in SendPC
    BY <1>5, <2>3 DEF SendPC
  <2>4. QED
    BY <2>2, <2>3
<1>6. QED
  BY <1>2, <1>3, <1>4, <1>5 DEF OrderInv, Flow

(* A step that accepts the message of caller c.                            *)
LEMMA OrderAccepts ==
  ASSUME TypeOK, OrderInv, NEW c \in Callers, pc[c] \in {"snd2", "parked"},
         Accepted' = Append(Accepted, Msg(c)), UNCHANGED <<issued, inMap, inputClosed, doneClosed>>,
         pc'[c] \notin SendPC,
         \A d \in Callers : d # c =>
            pc'[d] = pc[d] \/ (pc[d] \notin SendPC /\ pc'[d] \notin SendPC)
  PROVE  OrderInv'
<1>1. /\ Accepted \in Seq(Callers \X Nat) /\ Msg(c) \in Callers \X Nat
      /\ issued \in [Callers -> Nat] /\ Msg(c) = Latest(c)
  BY MsgType DEF TypeOK, Accepted, Msg, Latest
<1>2. /\ DOMAIN Accepted = 1..Len(Accepted) /\ DOMAIN Accepted' = 1..(Len(Accepted) + 1)
      /\ Len(Accepted) \in Nat
      /\ \A i \in DOMAIN Accepted : Accepted'[i] = Accepted[i]
      /\ Accepted'[Len(Accepted) + 1] = Latest(c)
  BY <1>1
<1>3. \A m : Got(m)' <=> Got(m) \/ m = Latest(c)
  BY <1>2 DEF Got
<1>4. issued[c] > 0 /\ ~Got(Latest(c)) /\ (issued[c] = 1 \/ Got(Preceding(c)))
  BY DEF OrderInv, Flow, SendPC
<1>5. NoGap'
  <2>1. NoGap
    BY DEF OrderInv
  <2>2. ASSUME NEW i \in DOMAIN Accepted
        PROVE  LET d == Accepted'[i][1] k == Accepted'[i][2] IN
                 /\ k = 1 \/ \E j \in 1..(i - 1) : Accepted'[j] = <<d, k - 1>>
                 /\ \A j \in 1..(i - 1) : Accepted'[j] # <<d, k>>
    <3>1. i \in 1..Len(Accepted) /\ \A j \in 1..(i - 1) : j \in DOMAIN Accepted
      BY <1>2
    <3>2. QED
      BY <1>2, <2>1, <3>1 DEF NoGap
  <2>3. LET n == Len(Accepted) + 1 IN
          /\ issued[c] = 1 \/ \E j \in 1..(n - 1) : Accepted'[j] = Preceding(c)
          /\ \A j \in 1..(n - 1) : Accepted'[j] # Latest(c)
    BY <1>2, <1>4 DEF Got
  <2>4. ASSUME NEW i, i = Len(Accepted) + 1
        PROVE  LET d == Accepted'[i][1] k == Accepted'[i][2] IN
                 /\ k = 1 \/ \E j \in 1..(i - 1) : Accepted'[j] = <<d, k - 1>>
                 /\ \A j \in 1..(i - 1) : Accepted'[j] # <<d, k>>
    BY <1>2, <2>3, <2>4 DEF Latest, Preceding
  <2>5. \A i \in DOMAIN Accepted' : i \in DOMAIN Accepted \/ i = Len(Accepted) + 1
    BY <1>2
  <2>6. QED
    BY <2>2, <2>4, <2>5 DEF NoGap
<1>6. ASSUME NEW d \in Callers
      PROVE  /\ \A k : Got(<<d, k>>)' => k <= issued'[d]
             /\ Latest(d)' = Latest(d) /\ Preceding(d)' = Preceding(d)
  <2>1. \A k : Got(<<d, k>>) => k <= issued[d]
    BY DEF OrderInv, Flow
  <2>2. \A k : <<d, k>> = Latest(c) => k = issued[d]
    BY DEF Latest
  <2>3. QED
    BY <1>1, <1>3, <2>1, <2>2 DEF Latest, Preceding
<1>7. ASSUME NEW d \in Callers
      PROVE  (Got(Latest(d))' <=> Got(Latest(d)) \/ d = c) /\ (Got(Preceding(d)) => Got(Preceding(d))')
  <2>1. Latest(d) = Latest(c) <=> d = c
    BY DEF Latest
  <2>2. Got(Latest(d))' <=> Got(Latest(d)) \/ Latest(d) = Latest(c)
    <3>1. \A m : m = Latest(d) => (Got(m)' <=> Got(Latest(d)) \/ m = Latest(c))
      BY <1>3
    <3>2. QED
      BY <1>6, <3>1 DEF Got
  <2>3. Got(Preceding(d)) => Got(Preceding(d))'
    <3>1. \A m : Got(m) /\ m = Preceding(d) => Got(m)'
      BY <1>3
    <3>2. QED
      BY <1>6, <3>1 DEF Got
  <2>4. QED
    BY <2>1, <2>2, <2>3
<1>8. ASSUME NEW d \in Callers, pc'[d] \in SendPC
      PROVE  /\ issued'[d] > 0 /\ ~Got(Latest(d))'
             /\ issued'[d] = 1 \/ Got(Preceding(d))' \/ (pc'[d] = "snd1" /\ Shut')
  BY <1>7, <1>8 DEF OrderInv, Flow, Shut
<1>9. ASSUME NEW d \in Callers, pc'[d] \notin SendPC
      PROVE  issued'[d] = 0 \/ Got(Latest(d))' \/ ~inMap' \/ Shut'
  BY <1>7, <1>9 DEF OrderInv, Flow, Shut
<1>10. QED
  BY <1>5, <1>6, <1>8, <1>9 DEF OrderInv, Flow

LEMMA GotoFlow ==
  ASSUME TypeOK, NEW t \in Threads, NEW l, Goto(t, l)
  PROVE  \A c \in Callers : pc'[c] = IF c = t THEN l ELSE pc[c]
  BY DEF TypeOK, Goto, Threads

(* The steps that neither send nor receive.                                *)
LEMMA CloseOrder ==
  ASSUME IInv, OrderInv, NEW t \in Threads,
         CloseUnmap(t) \/ CloseDone(t) \/ CloseData(t) \/ (t \in Routines /\ CloseDoneLast(t))
  PROVE  OrderInv'
<1> USE DEF Shut, SendPC, After, At
<1>0. TypeOK
  BY DEF IInv
<1>1. ASSUME NEW l, CloseDoneChan(t, l), l \notin SendPC, pc[t] \notin SendPC,
             UNCHANGED <<rcvd, buf, issued, inMap, inputClosed>>
      PROVE  OrderInv'
  <2>1. Accepted' = Accepted
    BY <1>1 DEF Accepted
  <2>2. \A u \in Parked : pc[u] = "parked"
    BY DEF Parked, IInv, SendQueue
  <2>3. doneClosed' /\ \A c \in Callers : \/ pc'[c] = pc[c]
                                          \/ pc[c] \notin SendPC /\ pc'[c] \notin SendPC
                                          \/ pc[c] = "parked" /\ pc'[c] = "idle"
    BY <1>1, <2>2 DEF CloseDoneChan, Threads
  <2>4. QED
    BY <1>1, <2>1, <2>3, OrderKept
<1>2. ASSUME NEW l, Goto(t, l), l \notin SendPC, pc[t] \notin SendPC,
             UNCHANGED <<rcvd, buf, issued>>, inMap' => inMap, Shut => Shut'
      PROVE  OrderInv'
  <2>1. Accepted' = Accepted
    BY <1>2 DEF Accepted
  <2>2. QED
    BY <1>0, <1>2, <2>1, GotoFlow, OrderKept
<1>3. CASE CloseUnmap(t)
  BY <1>2, <1>3 DEF CloseUnmap, flags
<1>4. CASE CloseDone(t)
  <2>1. CASE closed
    BY <1>2, <1>4, <2>1 DEF CloseDone
  <2>2. CASE ~closed
    BY <1>1, <1>4, <2>2 DEF CloseDone, CloseFirst
  <2>3. QED
    BY <2>1, <2>2
<1>5. CASE CloseData(t)
  <2>1. inputClosed => inputClosed'
    BY <1>5 DEF CloseData, EnsureInputClosed
  <2>2. QED
    BY <1>2, <1>5, <2>1 DEF CloseData
<1>6. CASE t \in Routines /\ CloseDoneLast(t)
  BY <1>1, <1>6 DEF CloseDoneLast
<1>7. QED
  BY <1>3, <1>4, <1>5, <1>6

LEMMA CallerOrder ==
  ASSUME IInv, OrderInv, NEW c \in Callers,
         \/ SendLookup(c) \/ SendCheck(c) \/ SendSelect(c) \/ CloseStreamInput(c)
         \/ SignalStreamReady(c) \/ Lookup(c, "inp") \/ Lookup(c, "rdy")
  PROVE  OrderInv'
<1> USE DEF SendPC, At
<1>0. TypeOK /\ c \in Threads
  BY DEF IInv, Threads
<1>1. ASSUME NEW l, Goto(c, l), l \notin SendPC, pc[c] \notin SendPC,
             UNCHANGED <<rcvd, buf, issued, inMap, doneClosed>>, inputClosed => inputClosed'
      PROVE  OrderInv'
  <2>1. Accepted' = Accepted
    BY <1>1 DEF Accepted
  <2>2. QED
    BY <1>0, <1>1, <2>1, GotoFlow, OrderKept DEF Shut
<1>2. CASE CloseStreamInput(c)
  BY <1>1, <1>2 DEF CloseStreamInput, EnsureInputClosed
<1>3. CASE SignalStreamReady(c) \/ Lookup(c, "inp") \/ Lookup(c, "rdy")
  BY <1>1, <1>3 DEF SignalStreamReady, Lookup, flags
<1>4. CASE SendCheck(c)
  <2>1. /\ UNCHANGED <<rcvd, buf, issued, inMap, inputClosed, doneClosed>> /\ pc[c] = "snd1"
        /\ mu = NoThread /\ pc'[c] = IF inputClosed THEN "idle" ELSE "snd2"
        /\ \A d \in Callers : d # c => pc'[d] = pc[d]
    BY <1>0, <1>4, GotoFlow DEF SendCheck, Lock, flags
  <2>2. Accepted' = Accepted /\ Shut' = Shut
    BY <2>1 DEF Accepted, Shut
  <2>3. ~inputClosed => ~Shut
    BY <2>1 DEF IInv, FlagsAgree, Shut
  <2>4. inputClosed => Shut
    BY DEF Shut
  <2>5. QED
    BY <2>1, <2>2, <2>3, <2>4, OrderKept
<1>5. CASE SendSelect(c)
  <2>1. /\ UNCHANGED <<rcvd, issued, inMap, inputClosed, doneClosed>> /\ pc[c] = "snd2"
        /\ Shut' = Shut
    BY <1>5 DEF SendSelect, flags, Shut
  <2>2. CASE buf' = Append(buf, Msg(c)) /\ Goto(c, "idle")
    <3>1. Accepted' = Append(Accepted, Msg(c))
      <4>1. rcvd \in Seq(Callers \X Nat) /\ buf \in Seq(Callers \X Nat)
        BY <1>0 DEF TypeOK
      <4>2. rcvd \o Append(buf, Msg(c)) = Append(rcvd \o buf, Msg(c))
        BY <1>0, <4>1, MsgType, ConcatAppend
      <4>3. QED
        BY <2>1, <2>2, <4>2 DEF Accepted
    <3>2. pc'[c] = "idle" /\ \A d \in Callers : d # c => pc'[d] = pc[d]
      BY <1>0, <2>2, GotoFlow
    <3>3. QED
      BY <1>0, <2>1, <3>1, <3>2, OrderAccepts
  <2>3. CASE buf' = buf /\ (UNCHANGED pc \/ (doneClosed /\ Goto(c, "idle")) \/ Goto(c, "parked"))
    <3>1. Accepted' = Accepted
      BY <2>1, <2>3 DEF Accepted
    <3>2. \A d \in Callers : pc'[d] = pc[d] \/ (d = c /\ (pc'[d] = "parked" \/ (pc'[d] = "idle" /\ Shut)))
      BY <1>0, <2>3, GotoFlow DEF Shut
    <3>3. QED
      BY <2>1, <3>1, <3>2, OrderKept
  <2>4. QED
    BY <1>5, <2>2, <2>3 DEF SendSelect
<1>6. CASE SendLookup(c)
  <2>1. /\ UNCHANGED <<rcvd, buf, inMap, inputClosed, doneClosed>> /\ pc[c] = "idle"
        /\ issued' = [issued EXCEPT ![c] = @ + 1] /\ issued \in [Callers -> Nat]
        /\ pc'[c] = IF inMap THEN "snd1" ELSE "idle"
        /\ \A d \in Callers : d # c => pc'[d] = pc[d]
    BY <1>0, <1>6, GotoFlow DEF SendLookup, flags, TypeOK
  <2>2. Accepted' = Accepted /\ Shut' = Shut /\ inMap' = inMap
    BY <2>1 DEF Accepted, Shut
  <2>3. \A m : Got(m)' <=> Got(m)
    BY <2>2 DEF Got
  <2>4. NoGap'
    BY <2>2 DEF OrderInv, NoGap
  <2>5. /\ issued'[c] = issued[c] + 1 /\ issued[c] \in Nat
        /\ \A d \in Callers : d # c => issued'[d] = issued[d]
    BY <2>1
  <2>6. ASSUME NEW d \in Callers, d # c
        PROVE  /\ \A k : Got(<<d, k>>)' => k <= issued'[d]
               /\ pc'[d] \in SendPC =>
                    /\ issued'[d] > 0 /\ ~Got(Latest(d))'
                    /\ issued'[d] = 1 \/ Got(Preceding(d))' \/ (pc'[d] = "snd1" /\ Shut')
               /\ pc'[d] \notin SendPC => issued'[d] = 0 \/ Got(Latest(d))' \/ ~inMap' \/ Shut'
    <3>1. Latest(d)' = Latest(d) /\ Preceding(d)' = Preceding(d) /\ issued'[d] = issued[d] /\ pc'[d] = pc[d]
      BY <2>1, <2>5, <2>6 DEF Latest, Preceding
    <3>2. (Got(Latest(d))' <=> Got(Latest(d))) /\ (Got(Preceding(d))' <=> Got(Preceding(d)))
      BY <2>2, <3>1 DEF Got
    <3>3. QED
      BY <2>2, <2>3, <3>1, <3>2 DEF OrderInv, Flow
  <2>7. /\ \A k : Got(<<c, k>>)' => k <= issued'[c]
        /\ issued'[c] > 0 /\ ~Got(Latest(c))'
    <3>1. \A k : Got(<<c, k>>) => k <= issued[c]
      BY DEF OrderInv, Flow
    <3>2. \A k : Got(<<c, k>>) => k # issued[c] + 1
      BY <2>5, <3>1
    <3>3. Latest(c)' = <<c, issued[c] + 1>>
      BY <2>5 DEF Latest
    <3>4. ~Got(<<c, issued[c] + 1>>)
      BY <3>2
    <3>5. ~Got(Latest(c))'
      BY <2>2, <3>3, <3>4 DEF Got
    <3>6. ASSUME NEW k, Got(<<c, k>>)' PROVE k <= issued'[c]
      <4>1. \E i \in DOMAIN Accepted : Accepted[i] = <<c, k>>
        BY <2>2, <3>6 DEF Got
      <4>2. k \in Nat /\ k <= issued[c]
        <5>1. Accepted \in Seq(Callers \X Nat)
          BY <1>0 DEF TypeOK, Accepted
        <5>2. QED
          BY <3>1, <4>1, <5>1 DEF Got
      <4>3. QED
        BY <2>5, <4>2
    <3>7. QED
      BY <2>5, <3>5, <3>6
  <2>8. inMap => issued'[c] = 1 \/ Got(Preceding(c))' \/ Shut'
    <3>1. inMap => issued[c] = 0 \/ Got(Latest(c)) \/ Shut
      BY <2>1 DEF OrderInv, Flow
    <3>2. Preceding(c)' = Latest(c)
      BY <2>5 DEF Preceding, Latest
    <3>3. Got(Preceding(c))' <=> Got(Latest(c))
      BY <2>2, <3>2 DEF Got
    <3>4. QED
      BY <2>2, <2>5, <3>1, <3>3
  <2>9. QED
    BY <2>1, <2>2, <2>4, <2>6, <2>7, <2>8 DEF OrderInv, Flow
<1>7. QED
  BY <1>2, <1>3, <1>4, <1>5, <1>6

LEMMA RecvOrder ==
  ASSUME IInv, OrderInv, NEW r \in Routines, Recv(r)
  PROVE  OrderInv'
<1> USE DEF SendPC, At
<1>0. TypeOK /\ r \in Threads /\ Callers \subseteq Threads /\ buf \in Seq(Callers \X Nat)
      /\ rcvd \in Seq(Callers \X Nat) /\ buf # <<>> /\ pc \in [Threads -> CallerPC \cup RoutinePC]
      /\ pc[r] \in {"recv", "recvsel"}
  BY DEF IInv, TypeOK, Threads, Recv
<1>1. UNCHANGED <<issued, inMap, inputClosed, doneClosed>> /\ rcvd' = Append(rcvd, Head(buf))
  BY DEF Recv, flags
<1>2. CASE sendq = <<>>
  <2>1. buf' = Tail(buf) /\ Goto(r, "idle")
    BY <1>2 DEF Recv
  <2>2. Accepted' = Accepted
    BY <1>0, <1>1, <2>1, ConcatShift DEF Accepted
  <2>3. \A c \in Callers : pc'[c] = pc[c] \/ (pc[c] \notin SendPC /\ pc'[c] \notin SendPC)
    BY <1>0, <2>1, GotoFlow
  <2>4. QED
    BY <1>1, <2>2, <2>3, OrderKept DEF Shut
<1>3. CASE sendq # <<>>
  <2>1. /\ buf' = Append(Tail(buf), Msg(Head(sendq)))
        /\ pc' = [pc EXCEPT ![r] = "idle", ![Head(sendq)] = "idle"]
    BY <1>3 DEF Recv
  <2>2. Head(sendq) \in Callers /\ pc[Head(sendq)] = "parked"
    <3>1. sendq \in Seq(Callers) /\ Head(sendq) = sendq[1] /\ 1 \in DOMAIN sendq
      BY <1>0, <1>3, TailFacts DEF TypeOK
    <3>2. QED
      BY <1>3, <3>1 DEF IInv, SendQueue
  <2>3. Accepted' = Append(Accepted, Msg(Head(sendq)))
    <3>1. Msg(Head(sendq)) \in Callers \X Nat
      BY <1>0, <2>2, MsgType
    <3>2. Append(rcvd, Head(buf)) \o Append(Tail(buf), Msg(Head(sendq)))
            = Append(rcvd \o buf, Msg(Head(sendq)))
      <4> DEFINE m == Msg(Head(sendq))  S == Callers \X Nat
      <4>1. m \in S /\ rcvd \in Seq(S) /\ buf \in Seq(S) /\ buf # <<>>
        BY <1>0, <3>1
      <4> HIDE DEF m, S
      <4>2. Append(rcvd, Head(buf)) \o Append(Tail(buf), m) = Append(rcvd \o buf, m)
        BY <4>1, ConcatShiftAppend
      <4>3. QED
        BY <4>2 DEF m
    <3>3. QED
      BY <1>1, <2>1, <3>2 DEF Accepted
  <2>4. /\ pc'[Head(sendq)] = "idle"
        /\ \A d \in Callers : d # Head(sendq) =>
             pc'[d] = pc[d] \/ (pc[d] \notin SendPC /\ pc'[d] \notin SendPC)
    BY <1>0, <2>1, <2>2
  <2>5. QED
    BY <1>0, <1>1, <2>2, <2>3, <2>4, OrderAccepts
<1>4. QED
  BY <1>2, <1>3

LEMMA RoutineOrder ==
  ASSUME IInv, OrderInv, NEW r \in Routines,
         \/ \E l \in {"await", "recv", "recvsel"} : Start(r, l)
         \/ \E l \in {"data", "half"} : SendFromStream(r, l)
         \/ WaitForReady(r) \/ RecvEnd(r) \/ GiveUp(r)
         \/ SendHeader(r) \/ SetHeader(r) \/ SetTrailer(r) \/ EndStream(r) \/ ErrorStream(r)
         \/ \E l \in MsgKind, n \in {"idle", "end", "done"} : Callback(r, l, n)
  PROVE  OrderInv'
<1> USE DEF SendPC, At
<1>0. TypeOK /\ r \in Threads
  BY DEF IInv, Threads
<1>1. ASSUME NEW l, Goto(r, l), l \notin SendPC, pc[r] \notin SendPC,
             UNCHANGED <<rcvd, buf, issued, inMap, doneClosed>>, inputClosed => inputClosed'
      PROVE  OrderInv'
  <2>1. Accepted' = Accepted
    BY <1>1 DEF Accepted
  <2>2. QED
    BY <1>0, <1>1, <2>1, GotoFlow, OrderKept DEF Shut
<1>2. ASSUME NEW l \in {"await", "recv", "recvsel"}, Start(r, l) PROVE OrderInv'
  BY <1>1, <1>2 DEF Start, flags
<1>3. ASSUME NEW l \in {"data", "half"}, SendFromStream(r, l) PROVE OrderInv'
  BY <1>1, <1>3 DEF SendFromStream, flags
<1>4. CASE WaitForReady(r) \/ RecvEnd(r) \/ GiveUp(r)
  BY <1>1, <1>4 DEF WaitForReady, RecvEnd, GiveUp, flags
<1>5. CASE SendHeader(r)
  BY <1>1, <1>5 DEF SendHeader, flags
<1>6. CASE SetHeader(r) \/ SetTrailer(r)
  <2>1. UNCHANGED <<pc, rcvd, buf, issued, inMap, inputClosed, doneClosed>>
    BY <1>6 DEF SetHeader, SetTrailer, flags
  <2>2. QED
    BY <2>1, OrderKept DEF Accepted, Shut
<1>7. CASE EndStream(r) \/ ErrorStream(r)
  <2>1. PICK l \in {"trailer", "end", "error"} : Finish(r, l)
    BY <1>7 DEF EndStream, ErrorStream
  <2>2. QED
    BY <1>1, <2>1 DEF Finish, EnsureInputClosed
<1>8. ASSUME NEW l \in MsgKind, NEW n \in {"idle", "end", "done"}, Callback(r, l, n) PROVE OrderInv'
  BY <1>1, <1>8 DEF Callback, flags, MsgKind
<1>9. QED
  BY <1>2, <1>3, <1>4, <1>5, <1>6, <1>7, <1>8

LEMMA OrderInit == Init => OrderInv
<1> SUFFICES ASSUME Init PROVE OrderInv
  OBVIOUS
<1>1. rcvd = <<>> /\ buf = <<>> /\ issued = [c \in Callers |-> 0]
      /\ pc = [t \in Threads |-> "idle"]
  BY DEF Init
<1>2. Accepted = <<>> /\ DOMAIN Accepted = {}
  BY <1>1 DEF Accepted
<1>3. NoGap /\ \A m : ~Got(m)
  BY <1>2 DEF NoGap, Got
<1>4. \A c \in Callers : pc[c] \notin SendPC /\ issued[c] = 0
  BY <1>1 DEF Threads, SendPC
<1>5. QED
  BY <1>3, <1>4 DEF OrderInv, Flow

LEMMA OrderNext == IInv /\ OrderInv /\ [Next]_vars => OrderInv'
<1> SUFFICES ASSUME IInv, OrderInv, [Next]_vars PROVE OrderInv'
  OBVIOUS
<1>1. CASE UNCHANGED vars
  BY <1>1, OrderKept DEF vars, flags, Accepted, Shut
<1>2. ASSUME NEW t \in Threads, Continue(t) PROVE OrderInv'
  <2>1. CASE CloseDone(t) \/ CloseData(t)
    BY <2>1, CloseOrder
  <2>2. CASE t \in Callers /\ (SendCheck(t) \/ SendSelect(t) \/ CloseStreamInput(t)
                               \/ SignalStreamReady(t))
    BY <2>2, CallerOrder
  <2>3. CASE t \in Routines /\ Recv(t)
    BY <2>3, RecvOrder
  <2>4. CASE t \in Routines /\ CloseDoneLast(t)
    BY <2>4, CloseOrder
  <2>5. CASE t \in Routines /\ (WaitForReady(t) \/ RecvEnd(t))
    BY <2>5, RoutineOrder
  <2>6. ASSUME t \in Routines, NEW l \in MsgKind, NEW n \in {"idle", "end", "done"},
               Callback(t, l, n)
        PROVE  OrderInv'
    BY <2>6, RoutineOrder
  <2>7. QED
    BY <1>2, <2>1, <2>2, <2>3, <2>4, <2>5, <2>6 DEF Continue, MsgKind
<1>3. ASSUME NEW t \in Threads, Begin(t) PROVE OrderInv'
  <2>1. CASE CloseUnmap(t)
    BY <2>1, CloseOrder
  <2>2. CASE t \in Callers /\ (SendLookup(t) \/ Lookup(t, "inp") \/ Lookup(t, "rdy"))
    BY <2>2, CallerOrder
  <2>3. CASE t \in Routines /\ (\/ \E l \in {"await", "recv", "recvsel"} : Start(t, l)
                                \/ \E l \in {"data", "half"} : SendFromStream(t, l)
                                \/ GiveUp(t) \/ SendHeader(t) \/ SetHeader(t) \/ SetTrailer(t)
                                \/ EndStream(t) \/ ErrorStream(t))
    BY <2>3, RoutineOrder
  <2>4. QED
    BY <1>3, <2>1, <2>2, <2>3 DEF Begin
<1>4. QED
  BY <1>1, <1>2, <1>3 DEF Next

(* The Go side receives every caller's messages in the order of its calls, *)
(* without a gap and none twice, whoever closes what in between            *)
(* (stream_handler.go:181-200).                                            *)
THEOREM MessagesInOrder == Spec => []NoGap
<1>1. Spec => [](IInv /\ OrderInv)
  BY IInvInit, IInvNext, OrderInit, OrderNext, PTL DEF Spec
<1>2. OrderInv => NoGap
  BY DEF OrderInv
<1>3. QED
  BY <1>1, <1>2, PTL

============================================================================
