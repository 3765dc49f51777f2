------------------------- MODULE StreamOutputProofs -------------------------
(***************************************************************************)
(* Proofs about what StreamSession sends to Dart, for any number of        *)
(* callers and goroutines: headers and the end of the stream go out at     *)
(* most once, and DoneChan is closed after the end.  And about Handlers:   *)
(* a handler uses its session as StreamSession allows, so what holds of    *)
(* every session holds of its one; Dart is told of the end unless it       *)
(* cancelled the stream, and an end without an error means that all the    *)
(* data was sent.                                                          *)
(***************************************************************************)
EXTENDS Handlers, StreamSessionProofs

Has(k) == \E i \in DOMAIN out : out[i] = k
Ended  == Has("end") \/ Has("error")

(* What has been sent, by where the threads are.  The one thread that      *)
(* closed the session by EndStream or ErrorStream (OneEnding) is the only  *)
(* one to send trailers and the end, in this order.                        *)
EndOut ==
  /\ ~closed => ~Ended /\ ~Has("trailer")
  /\ \A t \in Threads : pc[t] \in {"trailer", "end", "error"} => ~Ended
  /\ \A t \in Threads : pc[t] \in {"trailer", "error"} => ~Has("trailer")
  /\ \A t \in Threads : pc[t] = "done" => Ended

HeaderOut ==
  /\ ~headersSent => ~Has("header")
  /\ \A t \in Threads : pc[t] = "header" => headersSent /\ ~Has("header")
  /\ \A t, u \in Threads : pc[t] = "header" /\ pc[u] = "header" => t = u

(* DoneChan is closed by CloseStreamSession, which has removed the session *)
(* before, or at the end of EndStream and ErrorStream.                     *)
DoneOut ==
  /\ \A t \in Threads : pc[t] \in ClosePC => ~inMap
  /\ doneClosed /\ inMap => Ended

OutInv == EndOut /\ HeaderOut /\ DoneOut /\ OneTerminal /\ HeadersOnce

USE SessionAssumption

---------------------------------------------------------------------------
LEMMA OutInvInit == Init => OutInv
<1> SUFFICES ASSUME Init PROVE OutInv
  OBVIOUS
<1>1. DOMAIN out = {}
  BY DEF Init
<1>2. ~Ended /\ ~Has("trailer") /\ ~Has("header")
  BY <1>1 DEF Ended, Has
<1>3. \A t \in Threads : pc[t] = "idle"
  BY DEF Init
<1>4. ~closed /\ ~doneClosed
  BY DEF Init
<1>5. QED
  BY <1>1, <1>2, <1>3, <1>4
  DEF OutInv, EndOut, HeaderOut, DoneOut, OneTerminal, HeadersOnce, ClosePC

(* A step that sends nothing and starts no end, no header.                 *)
Watched == EndPC \cup ClosePC \cup {"header"}
Quiet ==
  /\ out' = out
  /\ closed => closed'
  /\ headersSent' = headersSent
  /\ inMap' => inMap
  /\ doneClosed' /\ inMap' => doneClosed \/ \E t \in Threads : pc[t] = "done"
  /\ \A t \in Threads : \/ pc'[t] = pc[t]
                        \/ pc'[t] \notin Watched
                        \/ pc'[t] \in ClosePC /\ ~inMap'

LEMMA QuietOut == OutInv /\ Quiet => OutInv'
<1> SUFFICES ASSUME OutInv, Quiet PROVE OutInv'
  OBVIOUS
<1> USE DEF OutInv, Quiet, Watched, EndPC, ClosePC
<1>1. Has("end")' = Has("end") /\ Has("error")' = Has("error")
      /\ Has("trailer")' = Has("trailer") /\ Has("header")' = Has("header")
  BY DEF Has
<1>2. Ended' = Ended
  BY <1>1 DEF Ended
<1>3. EndOut'
  BY <1>1, <1>2 DEF EndOut
<1>4. HeaderOut'
  BY <1>1 DEF HeaderOut
<1>5. DoneOut'
  BY <1>2 DEF DoneOut, EndOut
<1>6. OneTerminal' /\ HeadersOnce'
  BY DEF OneTerminal, HeadersOnce
<1>7. QED
  BY <1>3, <1>4, <1>5, <1>6

LEMMA FinishOut ==
  ASSUME TypeOK, OutInv, NEW r \in Routines, NEW l \in {"trailer", "end", "error"}, Finish(r, l)
  PROVE  OutInv'
<1> USE DEF OutInv, Finish, NotFinished, Goto, Threads, TypeOK
<1>1. Has("end")' = Has("end") /\ Has("error")' = Has("error")
      /\ Has("trailer")' = Has("trailer") /\ Has("header")' = Has("header")
  BY DEF Has
<1>2. ~Ended' /\ ~Has("trailer")' /\ Ended' = Ended
  BY <1>1 DEF Ended, EndOut
<1>3. EndOut'
  BY <1>2 DEF EndOut
<1>4. HeaderOut'
  BY <1>1 DEF HeaderOut, meta
<1>5. DoneOut'
  BY <1>2 DEF DoneOut, ClosePC
<1>6. OneTerminal' /\ HeadersOnce'
  BY DEF OneTerminal, HeadersOnce
<1>7. QED
  BY <1>3, <1>4, <1>5, <1>6

LEMMA HeaderStep ==
  ASSUME TypeOK, OutInv, NEW r \in Routines, SendHeader(r)
  PROVE  OutInv'
<1> USE DEF OutInv, SendHeader, HeadersDue, Goto, Threads, TypeOK, At
<1>1. Has("end")' = Has("end") /\ Has("error")' = Has("error")
      /\ Has("trailer")' = Has("trailer") /\ Has("header")' = Has("header")
  BY DEF Has
<1>2. Ended' = Ended /\ ~Has("header")'
  BY <1>1 DEF Ended, HeaderOut
<1>3. EndOut'
  BY <1>1, <1>2 DEF EndOut, flags
<1>4. HeaderOut'
  BY <1>2 DEF HeaderOut
<1>5. DoneOut'
  BY <1>2 DEF DoneOut, ClosePC, flags
<1>6. OneTerminal' /\ HeadersOnce'
  BY DEF OneTerminal, HeadersOnce
<1>7. QED
  BY <1>3, <1>4, <1>5, <1>6

LEMMA AppendOut ==
  ASSUME TypeOK, NEW l \in MsgKind, out' = Append(out, l)
  PROVE  /\ \A k : Has(k)' <=> Has(k) \/ k = l
         /\ DOMAIN out = 1..Len(out) /\ DOMAIN out' = 1..(Len(out) + 1) /\ Len(out) \in Nat
         /\ \A i \in DOMAIN out : out'[i] = out[i]
         /\ out'[Len(out) + 1] = l
<1>1. out \in Seq(MsgKind)
  BY DEF TypeOK
<1>2. /\ DOMAIN out = 1..Len(out) /\ DOMAIN out' = 1..(Len(out) + 1) /\ Len(out) \in Nat
      /\ \A i \in DOMAIN out : out'[i] = out[i]
      /\ out'[Len(out) + 1] = l
  BY <1>1
<1>3. \A k : Has(k)' <=> Has(k) \/ k = l
  BY <1>2 DEF Has
<1>4. QED
  BY <1>2, <1>3

LEMMA CallbackOut ==
  ASSUME IInv, OutInv, NEW r \in Routines, NEW l, NEW n, Callback(r, l, n),
         \/ l \in {"data", "half", "header"} /\ n = "idle"
         \/ l = "trailer" /\ n = "end"
         \/ l \in {"end", "error"} /\ n = "done"
  PROVE  OutInv'
<1> USE DEF OutInv
<1>1. /\ TypeOK /\ r \in Threads /\ pc[r] = l
      /\ pc' = [pc EXCEPT ![r] = n] /\ pc \in [Threads -> CallerPC \cup RoutinePC]
      /\ out' = Append(out, l) /\ l \in MsgKind
      /\ closed' = closed /\ headersSent' = headersSent /\ inMap' = inMap
      /\ doneClosed' = doneClosed
  BY DEF IInv, TypeOK, Callback, At, Goto, Threads, MsgKind, flags, meta
<1>2. \A k : Has(k)' <=> Has(k) \/ k = l
  BY <1>1, AppendOut
<1>3. /\ DOMAIN out = 1..Len(out) /\ DOMAIN out' = 1..(Len(out) + 1) /\ Len(out) \in Nat
      /\ \A i \in DOMAIN out : out'[i] = out[i]
      /\ out'[Len(out) + 1] = l
  BY <1>1, AppendOut
<1>4. l \in {"trailer", "end", "error"} =>
        closed /\ ~Ended /\ \A t \in Threads : pc[t] \in EndPC => t = r
  BY <1>1 DEF IInv, OneEnding, Ending, EndPC, EndOut
<1>5. EndOut'
  <2>1. CASE l \in {"data", "half", "header"}
    BY <1>1, <1>2, <2>1 DEF EndOut, Ended
  <2>2. CASE l = "trailer"
    BY <1>1, <1>2, <1>4, <2>2 DEF EndOut, Ended, EndPC
  <2>3. CASE l \in {"end", "error"}
    BY <1>1, <1>2, <1>4, <2>3 DEF EndOut, Ended, EndPC
  <2>4. QED
    BY <2>1, <2>2, <2>3
<1>6. HeaderOut'
  BY <1>1, <1>2 DEF HeaderOut
<1>7. DoneOut'
  BY <1>1, <1>2 DEF DoneOut, Ended, ClosePC
<1>8. OneTerminal'
  <2>1. CASE l \notin {"trailer", "end", "error"}
    BY <1>3, <2>1 DEF OneTerminal, Terminal
  <2>2. CASE l = "trailer"
    <3>1. \A i \in DOMAIN out : out[i] \notin Terminal
      BY <1>4, <2>2 DEF Ended, Has, Terminal
    <3>2. QED
      BY <1>3, <2>2, <3>1 DEF OneTerminal, Terminal
  <2>3. CASE l = "end"
    <3>1. \A i \in DOMAIN out : out[i] \notin Terminal
      BY <1>4, <2>3 DEF Ended, Has, Terminal
    <3>2. QED
      BY <1>3, <2>3, <3>1 DEF OneTerminal, Terminal
  <2>4. CASE l = "error"
    <3>1. \A i \in DOMAIN out : out[i] \notin Terminal /\ out[i] # "trailer"
      BY <1>1, <1>4, <2>4 DEF Ended, Has, Terminal, EndOut
    <3>2. QED
      BY <1>3, <2>4, <3>1 DEF OneTerminal, Terminal
  <2>5. QED
    BY <2>1, <2>2, <2>3, <2>4
<1>9. HeadersOnce'
  <2>1. l = "header" => \A i \in DOMAIN out : out[i] # "header"
    BY <1>1 DEF HeaderOut, Has
  <2>2. QED
    BY <1>3, <2>1 DEF HeadersOnce
<1>10. QED
  BY <1>5, <1>6, <1>7, <1>8, <1>9

---------------------------------------------------------------------------
(* Every other step is quiet.                                              *)
LEMMA GotoQuiet ==
  ASSUME TypeOK, NEW t \in Threads, NEW l, Goto(t, l),
         l \notin Watched \/ (l \in ClosePC /\ ~inMap')
  PROVE  \A u \in Threads : \/ pc'[u] = pc[u] \/ pc'[u] \notin Watched
                            \/ pc'[u] \in ClosePC /\ ~inMap'
  BY DEF TypeOK, Goto

LEMMA DoneChanQuiet ==
  ASSUME TypeOK, NEW t \in Threads, NEW l, CloseDoneChan(t, l),
         l \notin Watched \/ (l \in ClosePC /\ ~inMap')
  PROVE  \A u \in Threads : \/ pc'[u] = pc[u] \/ pc'[u] \notin Watched
                            \/ pc'[u] \in ClosePC /\ ~inMap'
  BY DEF TypeOK, CloseDoneChan, Watched, EndPC, ClosePC

LEMMA CloseQuiet ==
  ASSUME TypeOK, OutInv, NEW t \in Threads, CloseUnmap(t) \/ CloseDone(t) \/ CloseData(t)
  PROVE  Quiet
<1> USE DEF Watched, EndPC, ClosePC, After
<1>1. CASE CloseUnmap(t)
  BY <1>1, GotoQuiet DEF CloseUnmap, Quiet, flags, meta
<1>2. CASE CloseDone(t)
  <2>1. ~inMap /\ ~inMap'
    BY <1>2 DEF CloseDone, At, OutInv, DoneOut
  <2>2. closed => closed'
    BY <1>2 DEF CloseDone
  <2>3. \A u \in Threads : \/ pc'[u] = pc[u] \/ pc'[u] \notin Watched
                           \/ pc'[u] \in ClosePC /\ ~inMap'
    BY <1>2, <2>1, GotoQuiet, DoneChanQuiet DEF CloseDone, CloseFirst
  <2>4. QED
    BY <1>2, <2>1, <2>2, <2>3 DEF CloseDone, Quiet, meta
<1>3. CASE CloseData(t)
  BY <1>3, GotoQuiet DEF CloseData, Quiet, meta
<1>4. QED
  BY <1>1, <1>2, <1>3

LEMMA DoneLastQuiet ==
  ASSUME TypeOK, NEW r \in Routines, CloseDoneLast(r)
  PROVE  Quiet
<1>1. r \in Threads /\ pc[r] = "done"
  BY DEF CloseDoneLast, At, Threads
<1>2. \A u \in Threads : \/ pc'[u] = pc[u] \/ pc'[u] \notin Watched
                         \/ pc'[u] \in ClosePC /\ ~inMap'
  BY <1>1, DoneChanQuiet DEF CloseDoneLast, Watched, EndPC, ClosePC
<1>3. QED
  BY <1>1, <1>2 DEF CloseDoneLast, Quiet, meta

LEMMA CallerQuiet ==
  ASSUME TypeOK, NEW c \in Callers,
         \/ SendLookup(c) \/ SendCheck(c) \/ SendSelect(c) \/ CloseStreamInput(c)
         \/ SignalStreamReady(c) \/ Lookup(c, "inp") \/ Lookup(c, "rdy")
  PROVE  Quiet
<1> USE DEF Watched, EndPC, ClosePC, Quiet, flags, meta
<1>1. c \in Threads
  BY DEF Threads
<1>2. CASE SendLookup(c)
  BY <1>1, <1>2, GotoQuiet DEF SendLookup
<1>3. CASE SendCheck(c)
  BY <1>1, <1>3, GotoQuiet DEF SendCheck
<1>4. CASE SendSelect(c)
  <2>1. \A u \in Threads : \/ pc'[u] = pc[u] \/ pc'[u] \notin Watched
                           \/ pc'[u] \in ClosePC /\ ~inMap'
    BY <1>1, <1>4, GotoQuiet DEF SendSelect
  <2>2. QED
    BY <1>4, <2>1 DEF SendSelect
<1>5. CASE CloseStreamInput(c)
  BY <1>1, <1>5, GotoQuiet DEF CloseStreamInput
<1>6. CASE SignalStreamReady(c)
  BY <1>1, <1>6, GotoQuiet DEF SignalStreamReady
<1>7. CASE Lookup(c, "inp") \/ Lookup(c, "rdy")
  BY <1>1, <1>7, GotoQuiet DEF Lookup
<1>8. QED
  BY <1>2, <1>3, <1>4, <1>5, <1>6, <1>7

LEMMA RoutineQuiet ==
  ASSUME IInv, NEW r \in Routines,
         \/ \E l \in {"await", "recv", "recvsel"} : Start(r, l)
         \/ \E l \in {"data", "half"} : SendFromStream(r, l)
         \/ WaitForReady(r) \/ Recv(r) \/ RecvEnd(r) \/ GiveUp(r) \/ SetHeader(r) \/ SetTrailer(r)
  PROVE  Quiet
<1> USE DEF Watched, EndPC, ClosePC, Quiet, flags, meta
<1>1. r \in Threads /\ TypeOK
  BY DEF Threads, IInv
<1>2. ASSUME NEW l \in {"await", "recv", "recvsel"}, Start(r, l) PROVE Quiet
  BY <1>1, <1>2, GotoQuiet DEF Start
<1>3. ASSUME NEW l \in {"data", "half"}, SendFromStream(r, l) PROVE Quiet
  BY <1>1, <1>3, GotoQuiet DEF SendFromStream
<1>4. CASE WaitForReady(r)
  BY <1>1, <1>4, GotoQuiet DEF WaitForReady
<1>5. CASE RecvEnd(r) \/ GiveUp(r)
  BY <1>1, <1>5, GotoQuiet DEF RecvEnd, GiveUp
<1>6. CASE Recv(r)
  <2>1. \A u \in Threads : pc'[u] = pc[u] \/ pc'[u] = "idle"
    BY <1>1, <1>6 DEF Recv, TypeOK, Goto
  <2>2. QED
    BY <1>6, <2>1 DEF Recv
<1>7. CASE SetHeader(r) \/ SetTrailer(r)
  BY <1>7 DEF SetHeader, SetTrailer
<1>8. QED
  BY <1>2, <1>3, <1>4, <1>5, <1>6, <1>7

LEMMA OutInvNext == IInv /\ OutInv /\ [Next]_vars => OutInv'
<1> SUFFICES ASSUME IInv, OutInv, [Next]_vars PROVE OutInv'
  OBVIOUS
<1>1. TypeOK
  BY DEF IInv
<1>2. CASE UNCHANGED vars
  BY <1>2, QuietOut DEF vars, Quiet, flags, meta
<1>3. ASSUME NEW t \in Threads, Continue(t) PROVE OutInv'
  <2>1. CASE CloseDone(t) \/ CloseData(t)
    BY <1>1, <2>1, CloseQuiet, QuietOut
  <2>2. CASE t \in Callers
    BY <1>1, <1>3, <2>1, <2>2, CallerQuiet, QuietOut DEF Continue, Threads
  <2>3. CASE t \in Routines
    <3>1. ASSUME NEW l, NEW n, Callback(t, l, n),
                 \/ l \in {"data", "half", "header"} /\ n = "idle"
                 \/ l = "trailer" /\ n = "end"
                 \/ l \in {"end", "error"} /\ n = "done"
          PROVE  OutInv'
      BY <2>3, <3>1, CallbackOut
    <3>2. CASE WaitForReady(t) \/ Recv(t) \/ RecvEnd(t)
      BY <2>3, <3>2, RoutineQuiet, QuietOut
    <3>3. CASE CloseDoneLast(t)
      BY <1>1, <2>3, <3>3, DoneLastQuiet, QuietOut
    <3>4. QED
      BY <1>3, <2>1, <2>3, <3>1, <3>2, <3>3 DEF Continue
  <2>4. QED
    BY <2>2, <2>3 DEF Threads
<1>4. ASSUME NEW t \in Threads, Begin(t) PROVE OutInv'
  <2>1. CASE CloseUnmap(t)
    BY <1>1, <2>1, CloseQuiet, QuietOut
  <2>2. CASE t \in Callers /\ (SendLookup(t) \/ Lookup(t, "inp") \/ Lookup(t, "rdy"))
    BY <1>1, <2>2, CallerQuiet, QuietOut
  <2>3. CASE t \in Routines /\ (EndStream(t) \/ ErrorStream(t))
    BY <1>1, <2>3, FinishOut DEF EndStream, ErrorStream
  <2>4. CASE t \in Routines /\ SendHeader(t)
    BY <1>1, <2>4, HeaderStep
  <2>5. CASE /\ t \in Routines
             /\ \/ \E l \in {"await", "recv", "recvsel"} : Start(t, l)
                \/ \E l \in {"data", "half"} : SendFromStream(t, l)
                \/ GiveUp(t) \/ SetHeader(t) \/ SetTrailer(t)
    BY <2>5, RoutineQuiet, QuietOut
  <2>6. QED
    BY <1>4, <2>1, <2>2, <2>3, <2>4, <2>5 DEF Begin
<1>5. QED
  BY <1>2, <1>3, <1>4 DEF Next

LEMMA OutInvAlways == Spec => []OutInv
  BY IInvInit, IInvNext, OutInvInit, OutInvNext, PTL DEF Spec

(* Whatever goroutines share the session, Dart is sent one end or one      *)
(* error at most, and trailers only before the end they belong to          *)
(* (stream_handler.go:385-435).                                            *)
THEOREM EndedOnce == Spec => []OneTerminal
  BY OutInvAlways, PTL DEF OutInv

(* Headers go out at most once (stream_handler.go:339-365).                *)
THEOREM HeadersSentOnce == Spec => []HeadersOnce
  BY OutInvAlways, PTL DEF OutInv

(* DoneChan of a session that is still in the map is closed after Dart has *)
(* been sent the end.                                                      *)
THEOREM DoneComesLast == Spec => []DoneAfterTerminal
<1>1. OutInv => DoneAfterTerminal
  BY DEF OutInv, DoneOut, DoneAfterTerminal, Ended, Has, Terminal
<1>2. QED
  BY <1>1, OutInvAlways, PTL

---------------------------------------------------------------------------
(* The handlers.  A session that runs one of them is used as the session   *)
(* allows, so what is proved of every session holds of it.                 *)
USE HandlerAssumption

LEMMA MainIsThread == Main \in Routines /\ Main \in Threads /\ Main \notin Callers
<1>1. Main \in Routines
  OBVIOUS
<1>2. Main \notin Callers
  BY <1>1, SessionAssumption, Zenon
<1>3. QED
  BY <1>1, <1>2 DEF Threads

LEMMA HandlerUses == Handler => [Next]_vars
<1> SUFFICES ASSUME Handler PROVE [Next]_vars
  OBVIOUS
<1> USE MainIsThread
<1>1. ASSUME Continue(Main) \/ Begin(Main) PROVE [Next]_vars
  BY <1>1 DEF Next
<1>2. ASSUME NEW l \in {"await", "recv", "recvsel"}, Start(Main, l) PROVE [Next]_vars
  BY <1>1, <1>2 DEF Begin
<1>3. ASSUME NEW l \in {"data", "half"}, SendFromStream(Main, l) PROVE [Next]_vars
  BY <1>1, <1>3 DEF Begin
<1>4. Refused => UNCHANGED vars
  BY DEF Refused
<1>5. CASE AwaitReady \/ Wait \/ Receive \/ InputEnds
  BY <1>1, <1>2, <1>5 DEF AwaitReady, Wait, Receive, InputEnds, Continue
<1>6. CASE BadRequest \/ ProducedAll \/ Produce \/ EchoMessage \/ Reply
  BY <1>3, <1>4, <1>6 DEF BadRequest, ProducedAll, Produce, EchoMessage, Echo, Reply
<1>7. CASE Trailer \/ HandlerReturns
  BY <1>1, <1>7 DEF Trailer, HandlerReturns, Begin
<1>8. CASE FinishStream \/ FailStream
  BY <1>1, <1>3, <1>4, <1>8 DEF FinishStream, FailStream, Fail, Begin
<1>9. CASE Proceeds
  BY <1>1, <1>9 DEF Proceeds, Continue
<1>10. QED
  BY <1>5, <1>6, <1>7, <1>8, <1>9 DEF Handler

LEMMA HandlersUse == [HandlersNext]_allVars => [Next]_vars
<1>1. UNCHANGED allVars => UNCHANGED vars
  BY DEF allVars
<1>2. ASSUME NEW r \in Routines, OtherGoesOn(r) \/ OtherBegins(r) PROVE Next
  BY <1>2 DEF OtherGoesOn, OtherBegins, Next, Threads
<1>3. ASSUME NEW c \in Callers, DartStep(c) PROVE Next
  BY <1>3 DEF DartStep, Next, Threads
<1>4. QED
  BY <1>1, <1>2, <1>3, HandlerUses DEF HandlersNext

LEMMA HandlersInv == HandlersSpec => [](IInv /\ OutInv)
<1>1. HandlersInit => Init
  BY DEF HandlersInit
<1>2. QED
  BY <1>1, HandlersUse, IInvInit, IInvNext, OutInvInit, OutInvNext, PTL DEF HandlersSpec

(* A handler, the goroutines it starts and the threads of Dart close no    *)
(* channel of their session twice (stream_handler.go:139-178, 385-435).    *)
THEOREM HandlersCloseOnce == HandlersSpec => []NoDoubleClose
<1>1. IInv => NoDoubleClose
  BY DEF IInv
<1>2. QED
  BY <1>1, HandlersInv, PTL

(* A handler's stream ends at most once towards Dart, and no trailers      *)
(* follow the end (stream_handler.go:385-435).                             *)
THEOREM HandlersEndOnce == HandlersSpec => []OneTerminal
<1>1. OutInv => OneTerminal
  BY DEF OutInv
<1>2. QED
  BY <1>1, HandlersInv, PTL

(* A handler receives every caller's messages in the order of its calls,   *)
(* without a gap and none twice (stream_handler.go:181-200).               *)
THEOREM HandlersInOrder == HandlersSpec => []NoGap
<1>1. HandlersInit => Init
  BY DEF HandlersInit
<1>2. HandlersSpec => [](IInv /\ OrderInv)
  BY <1>1, HandlersUse, IInvInit, IInvNext, OrderInit, OrderNext, PTL DEF HandlersSpec
<1>3. OrderInv => NoGap
  BY DEF OrderInv
<1>4. QED
  BY <1>2, <1>3, PTL

(* Under every handler a sender of Dart that sleeps has its wake-up still  *)
(* to come (stream_handler.go:181-200).                                    *)
THEOREM HandlersLoseNoWakeup == HandlersSpec => []ParkedForRoom
<1>1. HandlersInit => Init
  BY DEF HandlersInit
<1>2. QED
  BY <1>1, HandlersUse, IInvInit, IInvNext, ParkedInit, ParkedNext, PTL DEF HandlersSpec

(* What a thread of Dart may do to the session.                            *)
CallerKeeps(c) ==
  /\ pc'[Main] = pc[Main] /\ UNCHANGED <<out, rcvd, hasTrailers>>
  /\ closed => closed'
  /\ closed' => closed \/ pc[c] \in ClosePC
  /\ \A u \in Callers : pc'[u] \in ClosePC =>
       pc[u] \in ClosePC \/ (u = c /\ At(c, "idle") /\ inMap /\ ~inMap')

LEMMA GotoOther ==
  ASSUME TypeOK, NEW c \in Callers, NEW l, Goto(c, l)
  PROVE  pc'[Main] = pc[Main] /\ \A u \in Callers : pc'[u] = IF u = c THEN l ELSE pc[u]
  BY MainIsThread DEF TypeOK, Goto, Threads

LEMMA SetMain ==
  ASSUME TypeOK, NEW l, Goto(Main, l)
  PROVE  pc'[Main] = l /\ \A u \in Callers : pc'[u] = pc[u]
  BY MainIsThread DEF TypeOK, Goto, Threads

LEMMA CallerFrame ==
  ASSUME TypeOK, NEW c \in Callers, Continue(c) \/ Begin(c)
  PROVE  CallerKeeps(c)
<1> USE MainIsThread DEF CallerKeeps, ClosePC, After, flags, meta
<1>0. c \notin Routines
  BY SessionAssumption, Zenon
<1>1. CASE CloseUnmap(c)
  BY <1>0, <1>1, GotoOther DEF CloseUnmap
<1>2. CASE CloseDone(c)
  <2>1. CASE closed
    BY <1>0, <1>2, <2>1, GotoOther DEF CloseDone
  <2>2. CASE ~closed
    <3>1. CloseDoneChan(c, "cls3") /\ closed' /\ UNCHANGED <<out, rcvd, meta>> /\ pc[c] = "cls2"
      BY <1>2, <2>2 DEF CloseDone, CloseFirst, At
    <3>2. Parked \subseteq Callers
      BY DEF Parked, TypeOK
    <3>3. pc'[Main] = pc[Main] /\ \A u \in Callers : pc'[u] \in ClosePC => pc[u] \in ClosePC
      BY <3>1, <3>2 DEF CloseDoneChan, Threads
    <3>4. QED
      BY <3>1, <3>3
  <2>3. QED
    BY <2>1, <2>2
<1>3. CASE CloseData(c)
  BY <1>0, <1>3, GotoOther DEF CloseData
<1>4. CASE SendCheck(c) \/ SendLookup(c) \/ Lookup(c, "inp") \/ Lookup(c, "rdy")
  BY <1>4, GotoOther DEF SendCheck, SendLookup, Lookup
<1>5. CASE SendSelect(c)
  <2>1. UNCHANGED pc \/ Goto(c, "idle") \/ Goto(c, "parked")
    BY <1>5 DEF SendSelect
  <2>2. /\ pc'[Main] = pc[Main]
        /\ \A u \in Callers : pc'[u] = pc[u] \/ pc'[u] \in {"idle", "parked"}
    BY <2>1, GotoOther
  <2>3. QED
    BY <1>5, <2>2 DEF SendSelect
<1>6. CASE CloseStreamInput(c) \/ SignalStreamReady(c)
  BY <1>6, GotoOther DEF CloseStreamInput, SignalStreamReady
<1>7. QED
  BY <1>0, <1>1, <1>2, <1>3, <1>4, <1>5, <1>6 DEF Continue, Begin

(* What the goroutine of the handler does to the session when it calls     *)
(* back, waits, receives or closes it.                                     *)
MainKeeps ==
  /\ \A u \in Callers : pc'[u] \in ClosePC => pc[u] \in ClosePC
  /\ closed => closed'
  /\ \A k : Has(k) => Has(k)'

LEMMA MainFrame == IInv /\ Handler => MainKeeps
<1> SUFFICES ASSUME IInv, Handler PROVE MainKeeps
  OBVIOUS
<1> USE MainIsThread DEF MainKeeps, ClosePC, After, flags, meta
<1>0. TypeOK /\ Callers \subseteq Threads
  BY DEF IInv, Threads
<1>1. ASSUME NEW l, Goto(Main, l), out' = out, closed => closed' PROVE MainKeeps
  BY <1>0, <1>1, SetMain DEF Has
<1>2. ASSUME UNCHANGED vars PROVE MainKeeps
  BY <1>2 DEF vars, Has
<1>3. ASSUME NEW l, Start(Main, l) \/ SendFromStream(Main, l) PROVE MainKeeps
  BY <1>1, <1>3 DEF Start, SendFromStream
<1>4. CASE AwaitReady \/ Wait
  BY <1>1, <1>3, <1>4 DEF AwaitReady, Wait, WaitForReady
<1>5. CASE InputEnds \/ HandlerReturns
  BY <1>1, <1>5 DEF InputEnds, RecvEnd, HandlerReturns, CloseUnmap
<1>6. CASE Receive
  <2>1. out' = out /\ closed' = closed
    BY <1>6 DEF Receive, Recv
  <2>2. \A u \in Threads : pc'[u] = pc[u] \/ pc'[u] = "idle"
    BY <1>0, <1>6 DEF Receive, Recv, TypeOK, Goto
  <2>3. QED
    BY <1>0, <2>1, <2>2 DEF Has
<1>7. CASE BadRequest \/ ProducedAll \/ Produce \/ EchoMessage \/ Reply
  BY <1>2, <1>3, <1>7 DEF BadRequest, ProducedAll, Produce, EchoMessage, Echo, Reply, Refused
<1>8. CASE Trailer
  BY <1>8 DEF Trailer, SetTrailer, Has
<1>9. ASSUME NEW l, Finish(Main, l) PROVE MainKeeps
  BY <1>1, <1>9 DEF Finish
<1>10. CASE FinishStream \/ FailStream
  BY <1>2, <1>3, <1>9, <1>10 DEF FinishStream, FailStream, Fail, Refused, EndStream, ErrorStream
<1>11. ASSUME NEW l \in MsgKind, NEW n, Callback(Main, l, n) PROVE MainKeeps
  <2>1. \A k : Has(k) => Has(k)'
    BY <1>0, <1>11, AppendOut DEF Callback
  <2>2. \A u \in Callers : pc'[u] = pc[u]
    BY <1>0, <1>11, SetMain DEF Callback
  <2>3. QED
    BY <1>11, <2>1, <2>2 DEF Callback
<1>12. ASSUME NEW l, CloseDoneChan(Main, l), out' = out, closed => closed' PROVE MainKeeps
  <2>1. \A u \in Callers : pc'[u] = pc[u] \/ pc'[u] = "idle"
    BY <1>0, <1>12 DEF CloseDoneChan
  <2>2. QED
    BY <1>12, <2>1 DEF Has
<1>13. CASE CloseDone(Main) \/ CloseDoneLast(Main)
  BY <1>1, <1>12, <1>13 DEF CloseDone, CloseFirst, CloseDoneLast
<1>14. CASE CloseData(Main)
  BY <1>1, <1>14 DEF CloseData
<1>15. CASE Proceeds
  BY <1>11, <1>13, <1>14, <1>15 DEF Proceeds, MsgKind
<1>16. QED
  BY <1>4, <1>5, <1>6, <1>7, <1>8, <1>10, <1>15 DEF Handler

(* Somebody who closes the session is Dart, which has cancelled then, or   *)
(* the handler at its end; and a handler of the example that leaves an     *)
(* open session leaves by EndStream or ErrorStream.                        *)
Left == {"return", "returned"}
Told ==
  method # "other" =>
    /\ \A c \in Callers : pc[c] \in ClosePC => cancelled
    /\ pc[Main] \in ClosePC => step = "returned"
    /\ closed => cancelled \/ step \in Left
    /\ method \in Methods \ TestMethods /\ step \in Left /\ ~cancelled =>
         Has("end") \/ Has("error") \/ pc[Main] \in EndPC

LEMMA ToldByHandler ==
  ASSUME IInv, OutInv, Told, method # "other", Handler
  PROVE  Told'
<1> USE MainIsThread DEF Told, Left, ClosePC, EndPC
<1>0. TypeOK /\ (doneClosed => closed)
  BY DEF IInv, FlagsAgree
<1>k. MainKeeps
  BY MainFrame
<1>e. /\ \A k : Has(k) => Has(k)'
      /\ \A u \in Callers : pc'[u] \in ClosePC => pc[u] \in ClosePC
  BY <1>k DEF MainKeeps
(* A step that keeps the session open stays on the way to the end.         *)
<1>1. ASSUME closed' = closed, cancelled' = cancelled, method' = method,
             pc'[Main] \notin ClosePC, step \notin Left,
             step' \in Left => closed \/ method \in TestMethods
      PROVE  Told'
  BY <1>1, <1>e
<1>2. CASE AwaitReady \/ Wait
  BY <1>0, <1>1, <1>2, SetMain
     DEF AwaitReady, Wait, Start, WaitForReady, NotReady, Goes, flags
<1>3. CASE BadRequest \/ ProducedAll
  BY <1>1, <1>3 DEF BadRequest, ProducedAll, Last, Goes, Idle, At, vars, flags
<1>4. ASSUME NEW l \in {"data", "half"}, SendFromStream(Main, l)
      PROVE  closed' = closed /\ pc'[Main] = l
  BY <1>0, <1>4, SetMain DEF SendFromStream, flags
<1>5. Refused => closed /\ closed' = closed /\ pc'[Main] = "idle"
  BY DEF Refused, Idle, At, vars, flags
<1>6. CASE Produce \/ EchoMessage \/ Reply
  BY <1>1, <1>4, <1>5, <1>6 DEF Produce, EchoMessage, Echo, Reply, Goes
<1>7. CASE Receive
  <2>1. pc'[Main] = "idle" /\ closed' = closed
    BY <1>0, <1>7 DEF Receive, Recv, TypeOK, Goto, flags
  <2>2. step = "work" /\ step' \notin Left /\ cancelled' = cancelled /\ method' = method
    BY <1>7 DEF Receive, AfterMessage, Goes
  <2>3. QED
    BY <1>1, <2>1, <2>2
<1>8. CASE InputEnds
  BY <1>0, <1>1, <1>8, SetMain DEF InputEnds, RecvEnd, AtEnd, Goes, flags
<1>9. CASE Trailer
  <2>1. pc[Main] = "idle" /\ pc' = pc /\ closed' = closed
    BY <1>9 DEF Trailer, SetTrailer, At, flags
  <2>2. QED
    BY <1>1, <1>9, <2>1 DEF Trailer, Goes
<1>10. ASSUME NEW l \in {"trailer", "end", "error"}, Finish(Main, l), step \notin Left, Goes("return")
       PROVE  Told'
  <2>1. closed' /\ pc'[Main] = l
    BY <1>0, <1>10, SetMain DEF Finish
  <2>2. QED
    BY <1>e, <1>10, <2>1 DEF Goes
<1>11. CASE FinishStream
  <2>1. CASE Refused \/ (method \in TestMethods /\ SendFromStream(Main, "half"))
    BY <1>1, <1>4, <1>5, <1>11, <2>1 DEF FinishStream, Goes
  <2>2. CASE EndStream(Main)
    BY <1>10, <1>11, <2>2 DEF FinishStream, EndStream
  <2>3. QED
    BY <1>11, <2>1, <2>2 DEF FinishStream
<1>12. CASE FailStream
  <2>1. CASE Refused
    BY <1>1, <1>5, <1>12, <2>1 DEF FailStream, Goes
  <2>2. CASE ErrorStream(Main)
    BY <1>10, <1>12, <2>2 DEF FailStream, ErrorStream
  <2>3. QED
    BY <1>12, <2>1, <2>2 DEF FailStream, Fail
<1>13. CASE HandlerReturns
  <2>1. pc[Main] = "idle" /\ closed' = closed
    BY <1>13 DEF HandlerReturns, CloseUnmap, At, flags
  <2>2. step = "return" /\ step' = "returned" /\ cancelled' = cancelled /\ method' = method
    BY <1>13 DEF HandlerReturns, Goes
  <2>3. QED
    BY <1>e, <2>1, <2>2
<1>14. CASE Proceeds
  <2>0. UNCHANGED <<method, step, cancelled>>
    BY <1>14 DEF Proceeds, handler
  <2>1. ASSUME closed' = closed \/ step = "returned",
               pc'[Main] \in ClosePC => pc[Main] \in ClosePC,
               pc[Main] \in EndPC => pc'[Main] \in EndPC \/ Has("end")' \/ Has("error")'
        PROVE  Told'
    BY <1>e, <2>0, <2>1
  <2>2. CASE CloseDone(Main)
    <3>1. pc[Main] = "cls2" /\ step = "returned"
      BY <2>2 DEF CloseDone, At
    <3>2. QED
      BY <2>1, <3>1
  <2>3. CASE CloseData(Main)
    <3>1. pc[Main] = "cls3" /\ closed' = closed
      BY <2>3 DEF CloseData, At
    <3>2. QED
      BY <2>1, <3>1
  <2>4. CASE CloseDoneLast(Main)
    <3>1. pc[Main] = "done" /\ closed' = closed /\ pc'[Main] = "idle"
      BY <2>4 DEF CloseDoneLast, CloseDoneChan, At
    <3>2. Has("end") \/ Has("error")
      BY <3>1 DEF OutInv, EndOut, Ended
    <3>3. QED
      BY <1>e, <2>1, <3>1, <3>2
  <2>5. ASSUME NEW l \in {"data", "half", "header"}, Callback(Main, l, "idle") PROVE Told'
    <3>1. pc[Main] = l /\ closed' = closed /\ pc'[Main] = "idle"
      BY <1>0, <2>5, SetMain DEF Callback, At, flags
    <3>2. QED
      BY <2>1, <3>1
  <2>6. CASE Callback(Main, "trailer", "end")
    <3>1. pc'[Main] = "end" /\ closed' = closed
      BY <1>0, <2>6, SetMain DEF Callback, flags
    <3>2. QED
      BY <2>1, <3>1
  <2>7. ASSUME NEW l \in {"end", "error"}, Callback(Main, l, "done") PROVE Told'
    <3>1. pc'[Main] = "done" /\ closed' = closed
      BY <1>0, <2>7, SetMain DEF Callback, flags
    <3>2. QED
      BY <2>1, <3>1
  <2>8. QED
    BY <1>14, <2>2, <2>3, <2>4, <2>5, <2>6, <2>7 DEF Proceeds
<1>15. QED
  BY <1>2, <1>3, <1>6, <1>7, <1>8, <1>9, <1>11, <1>12, <1>13, <1>14 DEF Handler

LEMMA ToldNext == IInv /\ OutInv /\ Told /\ [HandlersNext]_allVars => Told'
<1> SUFFICES ASSUME IInv, OutInv, Told, [HandlersNext]_allVars PROVE Told'
  OBVIOUS
<1>1. CASE UNCHANGED allVars
  BY <1>1 DEF allVars, vars, flags, handler, Told, Has
<1>2. ASSUME NEW r \in Routines, OtherGoesOn(r) \/ OtherBegins(r) PROVE Told'
  BY <1>2 DEF OtherGoesOn, OtherBegins, handler, Told
<1>3. ASSUME NEW c \in Callers, DartStep(c) PROVE Told'
  <2>1. CallerKeeps(c)
    BY <1>3, CallerFrame DEF DartStep, IInv
  <2>2. UNCHANGED <<method, step>> /\ (cancelled => cancelled')
        /\ (At(c, "idle") /\ inMap /\ ~inMap' => cancelled')
    BY <1>3, Zenon DEF DartStep
  <2>3. \A k : Has(k)' <=> Has(k)
    BY <2>1 DEF CallerKeeps, Has
  <2>4. QED
    BY <2>1, <2>2, <2>3 DEF CallerKeeps, Told
<1>4. QED
  BY <1>1, <1>2, <1>3, ToldByHandler DEF HandlersNext

(* Dart learns how every stream of the example ended, unless it has closed *)
(* the stream itself, on whichever of its returns the handler leaves       *)
(* (stream_impl.go:15-126, file_service.go:124-229).                       *)
THEOREM DartIsTold == HandlersSpec => []ToldUnlessCancelled
<1>1. HandlersInit => Told
  BY MainIsThread DEF HandlersInit, Init, Told, ClosePC, Left, FirstStep, Threads
<1>2. Told => ToldUnlessCancelled
  BY DEF Told, Left, ToldUnlessCancelled, Sends, Has, Methods, ServerMethods, ClientMethods,
         BidiMethods
<1>3. QED
  BY <1>1, <1>2, ToldNext, HandlersInv, PTL DEF HandlersSpec

---------------------------------------------------------------------------
(* What a handler has done, by where it is: a client call has received     *)
(* everything when it replies, a bidirectional one has echoed all that it  *)
(* received, a server call has sent every item.                            *)
Progress ==
  /\ method \in ClientMethods =>
       /\ step \notin {"ready", "echo"}
       /\ step \in {"work", "trailer", "reply"} => produced = 0
       /\ step \in {"trailer", "reply", "finish"} => Eof
       /\ step = "finish" => produced = 1 \/ closed
  /\ method \in BidiMethods =>
       /\ step \notin {"trailer", "reply"}
       /\ step \in {"ready", "work", "finish"} => produced = Len(rcvd)
       /\ step = "echo" => produced + 1 = Len(rcvd)
       /\ step = "finish" => Eof
  /\ method \in ServerMethods =>
       /\ step \notin {"echo", "reply"}
       /\ step \in {"trailer", "finish"} => produced = Items
  /\ method \in WithTrailer /\ step \in {"reply", "finish"} => hasTrailers
  /\ pc[Main] \in {"recv", "recvsel"} => step = "work" /\ method \notin ServerMethods

(* What it had done when it called EndStream.                              *)
Complete ==
  /\ step \in Left
  /\ method \in ClientMethods => Eof /\ produced = 1
  /\ method \in BidiMethods   => Eof /\ produced = Len(rcvd)
  /\ method \in ServerMethods => produced = Items
  /\ method \in WithTrailer   => Has("trailer") \/ pc[Main] = "trailer"

Work ==
  method # "other" =>
    /\ produced \in Nat /\ Progress
    /\ Has("end") \/ pc[Main] \in {"trailer", "end"} => Complete

LEMMA MethodKinds ==
  /\ ClientMethods \cap BidiMethods = {} /\ ClientMethods \cap ServerMethods = {}
  /\ BidiMethods \cap ServerMethods = {} /\ WithTrailer \cap BidiMethods = {}
  /\ WithTrailer \subseteq ClientMethods \cup ServerMethods
BY DEF ClientMethods, BidiMethods, ServerMethods, WithTrailer

(* A step that leaves the progress of the handler alone, and where its     *)
(* goroutine is as to receiving and ending.                                *)
LEMMA WorkKept ==
  ASSUME Work, UNCHANGED <<method, step, produced, rcvd>>,
         Eof => Eof', closed => closed', hasTrailers => hasTrailers',
         Has("trailer") => Has("trailer")', Has("end")' => Has("end") \/ pc[Main] = "end",
         \/ pc'[Main] = pc[Main]
         \/ pc[Main] # "trailer" /\ pc'[Main] \notin {"recv", "recvsel", "trailer", "end"}
         \/ pc[Main] = "trailer" /\ pc'[Main] = "end" /\ Has("trailer")'
  PROVE  Work'
<1> USE DEF Work
<1>1. ASSUME method # "other" PROVE produced' \in Nat /\ Progress'
  BY <1>1 DEF Progress
<1>2. ASSUME method # "other", Has("end")' \/ pc'[Main] \in {"trailer", "end"} PROVE Complete'
  BY <1>2 DEF Complete
<1>3. QED
  BY <1>1, <1>2

(* A step to another place of the handler, before its end.                 *)
LEMMA WorkGoes ==
  ASSUME Work, method # "other", method' = method, step \notin Left,
         produced' \in Nat, Progress', UNCHANGED out,
         pc'[Main] \notin {"trailer", "end"}
  PROVE  Work'
<1>1. Has("end")' = Has("end")
  BY DEF Has
<1>2. ~Has("end")
  BY DEF Work, Complete
<1>3. QED
  BY <1>1, <1>2 DEF Work

LEMMA EofStays == IInv /\ [Next]_vars /\ Eof => Eof'
  BY DrainedStays DEF Eof

LEMMA WorkByHandler ==
  ASSUME IInv, OutInv, Work, method # "other", Handler
  PROVE  Work'
<1> USE MainIsThread, MethodKinds DEF Left
<1>0. TypeOK /\ (doneClosed => closed)
  BY DEF IInv, FlagsAgree
<1>e. (Eof => Eof') /\ (closed => closed')
  BY HandlerUses, EofStays, MainFrame DEF MainKeeps
<1>p. produced \in Nat /\ Progress /\ Items \in Nat /\ Len(rcvd) \in Nat
  BY <1>0 DEF Work, TypeOK
<1>2. CASE AwaitReady \/ Wait
  <2>1. /\ step \in {"ready", "work"} /\ step' \in {step, "work", "return", "fail"}
        /\ step = "ready" => pc'[Main] \notin {"recv", "recvsel"}
        /\ step = "work" => method \notin ServerMethods /\ step' = "work"
        /\ pc'[Main] \notin {"trailer", "end"}
        /\ UNCHANGED <<method, produced, rcvd, out, hasTrailers>>
    BY <1>0, <1>2, SetMain DEF AwaitReady, Wait, Start, WaitForReady, NotReady, Goes, meta
  <2>2. Progress'
    BY <1>e, <1>p, <2>1 DEF Progress
  <2>3. QED
    BY <1>p, <2>1, <2>2, WorkGoes
<1>3. CASE BadRequest \/ ProducedAll
  <2>1. /\ step = "work" /\ method \in ServerMethods
        /\ step' = "fail" \/ (produced = Items /\ step' = Last)
        /\ pc'[Main] = "idle"
        /\ UNCHANGED <<method, produced, rcvd, out, hasTrailers>>
    BY <1>3 DEF BadRequest, ProducedAll, Goes, Idle, At, vars, meta
  <2>2. Last = IF method \in WithTrailer THEN "trailer" ELSE "finish"
    BY DEF Last
  <2>3. Progress'
    BY <1>e, <1>p, <2>1, <2>2 DEF Progress
  <2>4. QED
    BY <1>p, <2>1, <2>3, WorkGoes
<1>4. ASSUME NEW l \in {"data", "half"}, SendFromStream(Main, l)
      PROVE  pc'[Main] = l /\ UNCHANGED <<rcvd, out, hasTrailers, closed>> /\ ~closed
  BY <1>0, <1>4, SetMain DEF SendFromStream, OpenToSend, meta, flags
<1>5. Refused => closed /\ pc'[Main] = "idle" /\ UNCHANGED <<rcvd, out, hasTrailers>>
  BY DEF Refused, Idle, At, vars, meta
<1>6. CASE Produce
  <2>1. /\ step = "work" /\ method \in ServerMethods /\ method' = method
        /\ pc'[Main] \in {"data", "idle"} /\ UNCHANGED <<rcvd, out, hasTrailers>>
        /\ (step' = "work" /\ produced' = produced + 1) \/ (step' = "return" /\ produced' = produced)
    BY <1>4, <1>5, <1>6 DEF Produce, Goes
  <2>2. Progress'
    BY <1>e, <1>p, <2>1 DEF Progress
  <2>3. QED
    BY <1>p, <2>1, <2>2, WorkGoes
<1>7. CASE EchoMessage
  <2>1. /\ step = "echo" /\ method' = method
        /\ pc'[Main] \in {"data", "idle"} /\ UNCHANGED <<rcvd, out, hasTrailers>>
        /\ (step' = "work" /\ produced' = produced + 1) \/ (step' = "return" /\ produced' = produced)
    BY <1>4, <1>5, <1>7 DEF EchoMessage, Echo, Goes
  <2>2. Progress'
    BY <1>e, <1>p, <2>1 DEF Progress
  <2>3. QED
    BY <1>p, <2>1, <2>2, WorkGoes
<1>8. CASE Reply
  <2>1. /\ step = "reply" /\ method' = method /\ step' = "finish"
        /\ pc'[Main] \in {"data", "idle"} /\ UNCHANGED <<rcvd, out, hasTrailers>>
        /\ produced' = produced + 1 \/ (closed /\ produced' = produced)
    BY <1>4, <1>5, <1>8 DEF Reply, Goes
  <2>2. Progress'
    BY <1>e, <1>p, <2>1 DEF Progress
  <2>3. QED
    BY <1>p, <2>1, <2>2, WorkGoes
<1>9. CASE Receive
  <2>1. /\ pc[Main] \in {"recv", "recvsel"} /\ pc'[Main] = "idle"
        /\ Len(rcvd') = Len(rcvd) + 1
    BY <1>0, <1>9 DEF Receive, Recv, TypeOK, Goto, At
  <2>2. /\ step = "work" /\ UNCHANGED <<method, produced, out, hasTrailers>>
        /\ step' \in AfterMessage
    BY <1>9 DEF Receive, Recv, Goes, meta
  <2>3. AfterMessage \subseteq {IF method \in BidiMethods THEN "echo" ELSE "work", "fail"}
    BY DEF AfterMessage
  <2>4. Progress'
    BY <1>e, <1>p, <2>1, <2>2, <2>3 DEF Progress
  <2>5. QED
    BY <1>p, <2>1, <2>2, <2>4, WorkGoes
<1>10. CASE InputEnds
  <2>1. /\ pc[Main] \in {"recv", "recvsel"} /\ pc'[Main] = "idle"
        /\ step = "work" /\ UNCHANGED <<method, produced, rcvd, out, hasTrailers>>
        /\ (Eof /\ step' = AtEnd) \/ step' = "return"
    BY <1>0, <1>10, SetMain DEF InputEnds, RecvEnd, Goes, At, meta
  <2>2. AtEnd = IF method \in BidiMethods THEN "finish"
                ELSE IF method \in WithTrailer THEN "trailer" ELSE "reply"
    BY DEF AtEnd
  <2>3. method \in ClientMethods \cup BidiMethods \/ method \notin Methods
    BY <1>p, <2>1 DEF Progress, Methods
  <2>4. Progress'
    BY <1>e, <1>p, <2>1, <2>2 DEF Progress
  <2>5. QED
    BY <1>p, <2>1, <2>4, WorkGoes
<1>11. CASE Trailer
  <2>1. /\ step = "trailer" /\ step' = IF method \in ClientMethods THEN "reply" ELSE "finish"
        /\ hasTrailers' /\ pc[Main] = "idle" /\ pc' = pc
        /\ UNCHANGED <<method, produced, rcvd, out>>
    BY <1>11 DEF Trailer, SetTrailer, Goes, At
  <2>2. Progress'
    BY <1>e, <1>p, <2>1 DEF Progress
  <2>3. QED
    BY <1>p, <2>1, <2>2, WorkGoes
<1>12. CASE FinishStream
  <2>0. step = "finish" /\ step' = "return" /\ UNCHANGED <<method, produced>>
    BY <1>12 DEF FinishStream, Goes
  <2>1. CASE Refused \/ SendFromStream(Main, "half")
    <3>1. pc'[Main] \in {"idle", "half"} /\ UNCHANGED <<rcvd, out, hasTrailers>>
      BY <1>4, <1>5, <2>1
    <3>2. Progress'
      BY <1>e, <1>p, <2>0, <3>1 DEF Progress
    <3>3. QED
      BY <1>p, <2>0, <3>1, <3>2, WorkGoes
  <2>2. CASE EndStream(Main)
    <3>1. /\ ~closed /\ UNCHANGED <<rcvd, out>>
          /\ pc'[Main] = IF hasTrailers THEN "trailer" ELSE "end"
      BY <1>0, <2>2, SetMain DEF EndStream, Finish, NotFinished
    <3>2. Progress'
      BY <1>e, <1>p, <2>0, <3>1 DEF Progress
    <3>3. Complete'
      BY <1>e, <1>p, <2>0, <3>1 DEF Complete, Progress
    <3>4. QED
      BY <1>p, <2>0, <3>2, <3>3 DEF Work
  <2>3. QED
    BY <1>12, <2>1, <2>2 DEF FinishStream
<1>13. CASE FailStream
  <2>0. step = "fail" /\ step' = "return" /\ UNCHANGED <<method, produced>>
    BY <1>13 DEF FailStream, Goes
  <2>1. pc'[Main] \in {"idle", "error"} /\ UNCHANGED <<rcvd, out>>
    BY <1>0, <1>5, <1>13, SetMain DEF FailStream, Fail, ErrorStream, Finish
  <2>2. Progress'
    BY <1>e, <1>p, <2>0, <2>1 DEF Progress
  <2>3. QED
    BY <1>p, <2>0, <2>1, <2>2, WorkGoes
<1>14. CASE HandlerReturns
  <2>1. /\ step = "return" /\ step' = "returned" /\ UNCHANGED <<method, produced, rcvd, out, hasTrailers>>
        /\ pc[Main] = "idle" /\ pc'[Main] \in {"cls2", "exited"}
    BY <1>0, <1>14, SetMain DEF HandlerReturns, CloseUnmap, After, Goes, At, meta
  <2>2. Progress'
    BY <1>e, <1>p, <2>1 DEF Progress
  <2>3. \A k : Has(k)' <=> Has(k)
    BY <2>1 DEF Has
  <2>4. Has("end") => Complete'
    BY <1>e, <2>1, <2>3 DEF Work, Complete
  <2>5. QED
    BY <1>p, <2>1, <2>2, <2>3, <2>4 DEF Work
<1>15. CASE Proceeds
  <2>0. UNCHANGED <<method, step, produced, rcvd, hasTrailers>> /\ \A k : Has(k) => Has(k)'
    <3>1. UNCHANGED <<method, step, produced>>
      BY <1>15 DEF Proceeds, handler
    <3>2. UNCHANGED <<rcvd, hasTrailers>>
      BY <1>15 DEF Proceeds, CloseDone, CloseData, CloseDoneLast, Callback, meta
    <3>3. QED
      BY <3>1, <3>2, MainFrame DEF MainKeeps
  <2>1. CASE CloseDone(Main) \/ CloseData(Main) \/ CloseDoneLast(Main)
    <3>1. out' = out
      BY <2>1 DEF CloseDone, CloseData, CloseDoneLast
    <3>2. pc'[Main] \in {"exited", "idle", "cls3"} /\ pc[Main] \in {"cls2", "cls3", "done"}
      <4>1. ASSUME NEW l, CloseDoneChan(Main, l) PROVE pc'[Main] = l
        BY <4>1 DEF CloseDoneChan
      <4>2. QED
        BY <1>0, <2>1, <4>1, SetMain DEF CloseDone, CloseFirst, CloseData, CloseDoneLast, After, At
    <3>3. Has("end")' => Has("end")
      BY <3>1 DEF Has
    <3>4. QED
      BY <1>e, <2>0, <3>2, <3>3, WorkKept
  <2>2. ASSUME NEW l \in MsgKind, NEW n, Callback(Main, l, n),
               \/ l # "trailer" /\ n \notin {"recv", "recvsel", "trailer", "end"}
               \/ l = "trailer" /\ n = "end"
        PROVE  Work'
    <3>1. pc[Main] = l /\ pc'[Main] = n
      BY <1>0, <2>2, SetMain DEF Callback, At
    <3>2. \A k : Has(k)' <=> Has(k) \/ k = l
      BY <1>0, <2>2, AppendOut DEF Callback
    <3>3. Has("end")' => Has("end") \/ pc[Main] = "end"
      BY <3>1, <3>2
    <3>4. l = "trailer" => Has("trailer")'
      BY <3>2
    <3>5. \/ pc[Main] # "trailer" /\ pc'[Main] \notin {"recv", "recvsel", "trailer", "end"}
          \/ pc[Main] = "trailer" /\ pc'[Main] = "end" /\ Has("trailer")'
      BY <2>2, <3>1, <3>4
    <3>6. QED
      BY <1>e, <2>0, <3>3, <3>5, WorkKept
  <2>3. \A l \in {"data", "half", "header"} : Callback(Main, l, "idle") => Work'
    BY <2>2 DEF MsgKind
  <2>4. Callback(Main, "trailer", "end") => Work'
    BY <2>2 DEF MsgKind
  <2>5. \A l \in {"end", "error"} : Callback(Main, l, "done") => Work'
    BY <2>2 DEF MsgKind
  <2>6. QED
    BY <1>15, <2>1, <2>3, <2>4, <2>5 DEF Proceeds
<1>16. QED
  BY <1>2, <1>3, <1>6, <1>7, <1>8, <1>9, <1>10, <1>11, <1>12, <1>13, <1>14, <1>15 DEF Handler

LEMMA WorkNext == IInv /\ OutInv /\ Work /\ [HandlersNext]_allVars => Work'
<1> SUFFICES ASSUME IInv, OutInv, Work, [HandlersNext]_allVars PROVE Work'
  OBVIOUS
<1>1. CASE UNCHANGED allVars
  <2>1. UNCHANGED <<out, method, step, produced, rcvd, hasTrailers, pc, buf, dataClosed, closed>>
    BY <1>1 DEF allVars, vars, handler, flags, meta
  <2>2. \A k : Has(k)' <=> Has(k)
    BY <2>1 DEF Has
  <2>3. QED
    BY <2>1, <2>2, WorkKept DEF Eof
<1>2. ASSUME NEW r \in Routines, OtherGoesOn(r) \/ OtherBegins(r) PROVE Work'
  BY <1>2 DEF OtherGoesOn, OtherBegins, handler, Work
<1>3. ASSUME NEW c \in Callers, DartStep(c) PROVE Work'
  <2>1. CallerKeeps(c) /\ (Eof => Eof')
    BY <1>3, CallerFrame, HandlersUse, EofStays DEF DartStep, IInv, HandlersNext
  <2>2. UNCHANGED <<method, step, produced>>
    BY <1>3 DEF DartStep
  <2>4. /\ UNCHANGED <<method, step, produced, rcvd>>
        /\ closed => closed'
        /\ hasTrailers => hasTrailers'
        /\ pc'[Main] = pc[Main]
    BY <2>1, <2>2 DEF CallerKeeps
  <2>5. Has("trailer")' = Has("trailer") /\ Has("end")' = Has("end")
    BY <2>1 DEF CallerKeeps, Has
  <2>6. QED
    BY <2>1, <2>4, <2>5, WorkKept
<1>4. QED
  BY <1>1, <1>2, <1>3, WorkByHandler DEF HandlersNext

(* A handler that is one goroutine is not about to send data when the end  *)
(* has gone out.                                                           *)
DataInv == NoDataAfterTerminal /\ (pc[Main] \in {"data", "half"} => ~Ended)

LEMMA DataInvNext ==
  ASSUME Routines = {Main}
  PROVE  IInv /\ OutInv /\ DataInv /\ [Next]_vars => DataInv'
<1> SUFFICES ASSUME IInv, OutInv, DataInv, [Next]_vars PROVE DataInv'
  OBVIOUS
<1> USE MainIsThread
<1>0. TypeOK
  BY DEF IInv
<1>1. ASSUME out' = out,
             \/ pc'[Main] = pc[Main] \/ pc'[Main] \notin {"data", "half"} \/ ~closed
      PROVE  DataInv'
  <2>1. \A k : Has(k)' <=> Has(k)
    BY <1>1 DEF Has
  <2>2. ~closed => ~Ended
    BY DEF OutInv, EndOut
  <2>3. QED
    BY <1>1, <2>1, <2>2 DEF DataInv, NoDataAfterTerminal, Ended
<1>2. CASE UNCHANGED vars
  BY <1>1, <1>2 DEF vars
<1>3. ASSUME NEW c \in Callers, Continue(c) \/ Begin(c) PROVE DataInv'
  BY <1>0, <1>1, <1>3, CallerFrame DEF CallerKeeps
<1>4. ASSUME NEW l \in MsgKind, NEW n, n \notin {"data", "half"}, Callback(Main, l, n)
      PROVE  DataInv'
  <2>1. pc[Main] = l /\ pc'[Main] = n
    BY <1>0, <1>4, SetMain DEF Callback, At
  <2>2. /\ DOMAIN out = 1..Len(out) /\ DOMAIN out' = 1..(Len(out) + 1) /\ Len(out) \in Nat
        /\ \A i \in DOMAIN out : out'[i] = out[i]
        /\ out'[Len(out) + 1] = l
    BY <1>0, <1>4, AppendOut DEF Callback
  <2>3. l \in {"data", "half"} => \A i \in DOMAIN out : out[i] \notin Terminal
    BY <2>1 DEF DataInv, Ended, Has, Terminal
  <2>4. NoDataAfterTerminal'
    <3>1. CASE l \in {"data", "half"}
      BY <2>2, <2>3, <3>1 DEF NoDataAfterTerminal, Terminal
    <3>2. CASE l \notin {"data", "half"}
      BY <2>2, <3>2 DEF NoDataAfterTerminal, Terminal, DataInv
    <3>3. QED
      BY <3>1, <3>2
  <2>5. QED
    BY <1>4, <2>1, <2>4 DEF DataInv
<1>5. CASE CloseUnmap(Main) \/ CloseDone(Main) \/ CloseData(Main) \/ CloseDoneLast(Main)
  <2>1. ASSUME NEW l, CloseDoneChan(Main, l) PROVE pc'[Main] = l
    BY <2>1 DEF CloseDoneChan
  <2>2. out' = out /\ pc'[Main] \in {"idle", "exited", "cls2", "cls3"}
    BY <1>0, <1>5, <2>1, SetMain
       DEF CloseUnmap, CloseDone, CloseFirst, CloseData, CloseDoneLast, After
  <2>3. QED
    BY <1>1, <2>2
<1>6. CASE WaitForReady(Main) \/ RecvEnd(Main) \/ GiveUp(Main)
  BY <1>0, <1>1, <1>6, SetMain DEF WaitForReady, RecvEnd, GiveUp
<1>7. CASE Recv(Main)
  <2>1. out' = out /\ pc'[Main] = "idle"
    BY <1>0, <1>7 DEF Recv, TypeOK, Goto
  <2>2. QED
    BY <1>1, <2>1
<1>8. ASSUME NEW l \in {"await", "recv", "recvsel"}, Start(Main, l) PROVE DataInv'
  BY <1>0, <1>1, <1>8, SetMain DEF Start
<1>9. ASSUME NEW l \in {"data", "half"}, SendFromStream(Main, l) PROVE DataInv'
  BY <1>1, <1>9 DEF SendFromStream, OpenToSend
<1>10. CASE SendHeader(Main) \/ SetHeader(Main) \/ SetTrailer(Main)
  BY <1>0, <1>1, <1>10, SetMain DEF SendHeader, SetHeader, SetTrailer
<1>11. CASE EndStream(Main) \/ ErrorStream(Main)
  BY <1>0, <1>1, <1>11, SetMain DEF EndStream, ErrorStream, Finish
<1>12. CASE Continue(Main) \/ Begin(Main)
  <2>1. \A l \in {"data", "half", "header"} : Callback(Main, l, "idle") => DataInv'
    BY <1>4 DEF MsgKind
  <2>2. Callback(Main, "trailer", "end") => DataInv'
    BY <1>4 DEF MsgKind
  <2>3. \A l \in {"end", "error"} : Callback(Main, l, "done") => DataInv'
    BY <1>4 DEF MsgKind
  <2>4. QED
    BY <1>5, <1>6, <1>7, <1>8, <1>9, <1>10, <1>11, <1>12, <2>1, <2>2, <2>3 DEF Continue, Begin
<1>13. QED
  BY <1>2, <1>3, <1>12 DEF Next, Threads

LEMMA DataInvInit == Init => DataInv
  BY MainIsThread DEF Init, DataInv, NoDataAfterTerminal

(* Nothing follows the end that Dart is sent by a handler that is one      *)
(* goroutine, whatever the handler is (stream_handler.go:218, 393).        *)
THEOREM NothingAfterEnd ==
  ASSUME Routines = {Main}
  PROVE  Spec => []NoDataAfterTerminal
<1>1. DataInv => NoDataAfterTerminal
  BY DEF DataInv
<1>2. QED
  BY <1>1, IInvInit, IInvNext, OutInvInit, OutInvNext, DataInvInit, DataInvNext, PTL DEF Spec

(* The end of a stream of the example is the end of complete work, for     *)
(* every number of items, of messages and of callers; the handler is one   *)
(* goroutine, as those of the example are (file_service.go:135, 199).      *)
THEOREM EndsComplete ==
  ASSUME Routines = {Main}
  PROVE  HandlersSpec => []EndIsComplete
<1>1. HandlersInit => Init /\ Work
  <2>1. HandlersInit => ~Has("end") /\ pc[Main] = "idle"
    BY MainIsThread DEF HandlersInit, Init, Has
  <2>2. HandlersInit => Progress
    BY <2>1, MethodKinds DEF HandlersInit, Init, Progress, FirstStep
  <2>3. QED
    BY <2>1, <2>2 DEF HandlersInit, Work
<1>2. Work /\ OutInv /\ DataInv => EndIsComplete
  <2>1. ASSUME Work, OutInv, Has("end"), method # "other" PROVE Complete /\ pc[Main] # "trailer"
    BY <2>1, MainIsThread DEF Work, OutInv, EndOut, Ended
  <2>2. "other" \notin ClientMethods \cup BidiMethods \cup ServerMethods \cup WithTrailer
    BY DEF ClientMethods, BidiMethods, ServerMethods, WithTrailer
  <2>3. QED
    BY <2>1, <2>2 DEF DataInv, EndIsComplete, Complete, Eof, Sends, Has
<1>3. QED
  BY <1>1, <1>2, WorkNext, HandlersInv, HandlersUse, DataInvInit, DataInvNext, PTL DEF HandlersSpec
============================================================================
