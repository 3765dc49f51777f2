---------------------------- MODULE PluginLibrary ----------------------------
(***************************************************************************)
(* The other side of PluginHost: the streams that pkg/plugin/server.go     *)
(* keeps inside the library, and the goroutine that the generated opener   *)
(* starts for the handler of each.  PluginHost says of a call into the     *)
(* library only when it may return; here it does what it does, one channel *)
(* operation or critical section of a stream at a time.                    *)
(*                                                                         *)
(* A message is not told from another, so a channel is the number of       *)
(* messages in it.  lpc is where a thread of the host is in the library.   *)
(***************************************************************************)
EXTENDS PluginHost

CONSTANT Cap   \* capacity of SendCh and RecvCh (16 in the code)

ASSUME LibraryAssumption == Cap \in Nat \ {0}

Kinds == {"server", "client", "bidi"}

VARIABLES
  kind,                 \* the kind of the method of each stream
  sendCh, recvCh,       \* messages in the two channels
  closeSend, closeRecv, \* streams whose CloseSend, CloseRecv is set
  errCh,                \* streams with an error in ErrCh
  owed,                 \* messages that Synurang_Stream_Send said 0 of and the
                        \* handler has not received
  seenEof,              \* streams whose handler has seen the end of its messages
  hpc,                  \* where the goroutine of the handler is
  lpc                   \* where each thread is in the library, or "out"

channels == <<sendCh, recvCh, closeSend, closeRecv, errCh>>
history  == <<owed, seenEof>>
inside   == <<kind, channels, history, hpc, lpc>>
allVars  == <<vars, inside>>

LibInit ==
  /\ Init
  /\ kind \in [Streams -> Kinds]
  /\ sendCh = [h \in Streams |-> 0] /\ recvCh = [h \in Streams |-> 0]
  /\ closeSend = {} /\ closeRecv = {} /\ errCh = {}
  /\ owed = [h \in Streams |-> 0] /\ seenEof = {}
  /\ hpc = [h \in Streams |-> "none"]
  /\ lpc = [t \in Threads |-> "out"]

Plus(f, h)  == [f EXCEPT ![h] = @ + 1]
Minus(f, h) == [f EXCEPT ![h] = @ - 1]
LGoto(t, l) == lpc' = [lpc EXCEPT ![t] = l]
HGoto(h, l) == hpc' = [hpc EXCEPT ![h] = l]
In(t, l)    == lpc[t] = l

(* The host goes on with what is no call on a stream.                      *)
HostOnly(t) ==
  /\ \/ Start(t) \/ GetInvoker(t) \/ InvokeReturns(t) \/ GetStreamOpener(t)
     \/ Track(t) \/ AcquireSend(t, "acqSend", "send") \/ AcquireSend(t, "acqHalf", "half")
     \/ AcquireRecv(t) \/ RecvFails(t) \/ StreamClose(t)
     \/ CloseNext(t) \/ Unload(t)
  /\ UNCHANGED inside

(* NewStream, and the goroutine of the handler; or there is no plugin.     *)
(* streamHandleCounter only grows: a handle is never given out again.      *)
Open(t) ==
  /\ OpenReturns(t)
  /\ \A h \in handlers' \ handlers : hpc[h] = "none"
  /\ hpc' = [h \in Streams |->
               IF h \in handlers' \ handlers
                 THEN IF kind[h] = "server" THEN "first" ELSE "run"
                 ELSE hpc[h]]
  /\ UNCHANGED <<kind, channels, history, lpc>>

(***************************************************************************)
(* Synurang_Stream_Send: find the stream, look at CloseSend under the      *)
(* mutex, then select with the mutex released.  A send on a channel that   *)
(* was closed meanwhile panics, and the panic is recovered.                *)
(***************************************************************************)
SendChecks(t) ==
  /\ At(t, "send") /\ In(t, "out")
  /\ IF on[t] \in registered \ closeSend
       THEN LGoto(t, "sending") /\ UNCHANGED vars
       ELSE SendReturns(t) /\ UNCHANGED lpc
  /\ UNCHANGED <<kind, channels, history, hpc>>

Sends(t) ==
  /\ In(t, "sending") /\ on[t] \notin closeSend /\ sendCh[on[t]] < Cap
  /\ sendCh' = Plus(sendCh, on[t])
  /\ owed' = Plus(owed, on[t])
  /\ SendReturns(t) /\ LGoto(t, "out")
  /\ UNCHANGED <<kind, recvCh, closeSend, closeRecv, errCh, seenEof, hpc>>

(* The deferred function reports 3; without it the result would be 0.      *)
BugRecovered(h) == owed' = Plus(owed, h)
Recovered(h) == UNCHANGED owed

SendPanics(t) ==
  /\ In(t, "sending") /\ on[t] \in closeSend
  /\ Recovered(on[t])
  /\ SendReturns(t) /\ LGoto(t, "out")
  /\ UNCHANGED <<kind, channels, seenEof, hpc>>

SendGivesUp(t) ==
  /\ In(t, "sending") /\ on[t] \notin live
  /\ SendReturns(t) /\ LGoto(t, "out")
  /\ UNCHANGED <<kind, channels, history, hpc>>

(* Synurang_Stream_CloseSend.                                              *)
HalfClose(t) ==
  /\ At(t, "half")
  /\ closeSend' = closeSend \cup ({on[t]} \cap registered)
  /\ SendReturns(t)
  /\ UNCHANGED <<kind, sendCh, recvCh, closeRecv, errCh, history, hpc, lpc>>

(***************************************************************************)
(* Synurang_Stream_Recv: what is buffered first, then an error, then wait  *)
(* for either or for the context, and after the context look for data once *)
(* more.  A closed channel leads to the error, if there is one.            *)
(***************************************************************************)
GotData(t) == recvMu' # recvMu
GotEnd(t)  == recvMu' = recvMu

Finish(t)  == RecvReturns(t) /\ GotEnd(t) /\ LGoto(t, "out")

TakeData(t) ==
  /\ recvCh[on[t]] > 0
  /\ recvCh' = Minus(recvCh, on[t])
  /\ RecvReturns(t) /\ GotData(t) /\ LGoto(t, "out")
  /\ UNCHANGED <<sendCh, closeSend, closeRecv, errCh>>

TakeError(t) ==
  /\ on[t] \in errCh
  /\ errCh' = errCh \ {on[t]}
  /\ Finish(t)
  /\ UNCHANGED <<sendCh, recvCh, closeSend, closeRecv>>

TakeClosed(t) ==
  /\ on[t] \in closeRecv /\ recvCh[on[t]] = 0
  /\ \/ TakeError(t)
     \/ on[t] \notin errCh /\ Finish(t) /\ UNCHANGED channels

Pass(t, l) == LGoto(t, l) /\ UNCHANGED <<vars, channels>>

RecvFirst(t) ==
  /\ At(t, "recv") /\ In(t, "out")
  /\ \/ on[t] \notin registered /\ Finish(t) /\ UNCHANGED channels
     \/ on[t] \in registered /\ (TakeData(t) \/ TakeClosed(t))
     \/ /\ on[t] \in registered /\ recvCh[on[t]] = 0 /\ on[t] \notin closeRecv
        /\ Pass(t, "second")
  /\ UNCHANGED <<kind, history, hpc>>

RecvSecond(t) ==
  /\ In(t, "second")
  /\ TakeError(t) \/ (on[t] \notin errCh /\ Pass(t, "third"))
  /\ UNCHANGED <<kind, history, hpc>>

RecvThird(t) ==
  /\ In(t, "third")
  /\ \/ TakeData(t) \/ TakeClosed(t) \/ TakeError(t)
     \/ on[t] \notin live /\ Pass(t, "last")
  /\ UNCHANGED <<kind, history, hpc>>

BugRecvLast(t) == Finish(t) /\ UNCHANGED channels
RecvLast(t) ==
  \/ TakeData(t)
  \/ recvCh[on[t]] = 0 /\ Finish(t) /\ UNCHANGED channels

RecvAfterDone(t) ==
  /\ In(t, "last")
  /\ RecvLast(t)
  /\ UNCHANGED <<kind, history, hpc>>

(***************************************************************************)
(* Synurang_Stream_Close: LoadAndDelete, Cancel, and the two channels.     *)
(***************************************************************************)
Closing(t) == pc[t] \in ClosePC
Host == <<closed, loaded, symbols, activeStreams, toClose, wg, objects, pc, on>>

Forget(t) ==
  /\ Closing(t) /\ In(t, "out")
  /\ registered' = registered \ {on[t]}
  /\ LGoto(t, "cancel")
  /\ UNCHANGED <<Host, live, handlers, kind, channels, history, hpc>>

CancelStream(t) ==
  /\ In(t, "cancel")
  /\ live' = live \ {on[t]}
  /\ LGoto(t, "closeSend")
  /\ UNCHANGED <<Host, registered, handlers, kind, channels, history, hpc>>

CloseSendCh(t) ==
  /\ In(t, "closeSend")
  /\ closeSend' = closeSend \cup {on[t]}
  /\ LGoto(t, "closeRecv")
  /\ UNCHANGED <<vars, kind, sendCh, recvCh, closeRecv, errCh, history, hpc>>

CloseRecvCh(t) ==
  /\ In(t, "closeRecv")
  /\ closeRecv' = closeRecv \cup {on[t]}
  /\ Undo(t) \/ StreamCloseReturns(t) \/ CloseOneReturns(t)
  /\ LGoto(t, "out")
  /\ UNCHANGED <<kind, sendCh, recvCh, closeSend, errCh, history, hpc>>

(***************************************************************************)
(* The goroutine of the handler.  A handler receives and sends as it likes *)
(* and returns when it likes; its deferred functions cancel the context    *)
(* and close RecvCh.                                                       *)
(***************************************************************************)
HostVars == <<Host, registered, lpc, kind>>

(* It receives a message, or the end, or finds the context cancelled.  The *)
(* wait of a server call for its request takes the end for a request.      *)
Receives(h, from) ==
  /\ hpc[h] = from
  /\ \/ /\ sendCh[h] > 0
        /\ sendCh' = Minus(sendCh, h) /\ owed' = Minus(owed, h)
        /\ HGoto(h, "run") /\ UNCHANGED seenEof
     \/ /\ sendCh[h] = 0 /\ h \in closeSend
        /\ seenEof' = seenEof \cup {h}
        /\ HGoto(h, "run") /\ UNCHANGED <<sendCh, owed>>
     \/ /\ h \notin live
        /\ HGoto(h, IF from = "first" THEN "cancel" ELSE "run")
        /\ UNCHANGED <<sendCh, owed, seenEof>>
  /\ UNCHANGED <<HostVars, live, handlers, recvCh, closeSend, closeRecv, errCh>>

(* A send on a RecvCh that Close has closed panics, which ends the handler *)
(* with an error; when the context is cancelled it may also fail.          *)
Produces(h, from, to) ==
  /\ hpc[h] = from
  /\ \/ /\ h \notin closeRecv /\ recvCh[h] < Cap
        /\ recvCh' = Plus(recvCh, h)
        /\ HGoto(h, to) /\ UNCHANGED errCh
     \/ /\ h \in closeRecv
        /\ errCh' = errCh \cup {h}
        /\ HGoto(h, "cancel") /\ UNCHANGED recvCh
     \/ /\ h \notin live
        /\ HGoto(h, to) /\ UNCHANGED <<recvCh, errCh>>
  /\ UNCHANGED <<HostVars, live, handlers, sendCh, closeSend, closeRecv, history>>

(* It returns: with an error, or without, a client call with its response. *)
HandlerEnds(h) ==
  /\ hpc[h] = "run"
  /\ \/ HGoto(h, IF kind[h] = "client" THEN "reply" ELSE "cancel") /\ UNCHANGED errCh
     \/ HGoto(h, "cancel") /\ errCh' = errCh \cup {h}
  /\ UNCHANGED <<HostVars, live, handlers, sendCh, recvCh, closeSend, closeRecv, history>>

BugHandlerCancel(h) == live' = live \ {h} /\ registered' = registered \ {h}
HandlerCancel(h) == live' = live \ {h} /\ UNCHANGED registered

HandlerCancels(h) ==
  /\ hpc[h] = "cancel"
  /\ HandlerCancel(h)
  /\ HGoto(h, "close")
  /\ UNCHANGED <<Host, lpc, kind, handlers, channels, history>>

HandlerExits(h) ==
  /\ hpc[h] = "close"
  /\ closeRecv' = closeRecv \cup {h}
  /\ HandlerReturns(h)
  /\ HGoto(h, "gone")
  /\ UNCHANGED <<kind, sendCh, recvCh, closeSend, errCh, history, lpc>>

---------------------------------------------------------------------------
InLibrary(t) ==
  \/ Open(t) \/ SendChecks(t) \/ Sends(t) \/ SendPanics(t) \/ SendGivesUp(t) \/ HalfClose(t)
  \/ RecvFirst(t) \/ RecvSecond(t) \/ RecvThird(t) \/ RecvAfterDone(t)
  \/ Forget(t) \/ CancelStream(t) \/ CloseSendCh(t) \/ CloseRecvCh(t)

Leaves(h) == Produces(h, "reply", "cancel") \/ HandlerCancels(h) \/ HandlerExits(h)

Handler(h) ==
  \/ Receives(h, "first") \/ (kind[h] # "server" /\ Receives(h, "run"))
  \/ Produces(h, "run", "run") \/ HandlerEnds(h) \/ Leaves(h)

LibNext == (\E t \in Threads : HostOnly(t) \/ InLibrary(t)) \/ (\E h \in Streams : Handler(h))

(* Every thread that is in a call goes on when it can, and so does the     *)
(* goroutine of a handler that has returned.                               *)
LibSpec ==
  /\ LibInit /\ [][LibNext]_allVars
  /\ \A t \in Threads : /\ WF_allVars(InLibrary(t))
                        /\ WF_allVars(Continue(t) /\ HostOnly(t))
  /\ \A h \in Streams : WF_allVars(Leaves(h))

---------------------------------------------------------------------------
(* The end that Recv reports of a stream that the host has not closed is   *)
(* the end: the handler has returned and everything that it sent has been  *)
(* received, also when its deferred Cancel is faster than the data         *)
(* (server.go:116, 191).                                                   *)
EofIsTheEnd ==
  [][\A t \in Threads :
       At(t, "recv") /\ pc'[t] = "recvErr" /\ errCh' = errCh /\ on[t] \in registered
         => recvCh[on[t]] = 0 /\ hpc[on[t]] \in {"close", "gone"}]_allVars

(* A handler that has seen the end of its messages has received every one  *)
(* that the host was told is sent, however Send, CloseSend and Close race  *)
(* (server.go:88, 208).                                                    *)
SentIsReceived == \A h \in seenEof : owed[h] = 0

(* The requests of each stream are a pipe: what the host was told is sent  *)
(* is what its handler will receive before it sees the end, and nothing is *)
(* reported as sent after that (server.go:88, 136-165, 208).               *)
Requests(h) == INSTANCE Pipe WITH
  waiting <- owed[h], shut <- h \in closeSend, failed <- FALSE,
  end <- IF h \in seenEof THEN "eof" ELSE "none"

ImplementsPipe ==
  /\ \A h \in Streams : Requests(h)!Init
  /\ [][\A h \in Streams : [Requests(h)!Next]_(Requests(h)!vars)]_allVars

(* To the host, a stream that Close is at work on is still there, and the  *)
(* context of a handler that is ending lives until its goroutine is gone.  *)
Known == registered \cup {on[t] : t \in {u \in Threads : pc[u] \in ClosePC}}

HostView == INSTANCE PluginHost WITH registered <- Known, live <- handlers \cap Known
(* The library does what PluginHost takes for granted of it.               *)
ImplementsHost == HostView!Init /\ [][HostView!Next]_HostView!vars
=============================================================================
