----------------------------- MODULE PluginHost -----------------------------
(***************************************************************************)
(* The host side of a shared-library plugin: Plugin of                     *)
(* pkg/synurang/plugin.go and the PluginStream of plugin_conn.go that      *)
(* wraps its streams.  Threads are the goroutines of the host; each runs   *)
(* one operation at a time.  withContext of plugin_conn.go makes no state  *)
(* of its own: the operation that it runs in the background and the Close  *)
(* of the caller whose context ended are operations of two threads.        *)
(*                                                                         *)
(* A step is one critical section of p.mu, one operation on sendMu, recvMu *)
(* or closed, or one call into the library.  What happens inside a call is *)
(* abstracted: a stream of the library is open or not, its context is      *)
(* cancelled or not, and its handler goroutine runs or has returned.       *)
(***************************************************************************)
EXTENDS Naturals, FiniteSets

CONSTANTS
  Threads,
  Streams,     \* stream handles, those that the library may hand out
  NoStream

ASSUME PluginAssumption == NoStream \notin Streams

VARIABLES
  closed, loaded,          \* p.closed, and p.handle # 0
  invokers, openers,       \* the symbols of the service are cached
  activeStreams,           \* p.activeStreams
  toClose,                 \* handles that Close has still to close
  wg,                      \* what each thread has added to p.wg and not yet taken off
  opened,                  \* streams that OpenStream has returned
  streamClosed,            \* streams whose PluginStream.closed is set
  sendMu, recvMu,          \* streams whose mutex is held
  pc, on,                  \* where each thread is, and the stream it works on
  registered,              \* the streams known to the library
  live,                    \* streams whose context is not cancelled
  handlers                 \* streams whose handler goroutine runs

symbols == <<invokers, openers>>
objects == <<opened, streamClosed, sendMu, recvMu>>
library == <<registered, live, handlers>>
vars == <<closed, loaded, symbols, activeStreams, toClose, wg, objects, pc, on, library>>

(* Where a thread is inside the library. *)
ClosePC == {"sclose", "rclose", "undo", "closing"}
Inside == {"invoke", "open", "send", "half", "recv"} \cup ClosePC

At(t, l) == pc[t] = l
Goto(t, l, h) == pc' = [pc EXCEPT ![t] = l] /\ on' = [on EXCEPT ![t] = h]
Stay(t, l) == Goto(t, l, on[t])
Return(t) == Goto(t, "idle", NoStream)

Add(t)  == wg' = [wg EXCEPT ![t] = @ + 1]
DoneWg(t) == wg' = [wg EXCEPT ![t] = @ - 1]

Init ==
  /\ closed = FALSE /\ loaded = TRUE
  /\ invokers = FALSE /\ openers = FALSE
  /\ activeStreams = {} /\ toClose = {}
  /\ wg = [t \in Threads |-> 0]
  /\ opened = {} /\ streamClosed = {} /\ sendMu = {} /\ recvMu = {}
  /\ pc = [t \in Threads |-> "idle"] /\ on = [t \in Threads |-> NoStream]
  /\ registered = {} /\ live = {} /\ handlers = {}

(***************************************************************************)
(* Invoke and OpenStream: check closed and join wg; get the symbol, which  *)
(* looks at closed again unless it is cached and fails when the library    *)
(* does not export it; call the library.                                   *)
(***************************************************************************)
Enter(t, l)    == Stay(t, l) /\ Add(t)

Begin(t, l) ==
  /\ At(t, "idle") /\ ~closed
  /\ Enter(t, l)
  /\ UNCHANGED <<closed, loaded, symbols, activeStreams, toClose, objects, library>>

Usable == ~closed /\ loaded

GetInvoker(t) ==
  /\ At(t, "getInvoker")
  /\ \/ /\ invokers \/ Usable
        /\ invokers' = TRUE
        /\ Stay(t, "invoke") /\ UNCHANGED wg
     \/ /\ ~invokers
        /\ Return(t) /\ DoneWg(t) /\ UNCHANGED invokers
  /\ UNCHANGED <<closed, loaded, openers, activeStreams, toClose, objects, library>>

InvokeReturns(t) ==
  /\ At(t, "invoke")
  /\ Return(t) /\ DoneWg(t)
  /\ UNCHANGED <<closed, loaded, symbols, activeStreams, toClose, objects, library>>

GetStreamOpener(t) ==
  /\ At(t, "getStreamOpener")
  /\ \/ /\ openers \/ Usable
        /\ openers' = TRUE
        /\ Stay(t, "open") /\ UNCHANGED wg
     \/ /\ ~openers
        /\ Return(t) /\ DoneWg(t) /\ UNCHANGED openers
  /\ UNCHANGED <<closed, loaded, invokers, activeStreams, toClose, objects, library>>

(* Synurang_Stream_<Service>_Open starts the goroutine of the handler; or  *)
(* it fails and returns 0.                                                 *)
OpenReturns(t) ==
  /\ At(t, "open")
  /\ \/ /\ \E h \in Streams \ (registered \cup opened \cup handlers) :
             /\ registered' = registered \cup {h} /\ live' = live \cup {h}
             /\ handlers' = handlers \cup {h}
             /\ Goto(t, "track", h)
        /\ UNCHANGED wg
     \/ /\ Return(t) /\ DoneWg(t)
        /\ UNCHANGED library
  /\ UNCHANGED <<closed, loaded, symbols, activeStreams, toClose, objects>>

BugTooLate == FALSE
TooLate == closed

Track(t) ==
  /\ At(t, "track")
  /\ IF TooLate
       THEN /\ Add(t) /\ Stay(t, "undo")
            /\ UNCHANGED <<activeStreams, opened>>
       ELSE /\ activeStreams' = activeStreams \cup {on[t]}
            /\ opened' = opened \cup {on[t]}
            /\ DoneWg(t) /\ Return(t)
  /\ UNCHANGED <<closed, loaded, symbols, toClose, streamClosed, sendMu, recvMu, library>>

(***************************************************************************)
(* Synurang_Stream_Close: forget the stream, cancel its context and close  *)
(* its channels.  The handler is told, it is not waited for.               *)
(***************************************************************************)
LibraryClose(h) ==
  /\ registered' = registered \ {h}
  /\ live' = live \ {h}
  /\ handlers' = handlers

Undo(t) ==
  /\ At(t, "undo")
  /\ LibraryClose(on[t])
  /\ wg' = [wg EXCEPT ![t] = @ - 2]
  /\ Return(t)
  /\ UNCHANGED <<closed, loaded, symbols, activeStreams, toClose, objects>>

(***************************************************************************)
(* Send, CloseSend and Recv of PluginStream: the mutex, closed, and then   *)
(* acquireForStreamOp.                                                     *)
(***************************************************************************)
StartSend(t, h, l) ==
  /\ At(t, "idle") /\ h \in opened \ (sendMu \cup streamClosed)
  /\ sendMu' = sendMu \cup {h}
  /\ Goto(t, l, h)
  /\ UNCHANGED <<closed, loaded, symbols, activeStreams, toClose, wg, opened, streamClosed,
                 recvMu, library>>

StartRecv(t, h) ==
  /\ At(t, "idle") /\ h \in opened \ (recvMu \cup streamClosed)
  /\ recvMu' = recvMu \cup {h}
  /\ Goto(t, "acqRecv", h)
  /\ UNCHANGED <<closed, loaded, symbols, activeStreams, toClose, wg, opened, streamClosed,
                 sendMu, library>>

AcquireSend(t, from, to) ==
  /\ At(t, from)
  /\ IF closed
       THEN /\ sendMu' = sendMu \ {on[t]}
            /\ Return(t) /\ UNCHANGED wg
       ELSE Enter(t, to) /\ UNCHANGED sendMu
  /\ UNCHANGED <<closed, loaded, symbols, activeStreams, toClose, opened, streamClosed,
                 recvMu, library>>

AcquireRecv(t) ==
  /\ At(t, "acqRecv")
  /\ IF closed THEN Stay(t, "recvErr") /\ UNCHANGED wg
               ELSE Enter(t, "recv")
  /\ UNCHANGED <<closed, loaded, symbols, activeStreams, toClose, objects, library>>

(* A send returns when there is room or the stream has ended, a half-close *)
(* at once; both release sendMu.                                           *)
SendReturns(t) ==
  /\ At(t, "send") \/ At(t, "half")
  /\ sendMu' = sendMu \ {on[t]}
  /\ DoneWg(t) /\ Return(t)
  /\ UNCHANGED <<closed, loaded, symbols, activeStreams, toClose, opened, streamClosed,
                 recvMu, library>>

(* A receive returns data while the handler runs, and also later what is   *)
(* buffered, or an error or the end, after which the stream is closed.     *)
RecvReturns(t) ==
  /\ At(t, "recv")
  /\ DoneWg(t)
  /\ \/ recvMu' = recvMu \ {on[t]} /\ Return(t)
     \/ recvMu' = recvMu /\ Stay(t, "recvErr")
  /\ UNCHANGED <<closed, loaded, symbols, activeStreams, toClose, opened, streamClosed,
                 sendMu, library>>

(***************************************************************************)
(* closeInternal, from Recv ("recvErr", with recvMu held) or from Close of *)
(* the stream: swap closed, then Plugin.StreamClose, then the library.     *)
(***************************************************************************)
Release(t) == recvMu' = IF At(t, "swapped") \/ At(t, "sclose") THEN recvMu ELSE recvMu \ {on[t]}

CloseStream(t, h) ==
  /\ At(t, "idle") /\ h \in opened \ streamClosed
  /\ streamClosed' = streamClosed \cup {h}
  /\ Goto(t, "swapped", h)
  /\ UNCHANGED <<closed, loaded, symbols, activeStreams, toClose, wg, opened, sendMu, recvMu, library>>

RecvFails(t) ==
  /\ At(t, "recvErr")
  /\ streamClosed' = streamClosed \cup {on[t]}
  /\ IF on[t] \in streamClosed
       THEN recvMu' = recvMu \ {on[t]} /\ Return(t)
       ELSE recvMu' = recvMu /\ Stay(t, "recvSwapped")
  /\ UNCHANGED <<closed, loaded, symbols, activeStreams, toClose, wg, opened, sendMu, library>>

Closable(h) == ~closed /\ loaded /\ h \in activeStreams

StreamClose(t) ==
  /\ At(t, "swapped") \/ At(t, "recvSwapped")
  /\ IF Closable(on[t])
       THEN /\ activeStreams' = activeStreams \ {on[t]}
            /\ Enter(t, IF At(t, "swapped") THEN "sclose" ELSE "rclose")
            /\ UNCHANGED recvMu
       ELSE Release(t) /\ Return(t) /\ UNCHANGED <<activeStreams, wg>>
  /\ UNCHANGED <<closed, loaded, symbols, toClose, opened, streamClosed, sendMu, library>>

StreamCloseReturns(t) ==
  /\ At(t, "sclose") \/ At(t, "rclose")
  /\ LibraryClose(on[t])
  /\ Release(t) /\ DoneWg(t) /\ Return(t)
  /\ UNCHANGED <<closed, loaded, symbols, activeStreams, toClose, opened, streamClosed, sendMu>>

(***************************************************************************)
(* Close of the plugin: take the active streams, close them one by one,    *)
(* wait for every call, unload.                                            *)
(***************************************************************************)
BugToClose == toClose
ToClose == activeStreams

ClosePlugin(t) ==
  /\ At(t, "idle") /\ ~closed
  /\ closed' = TRUE
  /\ toClose' = ToClose
  /\ activeStreams' = {}
  /\ Stay(t, "collect")
  /\ UNCHANGED <<loaded, symbols, wg, objects, library>>

CloseNext(t) ==
  /\ At(t, "collect")
  /\ IF toClose = {}
       THEN Stay(t, "wait") /\ UNCHANGED <<toClose, wg>>
       ELSE \E h \in toClose :
              /\ toClose' = toClose \ {h}
              /\ Goto(t, "closing", h) /\ Add(t)
  /\ UNCHANGED <<closed, loaded, symbols, activeStreams, objects, library>>

CloseOneReturns(t) ==
  /\ At(t, "closing")
  /\ LibraryClose(on[t])
  /\ DoneWg(t) /\ Goto(t, "collect", NoStream)
  /\ UNCHANGED <<closed, loaded, symbols, activeStreams, toClose, objects>>

BugAllDone == \A u \in Threads : pc[u] # "recv"
AllDone == \A u \in Threads : wg[u] = 0

Unload(t) ==
  /\ At(t, "wait") /\ AllDone
  /\ loaded' = FALSE
  /\ Return(t)
  /\ UNCHANGED <<closed, symbols, activeStreams, toClose, wg, objects, library>>

(* The handler returns in the library when it likes; its deferred Cancel   *)
(* ends the stream.                                                        *)
HandlerReturns(h) ==
  /\ h \in handlers
  /\ handlers' = handlers \ {h}
  /\ live' = live \ {h}
  /\ UNCHANGED <<closed, loaded, symbols, activeStreams, toClose, wg, objects, pc, on, registered>>

---------------------------------------------------------------------------
Continue(t) ==
  \/ GetInvoker(t) \/ InvokeReturns(t)
  \/ GetStreamOpener(t) \/ OpenReturns(t) \/ Track(t) \/ Undo(t)
  \/ AcquireSend(t, "acqSend", "send") \/ AcquireSend(t, "acqHalf", "half")
  \/ AcquireRecv(t) \/ (At(t, "half") /\ SendReturns(t))
  \/ RecvFails(t) \/ StreamClose(t) \/ StreamCloseReturns(t)
  \/ CloseNext(t) \/ CloseOneReturns(t) \/ Unload(t)

Start(t) ==
  \/ Begin(t, "getInvoker") \/ Begin(t, "getStreamOpener")
  \/ \E h \in Streams : \/ StartSend(t, h, "acqSend") \/ StartSend(t, h, "acqHalf")
                        \/ StartRecv(t, h) \/ CloseStream(t, h)
  \/ ClosePlugin(t)

Next ==
  \/ \E t \in Threads : Continue(t) \/ Start(t) \/ SendReturns(t) \/ RecvReturns(t)
  \/ \E h \in Streams : HandlerReturns(h)

(* A send or a receive that waits in the library is released when the      *)
(* context of its stream is cancelled, and by nothing else for certain.    *)
Released(t) == on[t] \notin live /\ (SendReturns(t) \/ RecvReturns(t))

Fairness == \A t \in Threads : WF_vars(Continue(t)) /\ WF_vars(Released(t))

Spec == Init /\ [][Next]_vars /\ Fairness

PC == {"idle", "getInvoker", "getStreamOpener", "track", "acqSend", "acqHalf", "acqRecv",
       "recvErr", "swapped", "recvSwapped", "collect", "wait"} \cup Inside

TypeOK ==
  /\ closed \in BOOLEAN /\ loaded \in BOOLEAN
  /\ invokers \in BOOLEAN /\ openers \in BOOLEAN
  /\ activeStreams \subseteq Streams /\ toClose \subseteq Streams
  /\ wg \in [Threads -> 0..2]
  /\ opened \subseteq Streams /\ streamClosed \subseteq opened
  /\ sendMu \subseteq opened /\ recvMu \subseteq opened
  /\ pc \in [Threads -> PC] /\ on \in [Threads -> Streams \cup {NoStream}]
  /\ registered \subseteq Streams /\ live \subseteq Streams /\ handlers \subseteq Streams

(* "ensure no code is executing in the shared library when it is unloaded" *)
(* (plugin.go:64): no call of the host is in an unloaded library.          *)
NoCallAfterUnload == \A t \in Threads : pc[t] \in Inside => loaded

(* "Clear activeStreams to prevent double-close from concurrent            *)
(* closeInternal()" (plugin.go:134): the library is asked to close a       *)
(* stream at most once.                                                    *)
ClosedOnce ==
  \A t \in Threads : pc[t] \in ClosePC =>
    /\ on[t] \in registered
    /\ \A u \in Threads \ {t} : pc[u] \in ClosePC => on[u] # on[t]

(* Unloading leaves no stream open in the library, however OpenStream,     *)
(* Recv and Close of a stream interleave with Close of the plugin.         *)
AllStreamsClosed == ~loaded => registered = {}

(* Close of the plugin returns: it cancels every stream that a Send or a   *)
(* Recv could be waiting on (unary calls are assumed to return).           *)
CloseReturns == closed ~> ~loaded

(* "no thread is executing inside the shared library when we unload it"    *)
(* (plugin.go:157), the goroutines that run the handlers included.         *)
NoHandlerAfterUnload == ~loaded => handlers = {}
=============================================================================
