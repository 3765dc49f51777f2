--------------------------- MODULE StreamSession ---------------------------
(***************************************************************************)
(* One streaming session between Dart and Go: pkg/service/stream_handler.go. *)
(* Callers are the operating-system threads on which Dart calls the FFI    *)
(* exports (SendStreamData, CloseStreamInput, CloseStream, StreamReady);   *)
(* Routines are the goroutines that use the session on the Go side.  One   *)
(* of them, Main, runs the handler and closes the session when it returns. *)
(*                                                                         *)
(* A step of this module is what one thread does between two points where  *)
(* another thread can be seen: a critical section of session.mu, a channel *)
(* operation, the closing of a channel, or a callback into Dart.  The only *)
(* critical section with two visible steps is that of CloseStreamSession,  *)
(* so it alone holds mu across steps.                                      *)
(***************************************************************************)
EXTENDS Naturals, Sequences

CONSTANTS
  Callers,     \* threads that call the FFI exports
  Routines,    \* goroutines that share the session
  Main,        \* the goroutine of StartServerStream, -ClientStream, -BidiStream
  NoThread,    \* nobody holds the mutex
  Cap,         \* capacity of DataChan (100 in the code)
  MaxSend,     \* bound: calls of SendToStream by one caller
  MaxOut,      \* bound: callbacks after which a goroutine starts no new one
  HasTimeout   \* is defaultStreamTimeout greater than 0?

Threads == Callers \cup Routines

ASSUME SessionAssumption ==
  /\ Callers \cap Routines = {}
  /\ Main \in Routines
  /\ NoThread \notin Callers \cup Routines
  /\ Cap \in Nat \ {0}
  /\ MaxSend \in Nat
  /\ MaxOut \in Nat
  /\ HasTimeout \in BOOLEAN

VARIABLES
  inMap,        \* is the session in streamSessions?
  mu,           \* the thread inside the two-step critical section
  closed, inputClosed,
  dataClosed,   \* DataChan has been closed
  doneClosed,   \* DoneChan has been closed
  readyClosed,  \* ReadyChan has been closed
  buf,          \* contents of DataChan
  sendq,        \* callers parked in a send on the full DataChan, oldest first
  hasHeaders, headersSent, hasTrailers,
  out,          \* kinds of the callbacks made into Dart, in order
  rcvd,         \* messages the goroutines took from DataChan, in order
  issued,       \* number of calls of SendToStream each caller has made
  pc,           \* where each thread is
  crash         \* why the process died, or "none"

flags == <<closed, inputClosed, dataClosed, doneClosed>>
meta  == <<hasHeaders, headersSent, hasTrailers>>
vars  == <<inMap, mu, flags, readyClosed, buf, sendq, meta, out, rcvd, issued, pc, crash>>

SendPC  == {"snd1", "snd2", "parked"}
ClosePC == {"cls2", "cls3"}
EndPC   == {"trailer", "end", "error", "done"}
CallerPC  == {"idle", "inp", "rdy"} \cup SendPC \cup ClosePC
RoutinePC == {"idle", "await", "recv", "recvsel", "data", "half", "header", "exited"}
               \cup EndPC \cup ClosePC

MsgKind == {"data", "half", "header", "trailer", "end", "error"}
Crash   == {"none", "send on closed", "double close", "map race"}

(* The message of a caller's current call of SendToStream. *)
Msg(c) == <<c, issued[c]>>

Goto(t, l) == pc' = [pc EXCEPT ![t] = l]
At(t, l)   == crash = "none" /\ pc[t] = l
\* session.mu.Lock() succeeds
Lock == mu = NoThread

Init ==
  /\ inMap = TRUE /\ mu = NoThread
  /\ closed = FALSE /\ inputClosed = FALSE
  /\ dataClosed = FALSE /\ doneClosed = FALSE /\ readyClosed = FALSE
  /\ buf = <<>> /\ sendq = <<>>
  /\ hasHeaders = FALSE /\ headersSent = FALSE /\ hasTrailers = FALSE
  /\ out = <<>> /\ rcvd = <<>>
  /\ issued = [c \in Callers |-> 0]
  /\ pc = [t \in Threads |-> "idle"]
  /\ crash = "none"

(***************************************************************************)
(* Channels.  Closing a closed channel panics; closing DataChan makes every *)
(* sender parked on it panic; closing DoneChan wakes the parked senders    *)
(* through the other case of their select, and takes them off DataChan.    *)
(***************************************************************************)
CloseDataChan ==
  /\ dataClosed' = TRUE
  /\ sendq' = <<>>
  /\ crash' = IF dataClosed THEN "double close"
              ELSE IF sendq # <<>> THEN "send on closed" ELSE crash

(* Close the input unless it is closed already. *)
BugEnsureInputClosed == UNCHANGED <<inputClosed, dataClosed, sendq, crash>>
EnsureInputClosed ==
  IF inputClosed THEN UNCHANGED <<inputClosed, dataClosed, sendq, crash>>
  ELSE inputClosed' = TRUE /\ CloseDataChan

Parked == {sendq[i] : i \in DOMAIN sendq}

CloseDoneChan(t, l) ==
  /\ doneClosed' = TRUE
  /\ dataClosed' = dataClosed
  /\ sendq' = <<>>
  /\ crash' = IF doneClosed THEN "double close" ELSE crash
  /\ pc' = [u \in Threads |-> IF u = t THEN l
                              ELSE IF u \in Parked THEN "idle" ELSE pc[u]]

(***************************************************************************)
(* SendToStream: look the session up; check inputClosed under the mutex;   *)
(* then select between the send and DoneChan with the mutex released.      *)
(***************************************************************************)
SendLookup(c) ==
  /\ At(c, "idle") /\ issued[c] < MaxSend
  /\ issued' = [issued EXCEPT ![c] = @ + 1]
  /\ Goto(c, IF inMap THEN "snd1" ELSE "idle")
  /\ UNCHANGED <<inMap, mu, flags, readyClosed, buf, sendq, meta, out, rcvd, crash>>

SendCheck(c) ==
  /\ At(c, "snd1") /\ Lock
  /\ Goto(c, IF inputClosed THEN "idle" ELSE "snd2")
  /\ UNCHANGED <<inMap, mu, flags, readyClosed, buf, sendq, meta, out, rcvd, issued, crash>>

HasRoom == ~dataClosed /\ Len(buf) < Cap

(* The select; when several cases are ready the runtime picks any of them. *)
SendSelect(c) ==
  /\ At(c, "snd2")
  /\ \/ /\ HasRoom
        /\ buf' = Append(buf, Msg(c))
        /\ Goto(c, "idle")
        /\ UNCHANGED <<sendq, crash>>
     \/ /\ dataClosed
        /\ crash' = "send on closed"
        /\ UNCHANGED <<buf, sendq, pc>>
     \/ /\ doneClosed
        /\ Goto(c, "idle")
        /\ UNCHANGED <<buf, sendq, crash>>
     \/ /\ ~dataClosed /\ ~doneClosed /\ ~HasRoom
        /\ sendq' = Append(sendq, c)
        /\ Goto(c, "parked")
        /\ UNCHANGED <<buf, crash>>
  /\ UNCHANGED <<inMap, mu, flags, readyClosed, meta, out, rcvd, issued>>

(***************************************************************************)
(* CloseStreamInput and SignalStreamReady.                                 *)
(***************************************************************************)
Lookup(c, l) ==
  /\ At(c, "idle") /\ inMap
  /\ Goto(c, l)
  /\ UNCHANGED <<inMap, mu, flags, readyClosed, buf, sendq, meta, out, rcvd, issued, crash>>

CloseStreamInput(c) ==
  /\ At(c, "inp") /\ Lock
  /\ IF closed THEN UNCHANGED <<inputClosed, dataClosed, sendq, crash>>
               ELSE EnsureInputClosed
  /\ Goto(c, "idle")
  /\ UNCHANGED <<inMap, mu, closed, doneClosed, readyClosed, buf, meta, out, rcvd, issued>>

SignalStreamReady(c) ==
  /\ At(c, "rdy") /\ Lock
  /\ readyClosed' = TRUE
  /\ Goto(c, "idle")
  /\ UNCHANGED <<inMap, mu, flags, buf, sendq, meta, out, rcvd, issued, crash>>

(***************************************************************************)
(* CloseStreamSession, called by Dart (CloseStream) and by the goroutine   *)
(* of the handler when the handler returns.                                *)
(***************************************************************************)
After(t) == IF t \in Routines THEN "exited" ELSE "idle"

CloseUnmap(t) ==
  /\ At(t, "idle") /\ t \in Callers \cup {Main}
  /\ inMap' = FALSE
  /\ Goto(t, IF inMap THEN "cls2" ELSE After(t))
  /\ UNCHANGED <<mu, flags, readyClosed, buf, sendq, meta, out, rcvd, issued, crash>>

(* The channel that is closed first. *)
CloseFirst(t)    == CloseDoneChan(t, "cls3")

CloseDone(t) ==
  /\ At(t, "cls2") /\ Lock
  /\ IF closed
       THEN /\ Goto(t, After(t))
            /\ UNCHANGED <<mu, closed, doneClosed, dataClosed, sendq, crash>>
       ELSE /\ closed' = TRUE /\ mu' = t
            /\ CloseFirst(t)
  /\ UNCHANGED <<inMap, inputClosed, readyClosed, buf, meta, out, rcvd, issued>>

BugUnlock == mu' = mu
Unlock == mu' = NoThread

BugCloseData(t) ==
  /\ At(t, "cls3") /\ mu = t
  /\ Unlock /\ Goto(t, After(t))
  /\ UNCHANGED <<inMap, flags, readyClosed, buf, sendq, meta, out, rcvd, issued, crash>>
CloseData(t) ==
  /\ At(t, "cls3") /\ mu = t
  /\ Unlock
  /\ EnsureInputClosed
  /\ Goto(t, After(t))
  /\ UNCHANGED <<inMap, closed, doneClosed, readyClosed, buf, meta, out, rcvd, issued>>

(***************************************************************************)
(* The Go side.  Starting an operation is a choice of the handler.         *)
(***************************************************************************)
Start(r, l) ==
  /\ At(r, "idle")
  /\ Goto(r, l)
  /\ UNCHANGED <<inMap, mu, flags, readyClosed, buf, sendq, meta, out, rcvd, issued, crash>>

WaitForReady(r) ==
  /\ At(r, "await")
  /\ readyClosed \/ doneClosed \/ HasTimeout
  /\ Goto(r, "idle")
  /\ UNCHANGED <<inMap, mu, flags, readyClosed, buf, sendq, meta, out, rcvd, issued, crash>>

(* A receive from DataChan; it makes room for the sender parked longest. *)
Recv(r) ==
  /\ At(r, "recv") \/ At(r, "recvsel")
  /\ buf # <<>>
  /\ rcvd' = Append(rcvd, Head(buf))
  /\ IF sendq = <<>>
       THEN buf' = Tail(buf) /\ sendq' = sendq /\ Goto(r, "idle")
       ELSE /\ buf' = Append(Tail(buf), Msg(Head(sendq)))
            /\ sendq' = Tail(sendq)
            /\ pc' = [pc EXCEPT ![r] = "idle", ![Head(sendq)] = "idle"]
  /\ UNCHANGED <<inMap, mu, flags, readyClosed, meta, out, issued, crash>>

(* The end of the input, or the DoneChan case of a handler that selects. *)
RecvEnd(r) ==
  /\ \/ (At(r, "recv") \/ At(r, "recvsel")) /\ dataClosed /\ buf = <<>>
     \/ At(r, "recvsel") /\ doneClosed
  /\ Goto(r, "idle")
  /\ UNCHANGED <<inMap, mu, flags, readyClosed, buf, sendq, meta, out, rcvd, issued, crash>>

(* The timer in the select of a goroutine of server.go that collects what  *)
(* Dart sends.                                                             *)
GiveUp(r) ==
  /\ At(r, "recv") \/ At(r, "recvsel")
  /\ Goto(r, "idle")
  /\ UNCHANGED <<inMap, mu, flags, readyClosed, buf, sendq, meta, out, rcvd, issued, crash>>

(* SendFromStream, SendFromStreamFfi ("data") and CloseSend ("half"): they *)
(* check closed under the mutex and call back after releasing it.          *)
BugOpenToSend == TRUE
OpenToSend == ~closed

SendFromStream(r, l) ==
  /\ At(r, "idle") /\ Lock /\ Len(out) < MaxOut
  /\ OpenToSend
  /\ Goto(r, l)
  /\ UNCHANGED <<inMap, mu, flags, readyClosed, buf, sendq, meta, out, rcvd, issued, crash>>

HeadersDue == ~headersSent

SendHeader(r) ==
  /\ At(r, "idle") /\ Lock /\ HeadersDue
  /\ headersSent' = TRUE
  /\ Goto(r, IF hasHeaders THEN "header" ELSE "idle")
  /\ UNCHANGED <<inMap, mu, flags, readyClosed, buf, sendq, hasHeaders, hasTrailers,
                 out, rcvd, issued, crash>>

(* The callback into Dart; it is posted to the main isolate and returns. *)
Callback(r, l, next) ==
  /\ At(r, l)
  /\ out' = Append(out, l)
  /\ Goto(r, next)
  /\ UNCHANGED <<inMap, mu, flags, readyClosed, buf, sendq, meta, rcvd, issued, crash>>

(* SetHeader and SetTrailer write a map under the mutex; SendHeader and    *)
(* EndStream range over the same map without it, which the Go runtime may  *)
(* detect and abort the process for.                                       *)
MayRace(l) == crash' \in {crash} \cup {"map race" : u \in {v \in Routines : pc[v] = l}}

SetHeader(r) ==
  /\ At(r, "idle") /\ Lock
  /\ hasHeaders' = TRUE
  /\ MayRace("header")
  /\ UNCHANGED <<inMap, mu, flags, readyClosed, buf, sendq, headersSent, hasTrailers,
                 out, rcvd, issued, pc>>

SetTrailer(r) ==
  /\ At(r, "idle") /\ Lock
  /\ hasTrailers' = TRUE
  /\ MayRace("trailer")
  /\ UNCHANGED <<inMap, mu, flags, readyClosed, buf, sendq, hasHeaders, headersSent,
                 out, rcvd, issued, pc>>

(* EndStream and ErrorStream up to the unlock: mark the session closed and *)
(* close the input, DoneChan last of all, after the callbacks.             *)
BugNotFinished == TRUE
NotFinished == ~closed

Finish(r, l) ==
  /\ At(r, "idle") /\ Lock /\ NotFinished
  /\ closed' = TRUE
  /\ EnsureInputClosed
  /\ Goto(r, l)
  /\ UNCHANGED <<inMap, mu, doneClosed, readyClosed, buf, meta, out, rcvd, issued>>

EndStream(r)   == Finish(r, IF hasTrailers THEN "trailer" ELSE "end")
ErrorStream(r) == Finish(r, "error")

CloseDoneLast(r) ==
  /\ At(r, "done")
  /\ CloseDoneChan(r, "idle")
  /\ UNCHANGED <<inMap, mu, closed, inputClosed, readyClosed, buf, meta, out, rcvd, issued>>

(***************************************************************************)
(* The next-state relation.  Continue(t) is thread t going on with the     *)
(* operation it is in, Begin(t) its choice of the next operation.          *)
(***************************************************************************)
Continue(t) ==
  \/ CloseDone(t) \/ CloseData(t)
  \/ t \in Callers /\ \/ SendCheck(t) \/ SendSelect(t)
                      \/ CloseStreamInput(t) \/ SignalStreamReady(t)
  \/ t \in Routines /\ \/ WaitForReady(t) \/ Recv(t) \/ RecvEnd(t) \/ CloseDoneLast(t)
                       \/ \E l \in {"data", "half", "header"} : Callback(t, l, "idle")
                       \/ Callback(t, "trailer", "end")
                       \/ \E l \in {"end", "error"} : Callback(t, l, "done")

Begin(t) ==
  \/ CloseUnmap(t)
  \/ t \in Callers /\ (SendLookup(t) \/ Lookup(t, "inp") \/ Lookup(t, "rdy"))
  \/ t \in Routines /\ \/ \E l \in {"await", "recv", "recvsel"} : Start(t, l)
                       \/ \E l \in {"data", "half"} : SendFromStream(t, l)
                       \/ GiveUp(t)
                       \/ SendHeader(t) \/ SetHeader(t) \/ SetTrailer(t)
                       \/ EndStream(t) \/ ErrorStream(t)

Next == \E t \in Threads : Continue(t) \/ Begin(t)

(* The scheduler runs every goroutine and thread that can go on; nothing   *)
(* makes a thread begin another operation, or give one up.                 *)
Fairness == \A t \in Threads : WF_vars(Continue(t))

Spec == Init /\ [][Next]_vars /\ Fairness

---------------------------------------------------------------------------
TypeOK ==
  /\ inMap \in BOOLEAN
  /\ mu \in Threads \cup {NoThread}
  /\ closed \in BOOLEAN /\ inputClosed \in BOOLEAN
  /\ dataClosed \in BOOLEAN /\ doneClosed \in BOOLEAN /\ readyClosed \in BOOLEAN
  /\ buf \in Seq(Callers \X Nat) /\ Len(buf) <= Cap
  /\ sendq \in Seq(Callers)
  /\ hasHeaders \in BOOLEAN /\ headersSent \in BOOLEAN /\ hasTrailers \in BOOLEAN
  /\ out \in Seq(MsgKind)
  /\ rcvd \in Seq(Callers \X Nat)
  /\ issued \in [Callers -> Nat]
  /\ pc \in [Threads -> CallerPC \cup RoutinePC]
  /\ crash \in Crash

(* No interleaving of CloseStreamSession, CloseStreamInput, EndStream and  *)
(* ErrorStream closes DataChan or DoneChan twice, which would panic.       *)
NoDoubleClose == crash # "double close"

(* A goroutine or sender that sees DoneChan closed finds the input closed  *)
(* as well or a thread holding the mutex that is about to close it.        *)
DoneImpliesInputClosed == doneClosed => closed /\ (dataClosed \/ mu # NoThread)

(* The messages of one caller reach the Go side in the order of its calls  *)
(* and without a gap, none of them twice: after a send that failed none    *)
(* succeeds (stream_handler.go:181-200).                                   *)
Accepted == rcvd \o buf
NoGap ==
  \A i \in DOMAIN Accepted : LET c == Accepted[i][1] k == Accepted[i][2] IN
    /\ k = 1 \/ \E j \in 1..(i - 1) : Accepted[j] = <<c, k - 1>>
    /\ \A j \in 1..(i - 1) : Accepted[j] # <<c, k>>

(* The stream is ended towards Dart at most once by EndStream and          *)
(* ErrorStream, and trailers are sent only before the end they belong to   *)
(* (stream_handler.go:385-435).                                            *)
Terminal == {"end", "error"}
OneTerminal ==
  \A i, j \in DOMAIN out :
    /\ out[i] \in Terminal /\ out[j] \in Terminal => i = j
    /\ out[i] = "trailer" /\ out[j] \in Terminal => i < j /\ out[j] = "end"

(* DoneChan of a session that was not removed is closed only after Dart    *)
(* has been sent the end or the error.                                     *)
DoneAfterTerminal == doneClosed /\ inMap => \E i \in DOMAIN out : out[i] \in Terminal

(* A handler that is one goroutine never sends data after the end.         *)
NoDataAfterTerminal ==
  \A i, j \in DOMAIN out : out[i] \in Terminal /\ out[j] \in {"data", "half"} => j < i

(* Headers go out at most once, whichever goroutines call SendHeader.      *)
HeadersOnce == \A i, j \in DOMAIN out : out[i] = "header" /\ out[j] = "header" => i = j

(* "Also ensure DataChan is closed so readers don't block forever"         *)
(* (stream_handler.go:152): once the session is closed every goroutine     *)
(* that waits in a receive or in WaitForReady goes on.                     *)
Waiting == {"await", "recv", "recvsel"}
ReadersReleased ==
  \A r \in Routines :
    closed /\ pc[r] \in Waiting ~> pc[r] \notin Waiting \/ crash # "none"

(* Once the session is closed no call of SendToStream blocks its caller,   *)
(* which is the Dart main isolate.                                         *)
SendersReleased ==
  \A c \in Callers : closed /\ pc[c] \in SendPC ~> pc[c] = "idle" \/ crash # "none"

(* No wake-up is lost: a sender that sleeps is in the queue of a channel   *)
(* that is full and open, and DoneChan is open, so that each event it      *)
(* sleeps for is still to come (stream_handler.go:181-200).                *)
ParkedForRoom ==
  crash = "none" =>
    \A c \in Callers : pc[c] = "parked" =>
      c \in Parked /\ Len(buf) = Cap /\ ~dataClosed /\ ~doneClosed

(* README.md:329, "Thread-safe: Isolates and goroutines managed            *)
(* automatically": no legal use of a session takes the process down.       *)
NeverCrashes == crash = "none"
============================================================================
