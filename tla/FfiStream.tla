----------------------------- MODULE FfiStream -----------------------------
(***************************************************************************)
(* One zero-copy stream of pkg/synurang/synurang.go: an ffiClientStream    *)
(* and its ffiServerStream, joined by two buffered channels, an error      *)
(* channel and a context.  Senders and one receiver are the goroutines of  *)
(* the client; the handler is the goroutine that newFfiClientStream        *)
(* starts; anybody may cancel the context that the client passed in.       *)
(*                                                                         *)
(* A channel is first-in first-out, so the messages of a direction are     *)
(* numbered as they are accepted and a channel is a pair of counters:      *)
(* sendCh holds the messages taken+1..acked and recvCh got+1..sent.        *)
(***************************************************************************)
EXTENDS Naturals

CONSTANTS
  Senders,    \* goroutines that call SendMsg on the client stream
  Cap,        \* capacity of sendCh and recvCh (16 in the code)
  MaxUp,      \* bound: messages accepted by sendCh
  MaxDown     \* bound: messages accepted by recvCh

ASSUME StreamAssumption ==
  /\ Cap \in Nat \ {0}
  /\ MaxUp \in Nat /\ MaxDown \in Nat

VARIABLES
  closed,       \* the client has called CloseSend; sendCh is closed
  ctxDone,      \* the context is cancelled
  acked, taken, \* messages that entered and left sendCh
  sent, got,    \* messages that entered and left recvCh
  errHeld,      \* errCh holds the error of the handler
  errClosed, recvClosed,
  streamErr,    \* the client has stored the error
  spc,          \* where each sender is: "idle" or in the select of SendMsg
  cpc,          \* where the receiver is: "idle" or in a phase of RecvMsg
  last,         \* what the last RecvMsg of the client returned
  hpc,          \* where the handler's goroutine is
  failed,       \* the handler returned an error
  drained       \* RecvMsg of the handler has returned io.EOF

up   == <<closed, acked, taken, drained>>
down == <<sent, got, errHeld, errClosed, recvClosed, streamErr>>
vars == <<up, down, ctxDone, spc, cpc, last, hpc, failed>>

Init ==
  /\ closed = FALSE /\ ctxDone = FALSE
  /\ acked = 0 /\ taken = 0 /\ sent = 0 /\ got = 0
  /\ errHeld = FALSE /\ errClosed = FALSE /\ recvClosed = FALSE
  /\ streamErr = FALSE
  /\ spc = [s \in Senders |-> "idle"]
  /\ cpc = "idle" /\ last = "none"
  /\ hpc = "run" /\ failed = FALSE /\ drained = FALSE

Cancel ==
  /\ ~ctxDone
  /\ ctxDone' = TRUE
  /\ UNCHANGED <<up, down, spc, cpc, last, hpc, failed>>

(***************************************************************************)
(* SendMsg of the client: the check of closed, then the select.  A send on *)
(* the channel that CloseSend has closed meanwhile panics; SendMsg         *)
(* recovers and returns an error.                                          *)
(***************************************************************************)
SendMsg(s) ==
  /\ spc[s] = "idle" /\ ~closed /\ acked < MaxUp
  /\ spc' = [spc EXCEPT ![s] = "send"]
  /\ UNCHANGED <<up, down, ctxDone, cpc, last, hpc, failed>>

Room(n) == n < Cap

Accepts == ~closed /\ Room(acked - taken)

BugGiveUp == closed
GiveUp == closed \/ ctxDone

SendSelect(s) ==
  /\ spc[s] = "send"
  /\ \/ Accepts /\ acked' = acked + 1
     \/ GiveUp /\ acked' = acked
  /\ spc' = [spc EXCEPT ![s] = "idle"]
  /\ UNCHANGED <<closed, taken, drained, down, ctxDone, cpc, last, hpc, failed>>

CloseSend ==
  /\ \/ cpc = "idle"
     \/ \E s \in Senders : spc[s] = "idle"
  /\ closed' = TRUE
  /\ UNCHANGED <<acked, taken, drained, down, ctxDone, spc, cpc, last, hpc, failed>>

(***************************************************************************)
(* RecvMsg of the client: the stored error, then phase 1, a receive from   *)
(* recvCh that does not wait, then phase 2, a select over everything.      *)
(***************************************************************************)
Returns(r) == cpc' = "idle" /\ last' = r

RecvMsg ==
  /\ cpc = "idle"
  /\ IF streamErr THEN Returns("error") ELSE cpc' = "first" /\ last' = last
  /\ UNCHANGED <<up, down, ctxDone, spc, hpc, failed>>

(* What both phases do with recvCh: a message, or, once it is closed and   *)
(* empty, the error of the handler or else io.EOF.                         *)
TakeError == errHeld' = FALSE /\ streamErr' = TRUE /\ Returns("error")

RecvData ==
  /\ got < sent
  /\ got' = got + 1
  /\ Returns("data")
  /\ UNCHANGED <<sent, errHeld, errClosed, recvClosed, streamErr>>

BugRecvClosed ==
  /\ got = sent /\ recvClosed
  /\ Returns("eof")
  /\ UNCHANGED down
RecvClosed ==
  /\ got = sent /\ recvClosed
  /\ IF errHeld THEN TakeError
                ELSE Returns("eof") /\ UNCHANGED <<errHeld, streamErr>>
  /\ UNCHANGED <<sent, got, errClosed, recvClosed>>

First ==
  /\ cpc = "first"
  /\ \/ RecvData
     \/ RecvClosed
     \/ got = sent /\ ~recvClosed /\ cpc' = "second" /\ UNCHANGED <<last, down>>
  /\ UNCHANGED <<up, ctxDone, spc, hpc, failed>>

TakeErrorNow == TakeError

Second ==
  /\ cpc = "second"
  /\ \/ RecvData
     \/ RecvClosed
     \/ ctxDone /\ Returns("ctx") /\ UNCHANGED down
     \/ /\ errHeld
        /\ TakeErrorNow
        /\ UNCHANGED <<sent, got, errClosed, recvClosed>>
     \/ errClosed /\ ~errHeld /\ cpc' = "first" /\ UNCHANGED <<last, down>>
  /\ UNCHANGED <<up, ctxDone, spc, hpc, failed>>

(***************************************************************************)
(* The handler: RecvMsg (or RecvMsgDirect) and SendMsg of ffiServerStream, *)
(* and its return, after which the goroutine reports the error, closes     *)
(* errCh and closes recvCh.                                                *)
(***************************************************************************)
Call(l) ==
  /\ hpc = "run"
  /\ hpc' = l
  /\ UNCHANGED <<up, down, ctxDone, spc, cpc, last, failed>>

AtEnd == closed /\ taken = acked

ServerRecv ==
  /\ hpc = "recv"
  /\ \/ taken < acked /\ taken' = taken + 1 /\ drained' = drained
     \/ AtEnd /\ drained' = TRUE /\ taken' = taken
     \/ ctxDone /\ UNCHANGED <<taken, drained>>
  /\ hpc' = "run"
  /\ UNCHANGED <<closed, acked, down, ctxDone, spc, cpc, last, failed>>

ServerSend ==
  /\ hpc = "send"
  /\ \/ Room(sent - got) /\ sent' = sent + 1
     \/ ctxDone /\ sent' = sent
  /\ hpc' = "run"
  /\ UNCHANGED <<up, got, errHeld, errClosed, recvClosed, streamErr, ctxDone, spc, cpc,
                 last, failed>>

HandlerReturns ==
  /\ hpc = "run"
  /\ \/ failed' = FALSE /\ hpc' = "closeErr"
     \/ failed' = TRUE  /\ hpc' = "report"
  /\ UNCHANGED <<up, down, ctxDone, spc, cpc, last>>

Report ==
  /\ hpc = "report"
  /\ errHeld' = TRUE
  /\ hpc' = "closeErr"
  /\ UNCHANGED <<up, sent, got, errClosed, recvClosed, streamErr, ctxDone, spc, cpc, last, failed>>

CloseErrCh ==
  /\ hpc = "closeErr"
  /\ errClosed' = TRUE
  /\ hpc' = "closeRecv"
  /\ UNCHANGED <<up, sent, got, errHeld, recvClosed, streamErr, ctxDone, spc, cpc, last, failed>>

CloseRecvCh ==
  /\ hpc = "closeRecv"
  /\ recvClosed' = TRUE
  /\ hpc' = "exited"
  /\ UNCHANGED <<up, sent, got, errHeld, errClosed, streamErr, ctxDone, spc, cpc, last, failed>>

---------------------------------------------------------------------------
Receive == First \/ Second
Handler == ServerRecv \/ ServerSend \/ Report \/ CloseErrCh \/ CloseRecvCh

Next ==
  \/ \E s \in Senders : SendMsg(s) \/ SendSelect(s)
  \/ CloseSend \/ Cancel \/ RecvMsg \/ Receive
  \/ Call("recv") \/ (sent < MaxDown /\ Call("send"))
  \/ Handler \/ HandlerReturns

(* Goroutines that can go on do.  The client need not call again and the   *)
(* handler need not return.                                                *)
Fairness == /\ \A s \in Senders : WF_vars(SendSelect(s))
            /\ WF_vars(Receive) /\ WF_vars(Handler)

Spec == Init /\ [][Next]_vars /\ Fairness

TypeOK ==
  /\ closed \in BOOLEAN /\ ctxDone \in BOOLEAN
  /\ acked \in Nat /\ taken \in Nat /\ taken <= acked /\ acked - taken <= Cap
  /\ sent \in Nat /\ got \in Nat /\ got <= sent /\ sent - got <= Cap
  /\ errHeld \in BOOLEAN /\ errClosed \in BOOLEAN /\ recvClosed \in BOOLEAN
  /\ streamErr \in BOOLEAN
  /\ spc \in [Senders -> {"idle", "send"}]
  /\ cpc \in {"idle", "first", "second"}
  /\ last \in {"none", "data", "eof", "error", "ctx"}
  /\ hpc \in {"run", "recv", "send", "report", "closeErr", "closeRecv", "exited"}
  /\ failed \in BOOLEAN /\ drained \in BOOLEAN

(* io.EOF tells the client that the handler returned without an error and  *)
(* that nothing it sent is missing.                                        *)
EofMeansComplete == last = "eof" => hpc = "exited" /\ ~failed /\ got = sent

(* io.EOF tells the handler that no message for which SendMsg returned nil *)
(* is missing, and that none will be accepted any more.                    *)
ServerEofComplete == drained => closed /\ taken = acked

(* "streamErr stores the error once received, so subsequent RecvMsg calls  *)
(* return it" (synurang.go:125): the end of a stream, an error as well as  *)
(* io.EOF, is final.                                                       *)
EndIsFinal == [][(last \in {"eof", "error"}) => (last' = last)]_vars

(* The two directions of a stream.  The requests have ended for the        *)
(* handler when it was told io.EOF, the responses for the client when it   *)
(* was told io.EOF or the error of the handler; an error of the context is *)
(* no end.                                                                 *)
Requests == INSTANCE Pipe WITH
  waiting <- acked - taken, shut <- closed, failed <- FALSE,
  end <- IF drained THEN "eof" ELSE "none"

Responses == INSTANCE Pipe WITH
  waiting <- sent - got, shut <- hpc \notin {"run", "recv", "send"},
  end <- IF last \in {"eof", "error"} THEN last ELSE "none"

(* Whatever the order in which two senders, the receiver, the handler and  *)
(* a canceller come to the four channels, each direction is a pipe         *)
(* (synurang.go:125, 205-290, 325-345).                                    *)
ImplementsPipes == Requests!Spec /\ Responses!Spec

(* When the handler has returned or the context is cancelled, RecvMsg of   *)
(* the client does not wait for ever (synurang.go:261-290).                *)
RecvReturns == (hpc = "exited" \/ ctxDone) /\ cpc # "idle" ~> cpc = "idle"

(* Cancelling the context releases everybody who waits for room or for a   *)
(* message: the senders of the client and the handler; RecvMsg also the    *)
(* return of the handler (synurang.go:205-225, 343).                       *)
CancelReleases ==
  /\ RecvReturns
  /\ \A s \in Senders : ctxDone /\ spc[s] = "send" ~> spc[s] = "idle"
  /\ ctxDone /\ hpc \in {"send", "recv"} ~> hpc = "run"

(* "Two-phase select: prioritize data over errors to avoid data loss"      *)
(* (synurang.go:234): the error comes after the data sent before it.       *)
DataBeforeError == last = "error" => got = sent
=============================================================================
