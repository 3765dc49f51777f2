--------------------------- MODULE FfiStreamProofs ---------------------------
(***************************************************************************)
(* Proofs about FfiStream, for any number of senders and any capacity:     *)
(* each direction of the stream keeps the promise of Pipe, alone and under *)
(* the generated client; what the two kinds of io.EOF mean; that the end   *)
(* of a stream is final.                                                   *)
(***************************************************************************)
EXTENDS FfiGreeter, TLAPS

(* TypeOK in two parts.                                                    *)
Flags ==
  /\ closed \in BOOLEAN /\ ctxDone \in BOOLEAN
  /\ errHeld \in BOOLEAN /\ errClosed \in BOOLEAN /\ recvClosed \in BOOLEAN
  /\ streamErr \in BOOLEAN /\ failed \in BOOLEAN /\ drained \in BOOLEAN
Counters ==
  /\ acked \in Nat /\ taken \in Nat /\ taken <= acked /\ acked - taken <= Cap
  /\ sent \in Nat /\ got \in Nat /\ got <= sent /\ sent - got <= Cap
  /\ spc \in [Senders -> {"idle", "send"}]
  /\ cpc \in {"idle", "first", "second"}
  /\ last \in {"none", "data", "eof", "error", "ctx"}
  /\ hpc \in {"run", "recv", "send", "report", "closeErr", "closeRecv", "exited"}

(* The channels that the handler's goroutine closes, by where it is.       *)
Stages ==
  /\ errClosed <=> hpc \in {"closeRecv", "exited"}
  /\ recvClosed <=> hpc = "exited"
  /\ failed => hpc \in {"report", "closeErr", "closeRecv", "exited"}
  /\ hpc = "report" => failed

(* The error of a handler that failed is reported once, and then either on *)
(* errCh or stored; a RecvMsg in progress has seen no stored error.        *)
ErrorKept ==
  /\ errHeld \/ streamErr => failed /\ hpc # "report"
  /\ failed /\ hpc # "report" => errHeld \/ streamErr
  /\ cpc # "idle" => ~streamErr
  /\ ~(errHeld /\ streamErr)

(* What the results that have been returned say of the channels.           *)
Results ==
  /\ EofMeansComplete /\ ServerEofComplete
  /\ last = "error" => streamErr
  /\ last = "eof" => cpc # "second"

IInv == Flags /\ Counters /\ Stages /\ ErrorKept /\ Results

USE StreamAssumption

(* A step of a stream, whatever is bound.  An echo sends as often as it    *)
(* receives, so the steps of the greeter are steps of this kind.           *)
Step == Next \/ Call("send")

LEMMA NextSteps == [Next]_vars => [Step]_vars
  BY DEF Step

---------------------------------------------------------------------------
LEMMA IInvInit == Init => IInv
<1> SUFFICES ASSUME Init PROVE IInv
  OBVIOUS
<1>1. Flags
  BY Zenon DEF Init, Flags
<1>5. Counters
  BY DEF Init, Counters
<1>2. Stages /\ ErrorKept
  BY DEF Init, Stages, ErrorKept
<1>3. Results
  BY DEF Init, Results, EofMeansComplete, ServerEofComplete
<1>4. QED
  BY <1>1, <1>2, <1>3, <1>5 DEF IInv

(* What a phase of RecvMsg may do: take a message, take the error, return  *)
(* io.EOF, return the error of the context, or go on to another phase.     *)
TookData  == /\ got < sent /\ got' = got + 1 /\ UNCHANGED <<errHeld, streamErr>>
             /\ cpc' = "idle" /\ last' = "data"
TookError == /\ errHeld /\ errHeld' = FALSE /\ streamErr' = TRUE /\ got' = got
             /\ cpc' = "idle" /\ last' = "error"
TookEof   == /\ got = sent /\ recvClosed /\ ~errHeld /\ UNCHANGED <<got, errHeld, streamErr>>
             /\ cpc' = "idle" /\ last' = "eof"
TookCtx   == /\ cpc = "second" /\ UNCHANGED <<got, errHeld, streamErr>>
             /\ cpc' = "idle" /\ last' = "ctx"
WentOn    == /\ UNCHANGED <<got, errHeld, streamErr>>
             /\ (cpc = "first" /\ ~recvClosed /\ cpc' = "second") \/ cpc' = "first"
             /\ last' = last

LEMMA PhasesFrame ==
  ASSUME First \/ Second
  PROVE  /\ cpc # "idle"
         /\ UNCHANGED <<up, ctxDone, spc, hpc, failed, sent, errClosed, recvClosed>>
  BY DEF First, Second, RecvData, RecvClosed, TakeErrorNow, TakeError, down

LEMMA Phases ==
  ASSUME First \/ Second
  PROVE  TookData \/ TookError \/ TookEof \/ TookCtx \/ WentOn
<1>1. CASE RecvData
  BY <1>1 DEF RecvData, Returns, TookData
<1>2. CASE RecvClosed
  BY <1>2 DEF RecvClosed, TakeError, Returns, TookError, TookEof
<1>3. CASE First /\ ~RecvData /\ ~RecvClosed
  BY <1>3 DEF First, down, WentOn
<1>4. CASE Second /\ ~RecvData /\ ~RecvClosed
  BY <1>4 DEF Second, down, WentOn, TakeErrorNow, TakeError, Returns, TookError, TookCtx
<1>5. QED
  BY <1>1, <1>2, <1>3, <1>4

(* What the lemmas below expand in every step.                             *)
USE DEF up, down, EofMeansComplete, ServerEofComplete

(* Flags are Booleans.                                                     *)
LEMMA FlagsNext == IInv /\ [Step]_vars => Flags'
<1> SUFFICES ASSUME IInv, [Step]_vars PROVE Flags'
  OBVIOUS
<1> USE DEF IInv, Flags
<1>1. ASSUME NEW s \in Senders, SendMsg(s) PROVE Flags'
  BY <1>1, Zenon DEF SendMsg
<1>2. ASSUME NEW s \in Senders, SendSelect(s) PROVE Flags'
  BY <1>2, Zenon DEF SendSelect, Accepts, Room, GiveUp
<1>3. ASSUME CloseSend PROVE Flags'
  BY <1>3, Zenon DEF CloseSend
<1>4. ASSUME Cancel PROVE Flags'
  BY <1>4, Zenon DEF Cancel
<1>5. ASSUME RecvMsg PROVE Flags'
  BY <1>5, Zenon DEF RecvMsg, Returns
<1>6. ASSUME First \/ Second PROVE Flags'
  <2>1. CASE TookData
    BY <1>6, <2>1, PhasesFrame, Zenon DEF TookData
  <2>2. CASE TookError
    BY <1>6, <2>2, PhasesFrame, Zenon DEF TookError
  <2>3. CASE TookEof
    BY <1>6, <2>3, PhasesFrame, Zenon DEF TookEof
  <2>4. CASE TookCtx
    BY <1>6, <2>4, PhasesFrame, Zenon DEF TookCtx
  <2>5. CASE WentOn
    BY <1>6, <2>5, PhasesFrame, Zenon DEF WentOn
  <2>6. QED
    BY <1>6, <2>1, <2>2, <2>3, <2>4, <2>5, Phases
<1>7. ASSUME Call("recv") \/ Call("send") PROVE Flags'
  BY <1>7, Zenon DEF Call
<1>8. ASSUME ServerRecv PROVE Flags'
  BY <1>8, Zenon DEF ServerRecv, AtEnd
<1>9. ASSUME ServerSend PROVE Flags'
  BY <1>9, Zenon DEF ServerSend, Room
<1>10. ASSUME HandlerReturns PROVE Flags'
  BY <1>10, Zenon DEF HandlerReturns
<1>11. ASSUME Report PROVE Flags'
  BY <1>11, Zenon DEF Report
<1>12. ASSUME CloseErrCh PROVE Flags'
  BY <1>12, Zenon DEF CloseErrCh
<1>13. ASSUME CloseRecvCh PROVE Flags'
  BY <1>13, Zenon DEF CloseRecvCh
<1>14. CASE UNCHANGED vars
  BY <1>14 DEF vars
<1>15. QED
  BY <1>1, <1>2, <1>3, <1>4, <1>5, <1>6, <1>7, <1>8, <1>9, <1>10, <1>11,
     <1>12, <1>13, <1>14
  DEF Step, Next, Receive, Handler

(* Neither channel gives more than it took, or holds more than Cap.        *)
LEMMA CountersNext == IInv /\ [Step]_vars => Counters'
<1> SUFFICES ASSUME IInv, [Step]_vars PROVE Counters'
  OBVIOUS
<1> USE DEF IInv, Counters
<1>1. ASSUME NEW s \in Senders, SendMsg(s) PROVE Counters'
  BY <1>1 DEF SendMsg
<1>2. ASSUME NEW s \in Senders, SendSelect(s) PROVE Counters'
  BY <1>2 DEF SendSelect, Accepts, Room, GiveUp
<1>3. ASSUME CloseSend PROVE Counters'
  BY <1>3 DEF CloseSend
<1>4. ASSUME Cancel PROVE Counters'
  BY <1>4 DEF Cancel
<1>5. ASSUME RecvMsg PROVE Counters'
  BY <1>5 DEF RecvMsg, Returns
<1>6. ASSUME First \/ Second PROVE Counters'
  <2>1. CASE TookData
    BY <1>6, <2>1, PhasesFrame DEF TookData
  <2>2. CASE TookError
    BY <1>6, <2>2, PhasesFrame DEF TookError
  <2>3. CASE TookEof
    BY <1>6, <2>3, PhasesFrame DEF TookEof
  <2>4. CASE TookCtx
    BY <1>6, <2>4, PhasesFrame DEF TookCtx
  <2>5. CASE WentOn
    BY <1>6, <2>5, PhasesFrame DEF WentOn
  <2>6. QED
    BY <1>6, <2>1, <2>2, <2>3, <2>4, <2>5, Phases
<1>7. ASSUME Call("recv") \/ Call("send") PROVE Counters'
  BY <1>7 DEF Call
<1>8. ASSUME ServerRecv PROVE Counters'
  BY <1>8 DEF ServerRecv, AtEnd
<1>9. ASSUME ServerSend PROVE Counters'
  BY <1>9 DEF ServerSend, Room
<1>10. ASSUME HandlerReturns PROVE Counters'
  BY <1>10 DEF HandlerReturns
<1>11. ASSUME Report PROVE Counters'
  BY <1>11 DEF Report
<1>12. ASSUME CloseErrCh PROVE Counters'
  BY <1>12 DEF CloseErrCh
<1>13. ASSUME CloseRecvCh PROVE Counters'
  BY <1>13 DEF CloseRecvCh
<1>14. CASE UNCHANGED vars
  BY <1>14 DEF vars
<1>15. QED
  BY <1>1, <1>2, <1>3, <1>4, <1>5, <1>6, <1>7, <1>8, <1>9, <1>10, <1>11,
     <1>12, <1>13, <1>14
  DEF Step, Next, Receive, Handler

(* Only the goroutine of the handler reports and closes, in its order.     *)
LEMMA StagesNext == IInv /\ [Step]_vars => Stages'
<1> SUFFICES ASSUME IInv, [Step]_vars PROVE Stages'
  OBVIOUS
<1> USE DEF IInv, Stages
<1>1. ASSUME NEW s \in Senders, SendMsg(s) PROVE Stages'
  BY <1>1 DEF SendMsg
<1>2. ASSUME NEW s \in Senders, SendSelect(s) PROVE Stages'
  BY <1>2 DEF SendSelect, Accepts, Room, GiveUp
<1>3. ASSUME CloseSend PROVE Stages'
  BY <1>3 DEF CloseSend
<1>4. ASSUME Cancel PROVE Stages'
  BY <1>4 DEF Cancel
<1>5. ASSUME RecvMsg PROVE Stages'
  BY <1>5 DEF RecvMsg, Returns
<1>6. ASSUME First \/ Second PROVE Stages'
  <2>1. CASE TookData
    BY <1>6, <2>1, PhasesFrame DEF TookData
  <2>2. CASE TookError
    BY <1>6, <2>2, PhasesFrame DEF TookError
  <2>3. CASE TookEof
    BY <1>6, <2>3, PhasesFrame DEF TookEof
  <2>4. CASE TookCtx
    BY <1>6, <2>4, PhasesFrame DEF TookCtx
  <2>5. CASE WentOn
    BY <1>6, <2>5, PhasesFrame DEF WentOn
  <2>6. QED
    BY <1>6, <2>1, <2>2, <2>3, <2>4, <2>5, Phases
<1>7. ASSUME Call("recv") \/ Call("send") PROVE Stages'
  BY <1>7 DEF Call
<1>8. ASSUME ServerRecv PROVE Stages'
  BY <1>8 DEF ServerRecv, AtEnd
<1>9. ASSUME ServerSend PROVE Stages'
  BY <1>9 DEF ServerSend, Room
<1>10. ASSUME HandlerReturns PROVE Stages'
  BY <1>10 DEF HandlerReturns
<1>11. ASSUME Report PROVE Stages'
  BY <1>11 DEF Report
<1>12. ASSUME CloseErrCh PROVE Stages'
  BY <1>12 DEF CloseErrCh
<1>13. ASSUME CloseRecvCh PROVE Stages'
  BY <1>13 DEF CloseRecvCh
<1>14. CASE UNCHANGED vars
  BY <1>14 DEF vars
<1>15. QED
  BY <1>1, <1>2, <1>3, <1>4, <1>5, <1>6, <1>7, <1>8, <1>9, <1>10, <1>11,
     <1>12, <1>13, <1>14
  DEF Step, Next, Receive, Handler

(* The error of the handler is on errCh until the client stores it.        *)
LEMMA ErrorKeptNext == IInv /\ [Step]_vars => ErrorKept'
<1> SUFFICES ASSUME IInv, [Step]_vars PROVE ErrorKept'
  OBVIOUS
<1> USE DEF IInv, ErrorKept, Stages
<1>1. ASSUME NEW s \in Senders, SendMsg(s) PROVE ErrorKept'
  BY <1>1 DEF SendMsg
<1>2. ASSUME NEW s \in Senders, SendSelect(s) PROVE ErrorKept'
  BY <1>2 DEF SendSelect, Accepts, Room, GiveUp
<1>3. ASSUME CloseSend PROVE ErrorKept'
  BY <1>3 DEF CloseSend
<1>4. ASSUME Cancel PROVE ErrorKept'
  BY <1>4 DEF Cancel
<1>5. ASSUME RecvMsg PROVE ErrorKept'
  BY <1>5 DEF RecvMsg, Returns
<1>6. ASSUME First \/ Second PROVE ErrorKept'
  <2>1. CASE TookData
    BY <1>6, <2>1, PhasesFrame DEF TookData
  <2>2. CASE TookError
    BY <1>6, <2>2, PhasesFrame DEF TookError
  <2>3. CASE TookEof
    <3>1. UNCHANGED <<errHeld, streamErr, failed, hpc>> /\ cpc' = "idle"
      BY <1>6, <2>3, PhasesFrame DEF TookEof
    <3>2. QED
      BY <3>1
  <2>4. CASE TookCtx
    BY <1>6, <2>4, PhasesFrame DEF TookCtx
  <2>5. CASE WentOn
    BY <1>6, <2>5, PhasesFrame DEF WentOn
  <2>6. QED
    BY <1>6, <2>1, <2>2, <2>3, <2>4, <2>5, Phases
<1>7. ASSUME Call("recv") \/ Call("send") PROVE ErrorKept'
  BY <1>7 DEF Call
<1>8. ASSUME ServerRecv PROVE ErrorKept'
  BY <1>8 DEF ServerRecv, AtEnd
<1>9. ASSUME ServerSend PROVE ErrorKept'
  BY <1>9 DEF ServerSend, Room
<1>10. ASSUME HandlerReturns PROVE ErrorKept'
  BY <1>10 DEF HandlerReturns
<1>11. ASSUME Report PROVE ErrorKept'
  BY <1>11 DEF Report
<1>12. ASSUME CloseErrCh PROVE ErrorKept'
  BY <1>12 DEF CloseErrCh
<1>13. ASSUME CloseRecvCh PROVE ErrorKept'
  BY <1>13 DEF CloseRecvCh
<1>14. CASE UNCHANGED vars
  BY <1>14 DEF vars
<1>15. QED
  BY <1>1, <1>2, <1>3, <1>4, <1>5, <1>6, <1>7, <1>8, <1>9, <1>10, <1>11,
     <1>12, <1>13, <1>14
  DEF Step, Next, Receive, Handler

(* Nothing is sent after recvCh is closed, nothing accepted after sendCh is. *)
LEMMA ResultsNext == IInv /\ [Step]_vars => Results'
<1> SUFFICES ASSUME IInv, [Step]_vars PROVE Results'
  OBVIOUS
<1> USE DEF IInv, Results, ErrorKept, Stages, Counters
<1>1. ASSUME NEW s \in Senders, SendMsg(s) PROVE Results'
  BY <1>1 DEF SendMsg
<1>2. ASSUME NEW s \in Senders, SendSelect(s) PROVE Results'
  BY <1>2 DEF SendSelect, Accepts, Room, GiveUp
<1>3. ASSUME CloseSend PROVE Results'
  BY <1>3 DEF CloseSend
<1>4. ASSUME Cancel PROVE Results'
  BY <1>4 DEF Cancel
<1>5. ASSUME RecvMsg PROVE Results'
  BY <1>5 DEF RecvMsg, Returns
<1>6. ASSUME First \/ Second PROVE Results'
  <2>1. CASE TookData
    BY <1>6, <2>1, PhasesFrame DEF TookData
  <2>2. CASE TookError
    <3>1. UNCHANGED <<drained, closed, taken, acked>> /\ last' = "error" /\ streamErr'
      BY <1>6, <2>2, PhasesFrame DEF TookError
    <3>2. QED
      BY <3>1
  <2>3. CASE TookEof
    <3>1. /\ UNCHANGED <<drained, closed, taken, acked, hpc, failed, sent, got>>
          /\ last' = "eof" /\ got = sent
      BY <1>6, <2>3, PhasesFrame DEF TookEof
    <3>2. hpc = "exited"
      BY <2>3 DEF TookEof
    <3>3. ~streamErr
      BY <1>6, PhasesFrame
    <3>4. ~failed
      BY <2>3, <3>2, <3>3 DEF TookEof
    <3>5. cpc' = "idle" /\ UNCHANGED hpc
      BY <1>6, <2>3, PhasesFrame DEF TookEof
    <3>6. QED
      BY <3>1, <3>2, <3>4, <3>5
  <2>4. CASE TookCtx
    BY <1>6, <2>4, PhasesFrame DEF TookCtx
  <2>5. CASE WentOn
    BY <1>6, <2>5, PhasesFrame DEF WentOn
  <2>6. QED
    BY <1>6, <2>1, <2>2, <2>3, <2>4, <2>5, Phases
<1>7. ASSUME Call("recv") \/ Call("send") PROVE Results'
  BY <1>7 DEF Call
<1>8. ASSUME ServerRecv PROVE Results'
  BY <1>8 DEF ServerRecv, AtEnd
<1>9. ASSUME ServerSend PROVE Results'
  BY <1>9 DEF ServerSend, Room
<1>10. ASSUME HandlerReturns PROVE Results'
  BY <1>10 DEF HandlerReturns
<1>11. ASSUME Report PROVE Results'
  BY <1>11 DEF Report
<1>12. ASSUME CloseErrCh PROVE Results'
  BY <1>12 DEF CloseErrCh
<1>13. ASSUME CloseRecvCh PROVE Results'
  BY <1>13 DEF CloseRecvCh
<1>14. CASE UNCHANGED vars
  BY <1>14 DEF vars
<1>15. QED
  BY <1>1, <1>2, <1>3, <1>4, <1>5, <1>6, <1>7, <1>8, <1>9, <1>10, <1>11,
     <1>12, <1>13, <1>14
  DEF Step, Next, Receive, Handler

---------------------------------------------------------------------------
LEMMA IInvStep == IInv /\ [Step]_vars => IInv'
  BY FlagsNext, CountersNext, StagesNext, ErrorKeptNext, ResultsNext DEF IInv

LEMMA IInvAlways == Spec => []IInv
  BY IInvInit, IInvStep, NextSteps, PTL DEF Spec

(* Every variable keeps its type and no channel exceeds its capacity.      *)
THEOREM TypeCorrect == Spec => []TypeOK
<1>1. IInv => TypeOK
  BY DEF IInv, Flags, Counters, TypeOK
<1>2. QED
  BY <1>1, IInvAlways, PTL

(* io.EOF from RecvMsg of the client: the handler returned nil and every   *)
(* message that it sent has been received (synurang.go:238-252).           *)
THEOREM ClientEof == Spec => []EofMeansComplete
  BY IInvAlways, PTL DEF IInv, Results

(* io.EOF from RecvMsg of the handler: every message that SendMsg accepted *)
(* has been received, and no other will be accepted (synurang.go:341-344). *)
THEOREM ServerEof == Spec => []ServerEofComplete
  BY IInvAlways, PTL DEF IInv, Results

(* A step after the end of a stream does not change what RecvMsg returned. *)
LEMMA FinalStep == IInv /\ [Step]_vars => ((last \in {"eof", "error"}) => (last' = last))
<1> SUFFICES ASSUME IInv, [Step]_vars, last \in {"eof", "error"} PROVE last' = last
  OBVIOUS
<1> USE DEF IInv, Results, ErrorKept, Stages
<1>1. CASE RecvMsg
  BY <1>1 DEF RecvMsg, Returns
<1>2. CASE First \/ Second
  <2>1. last = "eof"
    BY <1>2, PhasesFrame
  <2>2. hpc = "exited" /\ ~failed /\ got = sent
    BY <2>1
  <2>3. ~TookData
    BY <2>2 DEF Counters, TookData
  <2>4. ~errHeld
    BY <2>2
  <2>5. ~TookError
    BY <2>4 DEF TookError
  <2>6. ~TookCtx
    BY <2>1 DEF TookCtx
  <2>7. CASE TookEof
    BY <2>1, <2>7 DEF TookEof
  <2>8. CASE WentOn
    BY <2>8 DEF WentOn
  <2>9. QED
    BY <1>2, <2>3, <2>5, <2>6, <2>7, <2>8, Phases
<1>4. CASE \E s \in Senders : SendMsg(s) \/ SendSelect(s)
  BY <1>4 DEF SendMsg, SendSelect
<1>5. CASE CloseSend \/ Cancel \/ HandlerReturns \/ Call("recv") \/ Call("send")
  BY <1>5 DEF CloseSend, Cancel, HandlerReturns, Call
<1>6. CASE Handler
  BY <1>6 DEF Handler, ServerRecv, ServerSend, Report, CloseErrCh, CloseRecvCh
<1>7. CASE UNCHANGED vars
  BY <1>7 DEF vars
<1>8. QED
  BY <1>1, <1>2, <1>4, <1>5, <1>6, <1>7 DEF Step, Next, Receive

(* After io.EOF or the error of the handler RecvMsg returns nothing else   *)
(* (synurang.go:125).                                                      *)
THEOREM TheEndIsFinal == Spec => EndIsFinal
  BY FinalStep, IInvAlways, NextSteps, PTL DEF Spec, EndIsFinal

---------------------------------------------------------------------------
(* Each direction is a pipe.  A sender, CloseSend and the handler move the *)
(* requests; the rest of a stream leaves them alone.                       *)
LEMMA RequestsStep ==
  IInv /\ [Step]_vars => [Requests!Next]_(Requests!vars)
<1> SUFFICES ASSUME IInv, [Step]_vars
             PROVE  Requests!Next \/ UNCHANGED Requests!vars
  OBVIOUS
<1> USE DEF IInv, Counters, Flags
<1>1. ASSUME NEW s \in Senders, SendSelect(s) PROVE Requests!Accept \/ UNCHANGED Requests!vars
  BY <1>1 DEF SendSelect, Accepts, Room, Requests!Accept, Requests!vars
<1>2. CASE CloseSend
  BY <1>2 DEF CloseSend, Requests!Next, Requests!Shut, Requests!vars
<1>3. CASE ServerRecv
  <2>1. CASE taken < acked /\ taken' = taken + 1 /\ drained' = drained
    <3>1. ~drained
      BY <2>1 DEF Results
    <3> QED
      BY <1>3, <2>1, <3>1 DEF ServerRecv, Requests!Next, Requests!Deliver
  <2>2. CASE AtEnd /\ drained' = TRUE /\ taken' = taken
    BY <1>3, <2>2 DEF ServerRecv, AtEnd, Requests!Next, Requests!End, Requests!vars
  <2>3. CASE UNCHANGED <<taken, drained>>
    BY <1>3, <2>3 DEF ServerRecv, Requests!vars
  <2> QED
    BY <1>3, <2>1, <2>2, <2>3 DEF ServerRecv
<1>4. CASE UNCHANGED up
  BY <1>4 DEF Requests!vars
<1>5. ASSUME ~ServerRecv, ~CloseSend, \A s \in Senders : ~SendSelect(s) PROVE UNCHANGED up
  <2>1. ASSUME NEW s \in Senders, SendMsg(s) PROVE UNCHANGED up
    BY <2>1 DEF SendMsg
  <2>2. CASE Receive
    BY <2>2, PhasesFrame DEF Receive
  <2>3. CASE Cancel \/ RecvMsg \/ Call("recv") \/ Call("send")
    BY <2>3 DEF Cancel, RecvMsg, Call
  <2>4. CASE ServerSend \/ Report \/ CloseErrCh \/ CloseRecvCh \/ HandlerReturns
    BY <2>4 DEF ServerSend, Report, CloseErrCh, CloseRecvCh, HandlerReturns
  <2>5. CASE UNCHANGED vars
    BY <2>5 DEF vars
  <2> QED
    BY <1>5, <2>1, <2>2, <2>3, <2>4, <2>5 DEF Step, Next, Handler
<1> QED
  BY <1>1, <1>2, <1>3, <1>4, <1>5 DEF Requests!Next

(* What moves the responses: the handler sends and returns, the client     *)
(* receives.  RecvMsg that finds the error of the handler stored tells it  *)
(* once more, and what was told before was no io.EOF.                      *)
LEMMA ResponsesStep ==
  IInv /\ [Step]_vars => [Responses!Next]_(Responses!vars)
<1> SUFFICES ASSUME IInv, [Step]_vars
             PROVE  Responses!Next \/ UNCHANGED Responses!vars
  OBVIOUS
<1> USE DEF IInv, Counters, Flags
<1>1. CASE ServerSend
  BY <1>1 DEF ServerSend, Room, Responses!Accept, Responses!vars, Responses!Next
<1>2. CASE HandlerReturns
  BY <1>2 DEF HandlerReturns, Responses!Shut, Responses!Next
<1>3. CASE RecvMsg
  <2>1. CASE streamErr
    <3>1. failed /\ hpc \notin {"run", "recv", "send"} /\ last # "eof"
      BY <2>1 DEF ErrorKept, Stages, Results
    <3> QED
      BY <1>3, <2>1, <3>1 DEF RecvMsg, Returns, Responses!End, Responses!vars, Responses!Next
  <2>2. CASE ~streamErr
    BY <1>3, <2>2 DEF RecvMsg, Responses!vars
  <2> QED
    BY <2>1, <2>2
<1>4. CASE Receive
  <2>0. UNCHANGED <<hpc, failed, sent>> /\ cpc # "idle"
    BY <1>4, PhasesFrame DEF Receive
  <2>1. ~streamErr /\ last # "error"
    BY <2>0 DEF ErrorKept, Results
  <2>2. CASE TookData
    <3>1. last # "eof"
      BY <2>2 DEF TookData, Results
    <3> QED
      BY <2>0, <2>1, <2>2, <3>1 DEF TookData, Responses!Deliver, Responses!Next
  <2>3. CASE TookError
    <3>1. failed /\ hpc \notin {"run", "recv", "send"} /\ last # "eof"
      BY <2>3 DEF TookError, ErrorKept, Stages, Results
    <3> QED
      BY <2>0, <2>1, <2>3, <3>1 DEF TookError, Responses!End, Responses!Next
  <2>4. CASE TookEof
    <3>1. ~failed /\ hpc = "exited"
      BY <2>1, <2>4 DEF TookEof, ErrorKept, Stages
    <3> QED
      BY <2>0, <2>1, <2>4, <3>1 DEF TookEof, Responses!End, Responses!vars, Responses!Next
  <2>5. CASE TookCtx
    BY <2>0, <2>1, <2>5 DEF TookCtx, Results, Responses!vars
  <2>6. CASE WentOn
    BY <2>0, <2>6 DEF WentOn, Responses!vars
  <2> QED
    BY <1>4, <2>2, <2>3, <2>4, <2>5, <2>6, Phases DEF Receive
<1>5. ASSUME NEW s \in Senders, SendMsg(s) \/ SendSelect(s) PROVE UNCHANGED Responses!vars
  BY <1>5 DEF SendMsg, SendSelect, Responses!vars
<1>6. CASE CloseSend \/ Cancel \/ Call("recv") \/ Call("send") \/ ServerRecv
  BY <1>6 DEF CloseSend, Cancel, Call, ServerRecv, Responses!vars
<1>7. CASE Report \/ CloseErrCh \/ CloseRecvCh
  BY <1>7 DEF Report, CloseErrCh, CloseRecvCh, Responses!vars
<1>8. CASE UNCHANGED vars
  BY <1>8 DEF vars, Responses!vars
<1> QED
  BY <1>1, <1>2, <1>3, <1>4, <1>5, <1>6, <1>7, <1>8 DEF Step, Next, Handler

LEMMA PipesInit == Init => Requests!Init /\ Responses!Init
  BY DEF Init, Requests!Init, Responses!Init

(* Any client and any handler: both directions of a stream are pipes       *)
(* (synurang.go:125, 205-290, 325-345).                                    *)
THEOREM StreamImplementsPipes == Spec => ImplementsPipes
  BY PipesInit, RequestsStep, ResponsesStep, IInvAlways, NextSteps, PTL
     DEF Spec, ImplementsPipes, Requests!Spec, Responses!Spec

---------------------------------------------------------------------------
(* The greeter's methods.  Every step of a call is a step of its stream.   *)
LEMMA GreeterSteps == [GreeterNext]_greeterVars => [Step]_vars
<1> SUFFICES ASSUME [GreeterNext]_greeterVars PROVE Step \/ UNCHANGED vars
  OBVIOUS
<1>1. CASE InvokeStream
  BY <1>1 DEF InvokeStream
<1>2. CASE Calls
  BY <1>2 DEF Calls, Enter, Step, Next
<1>3. CASE Request \/ Sums \/ Echoes
  BY <1>3 DEF Request, Sums, Echoes, Step, Next, Handler
<1>4. CASE Greets
  BY <1>4 DEF Greets, Step
<1>5. CASE Sends
  BY <1>5 DEF Sends, Step, Next, Handler
<1>6. CASE Exits
  BY <1>6 DEF Exits, Step, Next
<1>7. CASE (Report \/ CloseErrCh \/ CloseRecvCh) /\ UNCHANGED call
  BY <1>7 DEF Step, Next, Handler
<1>8. CASE AnyWaits \/ AnyGoesOn
  BY <1>8 DEF AnyWaits, AnyGoesOn, Step, Next, Handler
<1>9. CASE \E s \in Senders : ClientSends(s)
  BY <1>9 DEF ClientSends, Step, Next
<1>10. CASE ClientReceives \/ ClientCalls
  BY <1>10 DEF ClientReceives, ClientCalls, Step, Next
<1>11. CASE UNCHANGED greeterVars
  BY <1>11 DEF greeterVars
<1> QED
  BY <1>1, <1>2, <1>3, <1>4, <1>5, <1>6, <1>7, <1>8, <1>9, <1>10, <1>11 DEF GreeterNext, GreeterHandler

LEMMA GreeterStreams == GreeterSpec => []IInv
<1>1. GreeterInit => IInv
  BY IInvInit DEF GreeterInit
<1> QED
  BY <1>1, IInvStep, GreeterSteps, PTL DEF GreeterSpec

(* Which methods are at which step of their handler.                       *)
Steps ==
  /\ method \in Greeting \cup Summing \cup Echoing \cup Missing \cup {"any"}
  /\ step = "request" => method \in Greeting \cup Missing
  /\ step = "send" => method \in Greeting
  /\ step = "recv" => method \in Summing \cup Echoing
  /\ step = "reply" => method \in Greeting \cup Summing \cup Echoing
  /\ method = "any" => step = "dispatch"
  /\ method # "any" /\ hpc \in {"report", "closeErr", "closeRecv", "exited"} => step = "gone"

(* A sum has counted what it has taken, and answers only when it has taken *)
(* everything.                                                             *)
Counted ==
  method \in Summing =>
    /\ names = taken
    /\ step \in {"reply", "nil"} \/ (step = "gone" /\ ~failed) => drained
    /\ sent > 0 => drained

(* An echo has answered what it has taken, but for the request at hand.    *)
Echoed ==
  method \in Echoing =>
    /\ step \in {"dispatch", "recv", "nil"} => sent = taken
    /\ step = "reply" => sent + 1 = taken
    /\ step = "gone" /\ ~failed => sent = taken
    /\ step = "nil" \/ (step = "gone" /\ ~failed) => drained

(* A download ends when it has sent all of it.                             *)
Downloaded ==
  method \in Greeting => (step = "nil" \/ (step = "gone" /\ ~failed) => sent = size)

GInv == Steps /\ Counted /\ Echoed /\ Downloaded

LEMMA GInvNext == IInv /\ IInv' /\ GInv /\ [GreeterNext]_greeterVars => GInv'
<1> SUFFICES ASSUME IInv, IInv', GInv, [GreeterNext]_greeterVars PROVE GInv'
  OBVIOUS
<1> USE DEF GInv, Steps, Counted, Echoed, Downloaded, Greeting, Summing, Echoing, Missing, Then
<1>n. /\ sent \in Nat /\ taken \in Nat
  BY DEF IInv, Counters
<1>1. CASE InvokeStream
  BY <1>1 DEF InvokeStream, vars, IInv, Stages
<1>2. CASE Calls
  BY <1>2 DEF Calls, Enter, Call, call
<1>3. CASE Request
  BY <1>3, <1>n DEF Request, ServerRecv, Received
<1>4. CASE Sums
  BY <1>4, <1>n DEF Sums, ServerRecv, Received, AtEof, AtEnd
<1>5. CASE Echoes
  BY <1>5, <1>n DEF Echoes, ServerRecv, Received, AtEof, AtEnd
<1>6. CASE Greets
  BY <1>6 DEF Greets, Call, vars
<1>7. CASE Sends
  BY <1>7, <1>n DEF Sends, ServerSend
<1>8. CASE Exits
  BY <1>8 DEF Exits, HandlerReturns
<1>9. CASE (Report \/ CloseErrCh \/ CloseRecvCh) /\ UNCHANGED call
  BY <1>9 DEF Report, CloseErrCh, CloseRecvCh, call
<1>10. CASE AnyWaits \/ AnyGoesOn
  BY <1>10 DEF AnyWaits, AnyGoesOn, call
<1>11. CASE \E s \in Senders : ClientSends(s)
  BY <1>11 DEF ClientSends, SendSelect, call
<1>12. CASE ClientReceives
  BY <1>12, PhasesFrame DEF ClientReceives, Receive, call
<1>13. CASE ClientCalls
  BY <1>13 DEF ClientCalls, SendMsg, CloseSend, RecvMsg, Cancel, call
<1>14. CASE UNCHANGED greeterVars
  BY <1>14 DEF greeterVars, vars, call
<1> QED
  BY <1>1, <1>2, <1>3, <1>4, <1>5, <1>6, <1>7, <1>8, <1>9, <1>10, <1>11, <1>12, <1>13, <1>14
     DEF GreeterNext, GreeterHandler

LEMMA GInvAlways == GreeterSpec => []GInv
<1>1. GreeterInit => GInv
  BY DEF GreeterInit, Init, GInv, Steps, Counted, Echoed, Downloaded, Greeting, Summing, Echoing, Missing
<1> QED
  BY <1>1, GInvNext, GreeterStreams, PTL DEF GreeterSpec

(* The end that a client of the greeter sees is the end of its whole call, *)
(* for every method, size and interleaving (greeter.go:112,                *)
(* file_service.go:30): a sum counts every accepted request, an echo has   *)
(* answered each, a download has sent all of it.                           *)
THEOREM GreeterCallComplete == GreeterSpec => []CallComplete
<1>1. IInv /\ GInv => CallComplete
  <2> SUFFICES ASSUME IInv, GInv PROVE CallComplete
    OBVIOUS
  <2>1. ASSUME method \in Summing, got = 1 PROVE closed /\ names = acked
    <3>1. sent > 0
      BY <2>1 DEF IInv, Counters
    <3>2. drained /\ names = taken
      BY <2>1, <3>1 DEF GInv, Counted
    <3> QED
      BY <3>2 DEF IInv, Results
  <2>2. ASSUME method \in Echoing \cup Greeting, last = "eof" PROVE hpc = "exited" /\ ~failed /\ got = sent /\ step = "gone"
    BY <2>2 DEF IInv, Results, GInv, Steps, Echoing, Greeting
  <2>3. ASSUME method \in Echoing, last = "eof" PROVE closed /\ got = acked
    <3>1. drained /\ sent = taken
      BY <2>2, <2>3 DEF GInv, Echoed
    <3> QED
      BY <2>2, <2>3, <3>1 DEF IInv, Results
  <2>4. ASSUME method \in Greeting, last = "eof" PROVE got = size
    BY <2>2, <2>4 DEF GInv, Downloaded
  <2> QED
    BY <2>1, <2>3, <2>4 DEF CallComplete
<1> QED
  BY <1>1, GreeterStreams, GInvAlways, PTL

(* In a call of a greeter's method both kinds of io.EOF mean what they     *)
(* mean in any stream, and the end is final.                               *)
THEOREM GreeterEnds == GreeterSpec => [](EofMeansComplete /\ ServerEofComplete) /\ EndIsFinal
<1>1. IInv => EofMeansComplete /\ ServerEofComplete
  BY DEF IInv, Results
<1> QED
  BY <1>1, FinalStep, GreeterStreams, GreeterSteps, PTL DEF GreeterSpec, EndIsFinal

(* Whatever the generated client and the handlers of the greeter do, and   *)
(* an echo answers as often as it is asked, both directions are pipes.     *)
THEOREM GreeterImplementsPipes == GreeterSpec => ImplementsPipes
  BY PipesInit, RequestsStep, ResponsesStep, GreeterStreams, GreeterSteps, PTL
     DEF GreeterSpec, GreeterInit, ImplementsPipes, Requests!Spec, Responses!Spec

(* A handler that collects or echoes requests returns nil only when it has *)
(* seen their end: an error of the stream is never taken for it            *)
(* (greeter.go:112, file_service.go:38).                                   *)
THEOREM NilOnlyAtTheEnd ==
  GreeterSpec => [](hpc = "exited" /\ ~failed /\ method \in Summing \cup Echoing => drained)
<1>1. IInv /\ GInv => (hpc = "exited" /\ ~failed /\ method \in Summing \cup Echoing => drained)
  BY DEF GInv, Steps, Counted, Echoed, Summing, Echoing
<1> QED
  BY <1>1, GreeterStreams, GInvAlways, PTL
=============================================================================
