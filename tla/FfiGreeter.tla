----------------------------- MODULE FfiGreeter -----------------------------
(***************************************************************************)
(* The streaming methods of the example's greeter on an in-process stream  *)
(* (FfiStream): the dispatch and the stream wrappers that the generator    *)
(* writes (example/pkg/api/example_ffi.pb.go) and the handlers of          *)
(* example/go/service/greeter.go and file_service.go.                      *)
(*                                                                         *)
(* A stream carries one call: of a method below, or of "any", a handler    *)
(* that may do what FfiStream allows.                                      *)
(***************************************************************************)
EXTENDS FfiStream

Greeting == {"barServer", "download"}   \* one request, then responses
Summing  == {"barClient", "upload"}     \* requests, then one response
Echoing  == {"barBidi", "bidiFile"}     \* a response to each request
Missing  == {"dartServer", "dart"}      \* what the server does not implement

VARIABLES
  method,   \* the method that is called
  size,     \* how many responses a Greeting method will send
  step,     \* what its handler is about to do
  names     \* how many requests a Summing handler has counted

call        == <<method, size, step, names>>
greeterVars == <<vars, call>>

GreeterInit ==
  /\ Init
  /\ method \in Greeting \cup Summing \cup Echoing \cup Missing \cup {"any"}
  /\ size \in IF method \in Greeting THEN {0, MaxDown} ELSE {0}
  /\ step = "dispatch" /\ names = 0

Then(s) == step' = s /\ UNCHANGED <<method, size, names>>

(* The switch of InvokeStream.                                             *)
InvokeStream ==
  /\ hpc = "run" /\ step = "dispatch" /\ method # "any"
  /\ Then(CASE method \in Greeting \cup {"dartServer"} -> "request"
             [] method \in Summing \cup Echoing -> "recv"
             [] method = "dart" -> "error")
  /\ UNCHANGED vars

(***************************************************************************)
(* The wrappers: Recv is RecvMsgDirect, Send and SendAndClose are SendMsg. *)
(***************************************************************************)
Enter == \/ hpc = "run" /\ step \in {"request", "recv"} /\ Call("recv")
         \/ hpc = "run" /\ step = "reply" /\ Call("send")
Calls == Enter /\ UNCHANGED call

Received == taken' > taken
AtEof    == drained' /\ ~drained

(* The request of a method that has one: io.EOF is an error like another,  *)
(* and the stub of a missing method answers with an error.                 *)
Request ==
  /\ step = "request" /\ ServerRecv
  /\ Then(IF Received /\ method \in Greeting THEN "send" ELSE "error")

(* BarClientStream and UploadFile: count until io.EOF, then answer.        *)
BugSums ==
  /\ step = "recv" /\ method \in Summing /\ ServerRecv
  /\ names' = IF Received THEN names + 1 ELSE names
  /\ step'  = IF Received THEN "recv" ELSE "reply"
  /\ UNCHANGED <<method, size>>
Sums ==
  /\ step = "recv" /\ method \in Summing /\ ServerRecv
  /\ names' = IF Received THEN names + 1 ELSE names
  /\ step'  = IF Received THEN "recv" ELSE IF AtEof THEN "reply" ELSE "error"
  /\ UNCHANGED <<method, size>>

(* BarBidiStream and BidiFile: one response to each request until io.EOF.  *)
Echoes ==
  /\ step = "recv" /\ method \in Echoing /\ ServerRecv
  /\ Then(IF Received THEN "reply" ELSE IF AtEof THEN "nil" ELSE "error")

(* BarServerStream and DownloadFile: one response after the other.         *)
Greets ==
  /\ hpc = "run" /\ step = "send"
  /\ IF sent = size
       THEN Then("nil") /\ UNCHANGED vars
       ELSE Call("send") /\ Then("reply")

Sends ==
  /\ step = "reply" /\ ServerSend
  /\ Then(IF sent' = sent THEN "error"
           ELSE CASE method \in Greeting -> "send"
                  [] method \in Summing  -> "nil"
                  [] method \in Echoing  -> "recv")

(* The handler returns nil or an error.                                    *)
Exits ==
  /\ step \in {"nil", "error"} /\ HandlerReturns
  /\ failed' = (step = "error")
  /\ Then("gone")

GreeterHandler == \/ InvokeStream \/ Calls \/ Request \/ Sums \/ Echoes
                  \/ Greets \/ Sends \/ Exits
                  \/ (Report \/ CloseErrCh \/ CloseRecvCh) /\ UNCHANGED call

AnyWaits == (ServerRecv \/ ServerSend) /\ method = "any" /\ UNCHANGED call
AnyGoesOn == /\ Call("recv") \/ (sent < MaxDown /\ Call("send")) \/ HandlerReturns
             /\ method = "any" /\ UNCHANGED call

(***************************************************************************)
(* The client.  The generated client of a Greeting method sends its        *)
(* request, closes and only then hands out the stream.                     *)
(***************************************************************************)
ClientSends(s) == SendSelect(s) /\ UNCHANGED call

ClientReceives == Receive /\ UNCHANGED call

NothingSent == acked = 0 /\ \A s \in Senders : spc[s] = "idle"

ClientCalls ==
  /\ \/ \E s \in Senders : SendMsg(s) /\ (method \in Greeting => NothingSent)
     \/ CloseSend /\ (method \in Greeting => acked = 1)
     \/ RecvMsg /\ (method \in Greeting => closed)
     \/ Cancel
  /\ UNCHANGED call

GreeterNext ==
  \/ GreeterHandler \/ AnyWaits \/ AnyGoesOn
  \/ \E s \in Senders : ClientSends(s)
  \/ ClientReceives \/ ClientCalls

GreeterSpec ==
  /\ GreeterInit /\ [][GreeterNext]_greeterVars
  /\ \A s \in Senders : WF_greeterVars(ClientSends(s))
  /\ WF_greeterVars(ClientReceives)
  /\ WF_greeterVars(GreeterHandler) /\ WF_greeterVars(AnyWaits)

---------------------------------------------------------------------------
(* The end that a client sees is the end of its whole call                 *)
(* (example/go/service/greeter.go:112, file_service.go:30): the answer to  *)
(* a sum counts every request that was accepted, the end of an echo comes  *)
(* after an answer to each, the end of a download after all of it.         *)
CallComplete ==
  /\ method \in Summing /\ got = 1 => closed /\ names = acked
  /\ method \in Echoing /\ last = "eof" => closed /\ got = acked
  /\ method \in Greeting /\ last = "eof" => got = size

(* Cancelling the context ends the call of every method of the greeter,    *)
(* whatever it was doing (file_service.go:38): each error of the stream is *)
(* passed on, none is taken for the end of the requests.                   *)
HandlerEnds ==
  /\ ctxDone /\ method # "any" ~> hpc = "exited"
  /\ [](hpc = "exited" /\ ~failed /\ method \in Summing \cup Echoing => drained)
=============================================================================
