------------------------------- MODULE Handlers -------------------------------
(***************************************************************************)
(* The stream handlers that run in a session: those of the example, which  *)
(* example/go/service/stream_impl.go and file_service.go implement, and    *)
(* those of pkg/service/test_handlers.go.  StreamSession lets a handler do *)
(* what it likes; a session here runs one of these, or any other handler.  *)
(*                                                                         *)
(* A handler is its goroutine, Main, and step is where it is between two   *)
(* operations of the session.                                              *)
(***************************************************************************)
EXTENDS StreamSession

CONSTANT Items   \* how many messages a server-streaming handler sends

ASSUME HandlerAssumption == Items \in Nat /\ MaxOut > Items /\ MaxOut > MaxSend

ServerMethods == {"BarServerStream", "DownloadFile", "test/server_stream"}
ClientMethods == {"BarClientStream", "UploadFile", "test/client_stream"}
BidiMethods   == {"BarBidiStream", "BidiFile", "test/bidi_stream"}
TestMethods   == {"test/server_stream", "test/client_stream", "test/bidi_stream"}
WithTrailer   == {"DownloadFile", "UploadFile"}
Methods       == ServerMethods \cup ClientMethods \cup BidiMethods

VARIABLES
  method,     \* the method of the session, or "other"
  step,       \* where its handler is
  produced,   \* messages that it has sent
  cancelled   \* Dart has called CloseStream

handler == <<method, step, produced, cancelled>>
allVars == <<vars, handler>>

FirstStep(m) == IF m \in ClientMethods THEN "work" ELSE "ready"

HandlersInit ==
  /\ Init
  /\ method \in Methods \cup {"other"}
  /\ step = FirstStep(method)
  /\ produced = 0 /\ cancelled = FALSE

Goes(l) == step' = l /\ UNCHANGED <<method, produced, cancelled>>
Idle == At(Main, "idle")

(* An operation of the session finds it closed and returns an error.       *)
Refused == Idle /\ Lock /\ closed /\ UNCHANGED vars

(***************************************************************************)
(* WaitForReady.  A test handler that is not told to go on just returns;   *)
(* one of the example reports an error first.                              *)
(***************************************************************************)
NotReady == IF method \in TestMethods THEN "return" ELSE "fail"

AwaitReady ==
  /\ step = "ready"
  /\ \/ Start(Main, "await") /\ Goes("ready")
     \/ /\ WaitForReady(Main)
        /\ \/ readyClosed /\ Goes("work")
           \/ (doneClosed \/ HasTimeout) /\ Goes(NotReady)

(* The request of a server-streaming method of the example may not decode. *)
Decoded == {"BarServerStream", "DownloadFile", "BarClientStream", "UploadFile", "BarBidiStream"}

BadRequest ==
  /\ step = "work" /\ method \in ServerMethods \cap Decoded /\ produced = 0
  /\ Idle /\ UNCHANGED vars /\ Goes("fail")

(***************************************************************************)
(* Server streaming: one message after the other, and then the end.        *)
(***************************************************************************)
Produce ==
  /\ step = "work" /\ method \in ServerMethods /\ produced < Items
  /\ \/ /\ SendFromStream(Main, "data")
        /\ produced' = produced + 1
        /\ UNCHANGED <<method, step, cancelled>>
     \/ Refused /\ Goes("return")

BugLast == "finish"
Last == IF method \in WithTrailer THEN "trailer" ELSE "finish"

ProducedAll ==
  /\ step = "work" /\ method \in ServerMethods /\ produced = Items
  /\ Idle /\ UNCHANGED vars /\ Goes(Last)

(***************************************************************************)
(* Client and bidirectional streaming: receive until the input is closed.  *)
(* The test handlers range over DataChan, the others look at DoneChan too. *)
(***************************************************************************)
Wait ==
  /\ step = "work" /\ method \notin ServerMethods
  /\ Start(Main, IF method \in TestMethods THEN "recv" ELSE "recvsel")
  /\ Goes("work")

AfterMessage ==
  {IF method \in BidiMethods THEN "echo" ELSE "work"}
    \cup (IF method \in Decoded THEN {"fail"} ELSE {})

Receive ==
  /\ step = "work" /\ Recv(Main)
  /\ \E l \in AfterMessage : Goes(l)

Eof == dataClosed /\ buf = <<>>

AtEnd ==
  IF method \in BidiMethods THEN "finish"
  ELSE IF method \in WithTrailer THEN "trailer" ELSE "reply"

InputEnds ==
  /\ step = "work" /\ RecvEnd(Main)
  /\ \/ Eof /\ Goes(AtEnd)
     \/ doneClosed /\ method \notin TestMethods /\ Goes("return")

Echo ==
  /\ SendFromStream(Main, "data")
  /\ produced' = produced + 1 /\ step' = "work"
  /\ UNCHANGED <<method, cancelled>>

EchoMessage ==
  /\ step = "echo"
  /\ Echo \/ (Refused /\ Goes("return"))

(***************************************************************************)
(* The ends of a handler.                                                  *)
(***************************************************************************)
Trailer ==
  /\ step = "trailer"
  /\ SetTrailer(Main)
  /\ Goes(IF method \in ClientMethods THEN "reply" ELSE "finish")

(* The one response of a client-streaming call; its error is ignored.      *)
Reply ==
  /\ step = "reply"
  /\ \/ /\ SendFromStream(Main, "data")
        /\ produced' = produced + 1 /\ step' = "finish"
        /\ UNCHANGED <<method, cancelled>>
     \/ Refused /\ Goes("finish")

(* The handlers of the example end the stream, the test handlers only      *)
(* their half of it.                                                       *)
FinishStream ==
  /\ step = "finish"
  /\ \/ IF method \in TestMethods THEN SendFromStream(Main, "half") ELSE EndStream(Main)
     \/ Refused
  /\ Goes("return")

BugFail == Idle /\ UNCHANGED vars
Fail == ErrorStream(Main) \/ Refused

FailStream ==
  /\ step = "fail"
  /\ Fail
  /\ Goes("return")

(* The deferred CloseStreamSession.                                        *)
HandlerReturns ==
  /\ step = "return"
  /\ CloseUnmap(Main)
  /\ Goes("returned")

(* The handler is inside an operation of the session.                      *)
Proceeds ==
  /\ \/ CloseDone(Main) \/ CloseData(Main) \/ CloseDoneLast(Main)
     \/ \E l \in {"data", "half", "header"} : Callback(Main, l, "idle")
     \/ Callback(Main, "trailer", "end")
     \/ \E l \in {"end", "error"} : Callback(Main, l, "done")
  /\ UNCHANGED handler

---------------------------------------------------------------------------
Handler ==
  \/ AwaitReady \/ BadRequest \/ Produce \/ ProducedAll
  \/ Wait \/ Receive \/ InputEnds \/ EchoMessage
  \/ Trailer \/ Reply \/ FinishStream \/ FailStream \/ HandlerReturns \/ Proceeds

(* Dart, on the threads that call the exports.                             *)
DartStep(c) ==
  /\ Continue(c) \/ Begin(c)
  /\ cancelled' = (cancelled \/ (At(c, "idle") /\ inMap /\ ~inMap'))
  /\ UNCHANGED <<method, step, produced>>

OtherGoesOn(r) == method = "other" /\ Continue(r) /\ UNCHANGED handler
OtherBegins(r) == method = "other" /\ Begin(r) /\ UNCHANGED handler

HandlersNext ==
  \/ \E r \in Routines : OtherGoesOn(r) \/ OtherBegins(r)
  \/ method # "other" /\ Handler
  \/ \E c \in Callers : DartStep(c)

(* A thread that is in an operation of the session goes on when it can;    *)
(* a known handler also begins the next one, any other handler need not.   *)
(* The timer of WaitForReady may fire, but nothing relies on it, as it is  *)
(* not there without a time-out.                                           *)
NoTimer(r) == At(r, "await") => readyClosed \/ doneClosed

HandlersSpec ==
  /\ HandlersInit /\ [][HandlersNext]_allVars
  /\ \A c \in Callers : WF_allVars(DartStep(c) /\ Continue(c))
  /\ \A r \in Routines : WF_allVars(NoTimer(r) /\ OtherGoesOn(r))
  /\ WF_allVars(NoTimer(Main) /\ method # "other" /\ Handler)

---------------------------------------------------------------------------
Sends(k) == \E i \in DOMAIN out : out[i] = k

(* Dart learns how every stream of the example ended, by the end or by an  *)
(* error, unless it has closed the stream itself: no handler returns       *)
(* without a word, on any of its early returns (stream_impl.go:15-126,     *)
(* file_service.go:124-229).                                               *)
ToldUnlessCancelled ==
  step = "returned" /\ ~cancelled /\ method \in Methods \ TestMethods =>
    Sends("end") \/ Sends("error") \/ pc[Main] \in EndPC

(* Nothing follows the end of a stream, and it is the end of complete      *)
(* work: every message was received, every one of a bidirectional stream   *)
(* echoed, and a file comes with the trailer of its hash before it         *)
(* (file_service.go:135, 199).                                             *)
EndIsComplete ==
  /\ NoDataAfterTerminal
  /\ Sends("end") =>
    /\ method \in ClientMethods => buf = <<>> /\ produced = 1
    /\ method \in BidiMethods   => buf = <<>> /\ produced = Len(rcvd)
    /\ method \in ServerMethods => produced = Items
    /\ method \in WithTrailer   => Sends("trailer")

(* Once Dart has closed a stream everybody who waits in it goes on, and    *)
(* its handler returns, wherever it is: no goroutine is left behind, those *)
(* that range over DataChan included (test_handlers.go:42, 58).            *)
CancelEndsHandler ==
  /\ ReadersReleased
  /\ cancelled /\ method # "other" ~> pc[Main] = "exited" \/ crash # "none"
=============================================================================
