----------------------------- MODULE DartBridge -----------------------------
(***************************************************************************)
(* One streaming call from Go to Dart over the FFI callbacks:              *)
(* InvokeDartStream, InvokeDartClientStream and InvokeDartBidiStream of    *)
(* pkg/service/server.go on the Go side, the event loop of the Dart        *)
(* isolate (lib/synurang.dart) and the handler it runs on the other.       *)
(*                                                                         *)
(* The call uses a session of its own, so the module extends StreamSession *)
(* and every step is a step of the session, of the call, or of both.  The  *)
(* one caller of the FFI exports is the isolate; the routines are the      *)
(* goroutine of the call and, for a bidirectional call, its reader.        *)
(***************************************************************************)
EXTENDS StreamSession

CONSTANTS Dart, Go, Reader,
          Requests   \* how many requests a client or bidi call sends

ASSUME BridgeAssumption ==
  /\ Callers = {Dart}
  /\ Routines = {Go, Reader} /\ Main = Go /\ Go # Reader
  /\ Requests \in Nat /\ MaxOut > Requests

Kind == {"server", "client", "bidi"}

VARIABLES
  kind,       \* which of the three calls it is
  timed,      \* is StreamTimeout greater than 0?
  empty,      \* requests that marshal to no bytes at all
  stage,      \* where the goroutine of the call is
  reader,     \* the reader goroutine: "none", "loop" or "done"
  sent,       \* requests handed to Dart
  results,    \* responses collected
  outcome,    \* how the call ended, "none" until then
  handler,    \* the handler in Dart
  active,     \* is there a controller for the stream in _activeStreams?
  handled,    \* callbacks the event loop has taken, in order of posting
  seen,       \* requests that reached the handler
  inputDone   \* the handler has seen the end of its requests

call == <<kind, timed, empty, stage, reader, sent, results, outcome>>
dart == <<handler, active, handled, seen, inputDone>>
allVars == <<vars, call, dart>>

BridgeInit ==
  /\ Init
  /\ kind \in Kind /\ timed \in BOOLEAN
  /\ empty \in SUBSET (1 .. Requests) /\ (kind = "server" => empty = {})
  /\ stage = "calling" /\ reader = "none"
  /\ sent = 0 /\ results = <<>> /\ outcome = "none"
  /\ handler = "posted" /\ active = FALSE
  /\ handled = 0 /\ seen = {} /\ inputDone = FALSE

Idle(t) == At(t, "idle")

(***************************************************************************)
(* The Go side.  The unary call that starts the handler returns when Dart  *)
(* has acknowledged it or CleanupPending answers in its place, and fails   *)
(* when its timer fires.                                                   *)
(***************************************************************************)
CallReturns ==
  /\ stage = "calling" /\ Idle(Go)
  /\ stage' = IF kind = "server" THEN "await" ELSE "send"
  /\ reader' = IF kind = "bidi" THEN "loop" ELSE reader
  /\ UNCHANGED <<vars, kind, timed, empty, sent, results, outcome, dart>>

CallFails ==
  /\ stage = "calling" /\ Idle(Go)
  /\ stage' = "close" /\ outcome' = "call failed"
  /\ UNCHANGED <<vars, kind, timed, empty, reader, sent, results, dart>>

SendRequest ==
  /\ stage = "send" /\ outcome = "none" /\ sent < Requests
  /\ SendFromStream(Go, "data")
  /\ sent' = sent + 1
  /\ UNCHANGED <<kind, timed, empty, stage, reader, results, outcome, dart>>

(* SendFromStream found the session closed: the client call returns, the   *)
(* bidirectional one goes on to CloseSend.                                 *)
SendFails ==
  /\ stage = "send" /\ outcome = "none" /\ sent < Requests
  /\ Idle(Go) /\ Lock /\ closed
  /\ outcome' = "send error"
  /\ stage' = IF kind = "client" THEN "close" ELSE stage
  /\ UNCHANGED <<vars, kind, timed, empty, reader, sent, results, dart>>

AllSent == sent = Requests \/ outcome = "send error"

(* session.CloseSend(); its error is ignored.                              *)
CloseSend ==
  /\ stage = "send" /\ AllSent
  /\ \/ SendFromStream(Go, "half")
     \/ Idle(Go) /\ Lock /\ closed /\ UNCHANGED vars
  /\ stage' = "await"
  /\ UNCHANGED <<kind, timed, empty, reader, sent, results, outcome, dart>>

(* Waiting for data: the server call selects on DataChan, DoneChan and the *)
(* timer, the client call on DataChan and the timer.                       *)
Await ==
  /\ stage = "await" /\ kind # "bidi"
  /\ Start(Go, IF kind = "server" THEN "recvsel" ELSE "recv")
  /\ UNCHANGED <<call, dart>>

(* A response that does not decode ends a client call; the other calls     *)
(* skip it.                                                                *)
Decoded(ok) == results' = IF ok THEN Append(results, Head(buf)) ELSE results

Collect ==
  /\ stage = "await" /\ kind # "bidi"
  /\ Recv(Go)
  /\ \E ok \in BOOLEAN :
       /\ Decoded(ok)
       /\ IF kind = "server" THEN UNCHANGED <<stage, outcome>>
          ELSE stage' = "close" /\ outcome' = IF ok THEN "ok" ELSE "bad response"
  /\ UNCHANGED <<kind, timed, empty, reader, sent, dart>>

InputEnds ==
  /\ stage = "await" /\ kind # "bidi"
  /\ RecvEnd(Go)
  /\ IF kind = "server" THEN stage' = "returned" /\ outcome' = "ok"
                        ELSE stage' = "close" /\ outcome' = "no response"
  /\ UNCHANGED <<kind, timed, empty, reader, sent, results, dart>>

BugTimeoutStage == IF kind = "client" THEN "close" ELSE "returned"
TimeoutStage == "close"

Timeout ==
  /\ stage = "await" /\ timed
  /\ \/ kind # "bidi" /\ GiveUp(Go)
     \/ kind = "bidi" /\ Idle(Go) /\ UNCHANGED vars
  /\ stage' = TimeoutStage /\ outcome' = "timeout"
  /\ UNCHANGED <<kind, timed, empty, reader, sent, results, dart>>

(* The bidirectional call returns when its reader has ended.               *)
ReaderEnded ==
  /\ stage = "await" /\ kind = "bidi" /\ reader = "done" /\ Idle(Go)
  /\ stage' = "returned"
  /\ outcome' = IF outcome = "none" THEN "ok" ELSE outcome
  /\ UNCHANGED <<vars, kind, timed, empty, reader, sent, results, dart>>

BugCloseCall ==
  /\ Idle(Go) /\ Goto(Go, "exited")
  /\ UNCHANGED <<inMap, mu, flags, readyClosed, buf, sendq, meta, out, rcvd, issued, crash>>
CloseCall == CloseUnmap(Go)

Close ==
  /\ stage = "close"
  /\ CloseCall
  /\ UNCHANGED <<call, dart>>

(* After CloseStreamSession the call returns; a bidirectional one waits    *)
(* for its reader first.                                                   *)
Return ==
  /\ stage = "close" /\ At(Go, "exited") /\ reader # "loop"
  /\ stage' = "returned"
  /\ UNCHANGED <<vars, kind, timed, empty, reader, sent, results, outcome, dart>>

(* The reader of the bidirectional call selects on DataChan and DoneChan.  *)
ReaderWaits ==
  /\ reader = "loop"
  /\ Start(Reader, "recvsel")
  /\ UNCHANGED <<call, dart>>

ReaderCollects ==
  /\ Recv(Reader)
  /\ \E ok \in BOOLEAN : Decoded(ok)
  /\ UNCHANGED <<kind, timed, empty, stage, reader, sent, outcome, dart>>

ReaderEnds ==
  /\ RecvEnd(Reader)
  /\ reader' = "done"
  /\ UNCHANGED <<kind, timed, empty, stage, sent, results, outcome, dart>>

(***************************************************************************)
(* The Dart side.  The isolate takes one event at a time, and none while   *)
(* it is inside an FFI call.  The handler answers as it likes: it need not *)
(* wait for its requests, and may end with an error.                       *)
(***************************************************************************)
(* Without a handler, or when it throws, the call is answered and that is  *)
(* all; the handler of a client or bidi call registers a controller.       *)
RunHandler ==
  /\ handler = "posted" /\ Idle(Dart)
  /\ \/ handler' = "missing" /\ UNCHANGED active
     \/ handler' = "open" /\ active' = (kind # "server")
  /\ UNCHANGED <<vars, call, handled, seen, inputDone>>

(* A posted callback goes to the controller, but a request of no bytes is  *)
(* dropped; the end of the requests removes the controller.                *)
ToController(i) ==
  /\ seen' = IF out[i] = "data" /\ i \notin empty THEN seen \cup {i} ELSE seen
  /\ inputDone' = (out[i] = "half")
  /\ active' = (out[i] # "half")

HandleCallback ==
  /\ handler # "posted" /\ Idle(Dart) /\ handled < Len(out)
  /\ handled' = handled + 1
  /\ \/ active /\ ToController(handled + 1)
     \/ ~active /\ UNCHANGED <<active, seen, inputDone>>
  /\ UNCHANGED <<vars, call, handler>>

(* sendStreamData; the one response of a client call ends its handler.     *)
Respond ==
  /\ handler = "open"
  /\ SendLookup(Dart)
  /\ handler' = IF kind = "client" THEN "answered" ELSE handler
  /\ UNCHANGED <<call, active, handled, seen, inputDone>>

(* closeStream, when the handler is done or has failed.                    *)
CloseHandler ==
  /\ handler \in {"open", "answered"}
  /\ CloseUnmap(Dart)
  /\ handler' = "closed"
  /\ UNCHANGED <<call, active, handled, seen, inputDone>>

(* A thread goes on with what it does inside the session.                  *)
Proceed(t) ==
  /\ \/ CloseDone(t) \/ CloseData(t)
     \/ t = Dart /\ (SendCheck(t) \/ SendSelect(t))
     \/ t = Go /\ \E l \in {"data", "half"} : Callback(t, l, "idle")
  /\ UNCHANGED <<call, dart>>

---------------------------------------------------------------------------
GoStep == \/ CallReturns \/ CallFails \/ SendRequest \/ SendFails \/ CloseSend
          \/ Await \/ Collect \/ InputEnds \/ Timeout \/ ReaderEnded
          \/ Close \/ Return \/ Proceed(Go)

ReaderStep == ReaderWaits \/ ReaderCollects \/ ReaderEnds

DartStep == RunHandler \/ HandleCallback \/ Respond \/ CloseHandler \/ Proceed(Dart)

BridgeNext == GoStep \/ ReaderStep \/ DartStep

(* Goroutines that can go on do, timers fire, and an FFI call of the       *)
(* isolate goes on; nothing makes the isolate take an event or the handler *)
(* answer.                                                                 *)
BridgeFairness == WF_allVars(GoStep) /\ WF_allVars(ReaderStep) /\ WF_allVars(Proceed(Dart))

BridgeSpec == BridgeInit /\ [][BridgeNext]_allVars /\ BridgeFairness

---------------------------------------------------------------------------
(* A call that has returned leaves no session behind, on whichever path it *)
(* returned (server.go:280-321, 333, 445).                                 *)
SessionRemoved == stage = "returned" => ~inMap

(* A handler that sees the end of its requests has received every request  *)
(* that has any bytes, and the end never overtakes one (server.go:344-350, *)
(* 419-426).  Dart drops an empty request (synurang.dart:1456), so the end *)
(* does not say that the handler has got all that were sent.               *)
RequestsComplete == inputDone => seen = (1 .. Requests) \ empty

(* With a StreamTimeout every call returns, whatever the handler does, and *)
(* even when the isolate never takes an event (server.go:319, 368, 444).   *)
InvokeReturns == timed ~> stage = "returned" \/ crash # "none"

(* The isolate, blocked in SendStreamData on a full DataChan, is released, *)
(* with or without a timeout: whoever collects goes on reading until the   *)
(* session is closed, and a call that gives up closes it (server.go:320,   *)
(* 333, 445).                                                              *)
DartReleased == pc[Dart] = "parked" ~> pc[Dart] # "parked" \/ crash # "none"

(* "Close a stream (signal EOF to Go)" (synurang.dart:1350): a server call *)
(* that ends because the handler closed the stream returns every response  *)
(* that was accepted before.                                               *)
NothingLost == kind = "server" /\ outcome = "ok" => buf = <<>>
=============================================================================
