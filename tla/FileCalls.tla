------------------------------ MODULE FileCalls ------------------------------
(***************************************************************************)
(* The calls of example/go/service/file_service.go that move a file        *)
(* between Go and a handler in Dart, beside those of pkg/service/server.go *)
(* (DartBridge): CallDartUploadFile, CallDartDownloadFile and              *)
(* CallDartBidiFile use the sessions themselves.  In each of them the      *)
(* timer is set and CloseStreamSession is deferred.                        *)
(*                                                                         *)
(* An upload does what InvokeDartClientStream does, a download waits for   *)
(* DataChan alone, and the bidirectional call has a goroutine that sends,  *)
(* which is Reader here, and receives itself.                              *)
(***************************************************************************)
EXTENDS DartBridge

VARIABLES
  file,      \* the call is one of file_service.go
  errChan,   \* errors in errChan of a bidirectional call (capacity 2)
  hashChan   \* the sender has put its hash in hashChan (capacity 1)

sender   == <<errChan, hashChan>>
fileVars == <<allVars, file, sender>>

FileInit ==
  /\ BridgeInit
  /\ file \in BOOLEAN /\ (file => timed /\ empty = {})
  /\ errChan = 0 /\ hashChan = FALSE

Download == file /\ kind = "server"
BidiFile == file /\ kind = "bidi"

Ends(o) == stage' = "close" /\ outcome' = o

(***************************************************************************)
(* Receiving: a chunk that does not decode ends either call.               *)
(***************************************************************************)
BugWaitFor == "recvsel"
WaitFor    == "recv"

FileAwaits ==
  /\ (Download \/ BidiFile) /\ stage = "await"
  /\ Start(Go, WaitFor)
  /\ UNCHANGED <<call, dart, file, sender>>

FileCollects ==
  /\ (Download \/ BidiFile) /\ stage = "await"
  /\ Recv(Go)
  /\ \/ Decoded(TRUE) /\ UNCHANGED <<stage, outcome>>
     \/ Decoded(FALSE) /\ Ends("bad chunk")
  /\ UNCHANGED <<kind, timed, empty, reader, sent, dart, file, sender>>

DownloadEnds ==
  /\ Download /\ stage = "await"
  /\ RecvEnd(Go)
  /\ Ends("ok")
  /\ UNCHANGED <<kind, timed, empty, reader, sent, results, dart, file, sender>>

FileTimesOut ==
  /\ Download \/ BidiFile
  /\ \/ stage = "await" /\ GiveUp(Go)
     \/ stage = "hash" /\ Idle(Go) /\ UNCHANGED vars
  /\ Ends("timeout")
  /\ UNCHANGED <<kind, timed, empty, reader, sent, results, dart, file, sender>>

(***************************************************************************)
(* CallDartBidiFile: after the end it waits for the hash of the sender,    *)
(* and looks at errChan only before.                                       *)
(***************************************************************************)
BidiStarts ==
  /\ BidiFile /\ stage = "calling" /\ Idle(Go)
  /\ stage' = "await" /\ reader' = "send"
  /\ UNCHANGED <<vars, kind, timed, empty, sent, results, outcome, dart, file, sender>>

EchoEnds ==
  /\ BidiFile /\ stage = "await"
  /\ RecvEnd(Go)
  /\ stage' = "hash"
  /\ UNCHANGED <<kind, timed, empty, reader, sent, results, outcome, dart, file, sender>>

TakeError ==
  /\ BidiFile /\ stage = "await" /\ errChan > 0
  /\ GiveUp(Go)
  /\ errChan' = errChan - 1
  /\ Ends("send error")
  /\ UNCHANGED <<kind, timed, empty, reader, sent, results, dart, file, hashChan>>

(* The hashes differ unless as many chunks came back as were sent.         *)
TakeHash ==
  /\ BidiFile /\ stage = "hash" /\ hashChan /\ Idle(Go)
  /\ hashChan' = FALSE
  /\ \/ Len(results) = sent /\ Ends("ok")
     \/ Ends("mismatch")
  /\ UNCHANGED <<vars, kind, timed, empty, reader, sent, results, dart, file, errChan>>

SenderSends ==
  /\ reader = "send" /\ sent < Requests
  /\ SendFromStream(Reader, "data")
  /\ sent' = sent + 1
  /\ UNCHANGED <<kind, timed, empty, stage, reader, results, outcome, dart, file, sender>>

BugReport == errChan' = errChan + 1 /\ stage = "await"
Report    == errChan' = errChan + 1

SenderFails ==
  /\ reader = "send" /\ sent < Requests
  /\ Idle(Reader) /\ Lock /\ closed
  /\ Report
  /\ reader' = "done"
  /\ UNCHANGED <<vars, kind, timed, empty, stage, sent, results, outcome, dart, file, hashChan>>

SenderCloses ==
  /\ reader = "send" /\ sent = Requests
  /\ SendFromStream(Reader, "half") \/ (Idle(Reader) /\ Lock /\ closed /\ UNCHANGED vars)
  /\ reader' = "hash"
  /\ UNCHANGED <<kind, timed, empty, stage, sent, results, outcome, dart, file, sender>>

SenderHashes ==
  /\ reader = "hash" /\ Idle(Reader)
  /\ hashChan' = TRUE /\ reader' = "done"
  /\ UNCHANGED <<vars, kind, timed, empty, stage, sent, results, outcome, dart, file, errChan>>

SenderProceeds ==
  /\ BidiFile
  /\ \E l \in {"data", "half"} : Callback(Reader, l, "idle")
  /\ UNCHANGED <<call, dart, file, sender>>

---------------------------------------------------------------------------
(* What the calls have in common with those of server.go.                  *)
Common ==
  \/ CallFails \/ Close \/ Return \/ Proceed(Go)
  \/ ~BidiFile /\ CallReturns

FileStep ==
  \/ FileAwaits \/ FileCollects \/ DownloadEnds \/ FileTimesOut
  \/ BidiStarts \/ EchoEnds \/ TakeError \/ TakeHash
  \/ (Download \/ BidiFile) /\ Common /\ UNCHANGED <<file, sender>>

BridgeGo == ~Download /\ ~BidiFile /\ GoStep /\ UNCHANGED <<file, sender>>

Second ==
  \/ ~file /\ ReaderStep /\ UNCHANGED <<file, sender>>
  \/ SenderSends \/ SenderFails \/ SenderCloses \/ SenderHashes \/ SenderProceeds

FileNext ==
  \/ FileStep \/ BridgeGo \/ Second
  \/ DartStep /\ UNCHANGED <<file, sender>>

FileSpec ==
  /\ FileInit /\ [][FileNext]_fileVars
  /\ WF_fileVars(FileStep \/ BridgeGo) /\ WF_fileVars(Second)
  /\ WF_fileVars(Proceed(Dart) /\ UNCHANGED <<file, sender>>)

---------------------------------------------------------------------------
(* A download that ends well has every chunk that the handler sent: the    *)
(* end that CloseStream makes is seen after the chunks before it           *)
(* (file_service.go:357).                                                  *)
DownloadComplete == Download /\ outcome = "ok" => buf = <<>>

(* The goroutine that sends ends although nobody takes its error or its    *)
(* hash once the call has returned: both channels have room                *)
(* (file_service.go:402).                                                  *)
SenderEnds == BidiFile /\ stage = "returned" ~> reader \in {"none", "done"} \/ crash # "none"
=============================================================================
