--------------------------- MODULE RequestHandler ---------------------------
(***************************************************************************)
(* Unary calls from Go to Dart: the RequestHandler of                      *)
(* pkg/service/ffi_utils.go, the callback that cmd/server/main.go installs *)
(* as service.DartCallback, and the Dart side of it in lib/synurang.dart.  *)
(* Callers are goroutines, each making one call at a time; an isolate is a *)
(* Dart event loop that takes posted callbacks one after the other and     *)
(* answers each with a synchronous call of SendFfiResponse.                *)
(*                                                                         *)
(* A call is known by its request id.  Its answer is abstracted to "reply" *)
(* (bytes of the handler) or "empty" (no bytes: the handler threw, there   *)
(* is no handler, or CleanupPending sent nil).                             *)
(***************************************************************************)
EXTENDS Naturals, Sequences

CONSTANTS
  Callers,     \* goroutines that call service.DartCallback
  Isolates,    \* Dart isolates that call registerDartHandler
  NoIsolate,   \* dartCallback is nil
  MaxCalls     \* bound: number of requests ever created

ASSUME HandlerAssumption ==
  /\ NoIsolate \notin Isolates
  /\ MaxCalls \in Nat

Ids == 1..MaxCalls
Answers == {"reply", "empty"}
Outcomes == Answers \cup {"timeout"}

VARIABLES
  nextId, pending,
  chan,          \* contents of each request's channel of capacity 1, or "none"
  outcome,       \* what WaitForResponse returned for each request, or "none"
  pc, cur,       \* where each caller is, and the id of its latest request
  dartCallback,  \* the isolate whose callback Go holds
  live,          \* the NativeCallable of that callback is open
  handlers,      \* isolates with a _dartHandler
  queue,         \* requests posted to each isolate, oldest first
  ipc, job,      \* where each isolate is, and the request it works on
  reply,         \* the answer that each isolate is about to send
  aborted        \* undefined behaviour has taken the process down

callers  == <<pc, cur>>
isolates == <<handlers, queue, ipc, job, reply>>
callback == <<dartCallback, live>>
vars == <<nextId, pending, chan, outcome, callers, callback, isolates, aborted>>

At(c, l)  == ~aborted /\ pc[c] = l
IAt(i, l) == ~aborted /\ ipc[i] = l
Goto(c, l)  == pc' = [pc EXCEPT ![c] = l]
IGoto(i, l) == ipc' = [ipc EXCEPT ![i] = l]

Init ==
  /\ nextId = 0 /\ pending = {}
  /\ chan = [id \in Ids |-> "none"]
  /\ outcome = [id \in Ids |-> "none"]
  /\ pc = [c \in Callers |-> "idle"] /\ cur = [c \in Callers |-> 0]
  /\ dartCallback = NoIsolate /\ live = FALSE
  /\ handlers = {}
  /\ queue = [i \in Isolates |-> <<>>]
  /\ ipc = [i \in Isolates |-> "idle"] /\ job = [i \in Isolates |-> 0]
  /\ reply = [i \in Isolates |-> "empty"]
  /\ aborted = FALSE

(***************************************************************************)
(* The Go side.  CreateRequest also allocates the C copies of the method   *)
(* and the data; the deferred frees run when WaitForResponse returns, so   *)
(* the copies of a request are live exactly while it has no outcome.       *)
(***************************************************************************)
RequestId == nextId + 1

CreateRequest(c) ==
  /\ At(c, "idle") /\ dartCallback # NoIsolate /\ nextId < MaxCalls
  /\ nextId' = nextId + 1
  /\ pending' = pending \cup {RequestId}
  /\ cur' = [cur EXCEPT ![c] = RequestId]
  /\ Goto(c, "post")
  /\ UNCHANGED <<chan, outcome, callback, isolates, aborted>>

(* invoke_dart_callback: a listener callback posts a message and returns.  *)
(* Calling one that unregisterDartHandler has closed is undefined; dart    *)
(* either loses the message or aborts the process.                         *)
Post(c) ==
  /\ At(c, "post")
  /\ \/ /\ live
        /\ queue' = [queue EXCEPT ![dartCallback] = Append(@, cur[c])]
        /\ aborted' = aborted
     \/ /\ ~live
        /\ queue' = queue
        /\ aborted' \in BOOLEAN
  /\ Goto(c, "wait")
  /\ UNCHANGED <<nextId, pending, chan, outcome, cur, callback, handlers, ipc, job, reply>>

Return(c, o) ==
  /\ outcome' = [outcome EXCEPT ![cur[c]] = o]
  /\ Goto(c, "idle")

(* WaitForResponse: the two cases of the select, and what follows a timeout. *)
Receive(c) ==
  /\ At(c, "wait") /\ chan[cur[c]] # "none"
  /\ chan' = [chan EXCEPT ![cur[c]] = "none"]
  /\ Return(c, chan[cur[c]])
  /\ UNCHANGED <<nextId, pending, cur, callback, isolates, aborted>>

BugTimerFires(c) ==
  /\ FALSE /\ Goto(c, "expire")
  /\ UNCHANGED <<nextId, pending, chan, outcome, cur, callback, isolates, aborted>>
TimerFires(c) ==
  /\ At(c, "wait")
  /\ Goto(c, "expire")
  /\ UNCHANGED <<nextId, pending, chan, outcome, cur, callback, isolates, aborted>>

BugForget(c) == pending' = pending
Forget(c) == pending' = pending \ {cur[c]}

Expire(c) ==
  /\ At(c, "expire")
  /\ Forget(c)
  /\ Return(c, "timeout")
  /\ UNCHANGED <<nextId, chan, cur, callback, isolates, aborted>>

(***************************************************************************)
(* The Dart side: _handleDartCallback up to the call of SendFfiResponse.   *)
(* The handler reads the C copies in place, whether or not they are live;  *)
(* reading freed memory may take the process down.                         *)
(***************************************************************************)
Dequeue(i) ==
  /\ IAt(i, "idle") /\ queue[i] # <<>>
  /\ queue' = [queue EXCEPT ![i] = Tail(@)]
  /\ job' = [job EXCEPT ![i] = Head(queue[i])]
  /\ IGoto(i, IF i \in handlers THEN "handle" ELSE "respond")
  /\ UNCHANGED <<nextId, pending, chan, outcome, callers, callback, handlers, reply, aborted>>

RunHandler(i) ==
  /\ IAt(i, "handle")
  /\ \E a \in Answers : reply' = [reply EXCEPT ![i] = a]
  /\ IF outcome[job[i]] = "none" THEN aborted' = aborted ELSE aborted' \in BOOLEAN
  /\ IGoto(i, "respond")
  /\ UNCHANGED <<nextId, pending, chan, outcome, callers, callback, handlers, queue, job>>

(* Back in the event loop, the locals of the callback are gone. *)
Done(i) ==
  /\ IGoto(i, "idle")
  /\ job' = [job EXCEPT ![i] = 0] /\ reply' = [reply EXCEPT ![i] = "empty"]

(* HandleResponse: take the entry of the request that is answered under    *)
(* the lock, and send after releasing it.                                  *)
Answered(i) == job[i]

BugTake(i) == pending' = pending
Take(i) == pending' = pending \ {Answered(i)}

HandleResponse(i) ==
  /\ IAt(i, "respond")
  /\ Take(i)
  /\ IF Answered(i) \in pending THEN IGoto(i, "answer") /\ UNCHANGED <<job, reply>>
                                ELSE Done(i)
  /\ UNCHANGED <<nextId, chan, outcome, callers, callback, handlers, queue, aborted>>

Answer(i) ==
  /\ IAt(i, "answer") /\ chan[Answered(i)] = "none"
  /\ chan' = [chan EXCEPT ![Answered(i)] = reply[i]]
  /\ Done(i)
  /\ UNCHANGED <<nextId, pending, outcome, callers, callback, handlers, queue, aborted>>

(* registerDartHandler and RegisterDartCallback: every pending request is  *)
(* answered with nil before dartCallback is replaced.                      *)
BugCleanupPending ==
  /\ chan' = [id \in Ids |-> IF id \in pending /\ chan[id] = "none" THEN "empty" ELSE chan[id]]
  /\ pending' = pending
CleanupPending ==
  /\ chan' = [id \in Ids |-> IF id \in pending /\ chan[id] = "none" THEN "empty" ELSE chan[id]]
  /\ pending' = {}

Register(i) ==
  /\ IAt(i, "idle")
  /\ handlers' = handlers \cup {i}
  /\ CleanupPending
  /\ IGoto(i, "assign")
  /\ UNCHANGED <<nextId, outcome, callers, callback, queue, job, reply, aborted>>

Assign(i) ==
  /\ IAt(i, "assign")
  /\ dartCallback' = i /\ live' = TRUE
  /\ IGoto(i, "idle")
  /\ UNCHANGED <<nextId, pending, chan, outcome, callers, handlers, queue, job, reply, aborted>>

(* unregisterDartHandler closes the callable but Go keeps its pointer.     *)
(* Messages that are queued on it may be dropped; those that were posted   *)
(* through a callable of an earlier registration are still delivered.      *)
Unregister(i) ==
  /\ IAt(i, "idle") /\ i \in handlers
  /\ handlers' = handlers \ {i}
  /\ live' = (live /\ dartCallback # i)
  /\ \E n \in 0..Len(queue[i]) : queue' = [queue EXCEPT ![i] = SubSeq(@, 1, n)]
  /\ UNCHANGED <<nextId, pending, chan, outcome, callers, dartCallback, ipc, job, reply, aborted>>

(***************************************************************************)
(* The next-state relation.  Waiting callers and busy isolates go on; an   *)
(* event loop takes what is queued.  Nothing forces a new call or a new    *)
(* registration.                                                           *)
(***************************************************************************)
Go(c)   == Post(c) \/ Receive(c) \/ TimerFires(c) \/ Expire(c)
Loop(i) == Dequeue(i) \/ RunHandler(i) \/ HandleResponse(i) \/ Answer(i) \/ Assign(i)

Next ==
  \/ \E c \in Callers  : Go(c) \/ CreateRequest(c)
  \/ \E i \in Isolates : Loop(i) \/ Register(i) \/ Unregister(i)

(* The timer of a waiting caller fires eventually: that is part of Go(c).  *)
Fairness == /\ \A c \in Callers  : WF_vars(Go(c))
            /\ \A i \in Isolates : WF_vars(Loop(i))

Spec == Init /\ [][Next]_vars /\ Fairness

---------------------------------------------------------------------------
CallerPC  == {"idle", "post", "wait", "expire"}
IsolatePC == {"idle", "handle", "respond", "answer", "assign"}

TypeOK ==
  /\ nextId \in 0..MaxCalls
  /\ pending \subseteq 1..nextId
  /\ chan \in [Ids -> Answers \cup {"none"}]
  /\ outcome \in [Ids -> Outcomes \cup {"none"}]
  /\ pc \in [Callers -> CallerPC] /\ cur \in [Callers -> 0..nextId]
  /\ dartCallback \in Isolates \cup {NoIsolate}
  /\ live \in BOOLEAN /\ handlers \subseteq Isolates
  /\ queue \in [Isolates -> Seq(1..nextId)]
  /\ ipc \in [Isolates -> IsolatePC] /\ job \in [Isolates -> 0..nextId]
  /\ reply \in [Isolates -> Answers]
  /\ aborted \in BOOLEAN

(* "ch <- data" in HandleResponse (ffi_utils.go:72) never blocks the Dart  *)
(* isolate that calls SendFfiResponse: the channel has room.               *)
AnswerNeverBlocks == \A i \in Isolates : ipc[i] = "answer" => chan[job[i]] = "none"

(* No request stays in the pending map after its call has returned,        *)
(* whichever of the response, the timeout and CleanupPending ended it.     *)
NoLeak == \A id \in pending : \E c \in Callers : cur[c] = id /\ pc[c] # "idle"

(* Every call returns, whatever Dart does: the timer bounds the wait.      *)
CallsReturn == \A c \in Callers : pc[c] # "idle" ~> pc[c] = "idle" \/ aborted

(* A request has one answer: the value on its channel, the value that an   *)
(* isolate has taken the entry to send, or the value the call returned.    *)
Given(id) ==
  IF chan[id] # "none" THEN chan[id]
  ELSE IF \E i \in Isolates : ipc[i] = "answer" /\ job[i] = id
    THEN reply[CHOOSE i \in Isolates : ipc[i] = "answer" /\ job[i] = id]
  ELSE IF outcome[id] \in Answers THEN outcome[id]
  ELSE "none"

Abstract == INSTANCE DartCall
              WITH begun <- 1..nextId, answer <- [id \in Ids |-> Given(id)]
(* The calls implement the abstract promise of DartCall: each ends at most *)
(* once, with a timeout or with the only answer Dart gave it.              *)
ImplementsDartCall == Abstract!Spec

(* lib/synurang.dart:13 says that Dart itself frees all data from Go, when *)
(* the list that shows it is collected: a handler never reads freed data.  *)
HandlerReadsLiveData ==
  \A i \in Isolates : ipc[i] = "handle" => outcome[job[i]] = "none"
=============================================================================
