----------------------------- MODULE WorkerPool -----------------------------
(***************************************************************************)
(* The pool of worker isolates of lib/synurang.dart: the main isolate      *)
(* gives a request to the worker with the fewest pending ones, the worker  *)
(* calls the export of the library, which may call back into Dart          *)
(* (RequestHandler) before it returns, and posts what it got; the main     *)
(* isolate completes the request unless its timer was faster.              *)
(*                                                                         *)
(* With a pool, the callers of RequestHandler are the workers and the main *)
(* isolate is the one that registers; without, they are goroutines that    *)
(* call Dart for reasons of their own, and any isolate registers.  A reply *)
(* of an export is C memory that nobody in Go frees; heap counts it.       *)
(***************************************************************************)
EXTENDS RequestHandler, FiniteSets

CONSTANTS Workers,      \* the size of the pool
          MainIsolate,  \* the isolate that started the pool
          MaxRequests,  \* bound: how many requests a client makes
          MaxTimeouts   \* bound: how many of them time out

ASSUME PoolAssumption ==
  /\ Workers \in Nat \ {0} /\ Callers = 1 .. Workers
  /\ MainIsolate \in Isolates /\ MaxRequests \in Nat /\ MaxTimeouts \in Nat

Id      == 1 .. MaxRequests
Results == {"nothing", "data", "error"}

VARIABLES
  pooled,    \* the program has started a pool
  next,      \* the id of the next request
  request,   \* "new", "waiting", then "timedOut" or what it completed with
  answer,    \* what the export answered to each request, "none" before
  worker,    \* _requestToWorker: 0 for a request that is not in it
  load,      \* pendingRequests of the workers
  mailbox,   \* the messages of the workers, which are ids of requests
  busy,      \* the request whose export a worker is in, 0 for none
  called,    \* the workers whose export has called Dart
  posted,    \* the answers on their way to the main isolate
  heap,      \* how many replies and errors of exports are allocated
  lists      \* how many of them belong to a list of the main isolate

queues   == <<mailbox, posted>>
exports  == <<busy, called, answer>>
memory   == <<heap, lists>>
requests == <<next, request, worker, load>>
poolVars == <<pooled, requests, queues, exports, memory>>
allVars  == <<vars, poolVars>>

PoolInit ==
  /\ Init
  /\ pooled \in BOOLEAN
  /\ next = 1 /\ request = [r \in Id |-> "new"]
  /\ answer = [r \in Id |-> "none"]
  /\ worker = [r \in Id |-> 0] /\ load = [w \in Callers |-> 0]
  /\ mailbox = [w \in Callers |-> <<>>] /\ posted = {}
  /\ busy = [w \in Callers |-> 0] /\ called = {}
  /\ heap = 0 /\ lists = 0

(***************************************************************************)
(* sendRequest, on the main isolate                                        *)
(***************************************************************************)

(* The first worker with the fewest pending requests.                      *)
LeastLoaded ==
  CHOOSE w \in Callers : \A v \in Callers :
    load[w] < load[v] \/ (load[w] = load[v] /\ w <= v)

Send ==
  /\ ~aborted /\ pooled /\ next \in Id
  /\ next' = next + 1
  /\ request' = [request EXCEPT ![next] = "waiting"]
  /\ LET w == LeastLoaded
     IN /\ worker' = [worker EXCEPT ![next] = w]
        /\ load' = [load EXCEPT ![w] = @ + 1]
        /\ mailbox' = [mailbox EXCEPT ![w] = Append(@, next)]
  /\ UNCHANGED <<vars, pooled, posted, exports, memory>>

(* The request leaves the map, and its worker has one less.                *)
BugLeaves(r) == worker' = [worker EXCEPT ![r] = 0] /\ UNCHANGED load
Leaves(r) ==
  /\ worker' = [worker EXCEPT ![r] = 0]
  /\ load' = [w \in Callers |-> IF w = worker[r] THEN load[w] - 1 ELSE load[w]]

(* onTimeout: the worker goes on with the request all the same.            *)
RequestTimesOut(r) ==
  /\ ~aborted /\ request[r] = "waiting"
  /\ Cardinality({q \in Id : request[q] = "timedOut"}) < MaxTimeouts
  /\ request' = [request EXCEPT ![r] = "timedOut"]
  /\ Leaves(r)
  /\ UNCHANGED <<vars, pooled, next, queues, exports, memory>>

(***************************************************************************)
(* _handleIsolateMessage, on a worker                                      *)
(***************************************************************************)
TakeMessage(w) ==
  /\ At(w, "idle") /\ busy[w] = 0 /\ mailbox[w] # <<>>
  /\ busy' = [busy EXCEPT ![w] = Head(mailbox[w])]
  /\ mailbox' = [mailbox EXCEPT ![w] = Tail(@)]
  /\ UNCHANGED <<vars, pooled, requests, posted, called, answer, memory>>

InExport(w) == At(w, "idle") /\ busy[w] # 0

(* The handler of the export calls service.DartCallback (InvokeDart).      *)
CallsDart(w) ==
  /\ InExport(w) /\ w \notin called
  /\ called' = called \cup {w}
  /\ CreateRequest(w)
  /\ UNCHANGED <<pooled, requests, queues, busy, answer, memory>>

(* The worker decodes an error itself and frees it.  Of a reply it sends   *)
(* the address.                                                            *)
BugFreeFfiData(r) == IF r = "nothing" THEN heap ELSE heap + 1
FreeFfiData(r)    == IF r = "data" THEN heap + 1 ELSE heap

(* The export returns a reply in C memory, an error in C memory, which is  *)
(* what a failed call of Dart leads to, or nil: a reply of no bytes, or a  *)
(* key that is not in the cache.  The worker posts what it got.            *)
PostAnswer(w) ==
  /\ InExport(w)
  /\ \E r \in Results :
       /\ w \in called /\ outcome[cur[w]] = "timeout" => r = "error"
       /\ heap' = FreeFfiData(r)
       /\ posted' = posted \cup {[id |-> busy[w], result |-> r]}
       /\ answer' = [answer EXCEPT ![busy[w]] = r]
  /\ called' = called \ {w}
  /\ busy' = [busy EXCEPT ![w] = 0]
  /\ UNCHANGED <<vars, pooled, requests, mailbox, lists>>

(***************************************************************************)
(* _handleResponse, on the main isolate                                    *)
(***************************************************************************)
BugCompletes(a) == request' = [request EXCEPT ![a.id] = a.result]
Completes(a) ==
  request' = IF request[a.id] = "waiting" THEN [request EXCEPT ![a.id] = a.result]
                                          ELSE request

(* The list around the reply is made in the argument of                    *)
(* completer?.complete(...), which nobody evaluates when there is no       *)
(* completer any more.                                                     *)
HandleAnswer(a) ==
  /\ ~aborted /\ a \in posted
  /\ posted' = posted \ {a}
  /\ Leaves(a.id)
  /\ Completes(a)
  /\ lists' = IF a.result = "data" /\ request[a.id] = "waiting" THEN lists + 1
                                                                ELSE lists
  /\ UNCHANGED <<vars, pooled, next, mailbox, exports, heap>>

(* A list is collected: the finalizer attached to it frees the reply.      *)
Collect ==
  /\ ~aborted /\ lists > 0
  /\ lists' = lists - 1 /\ heap' = heap - 1
  /\ UNCHANGED <<vars, pooled, requests, queues, exports>>

(***************************************************************************)
(* The specification.  The timers of Dart need not be fast.                *)
(***************************************************************************)
Worker(w) ==
  \/ Go(w) /\ UNCHANGED poolVars
  \/ TakeMessage(w) \/ CallsDart(w) \/ PostAnswer(w)

(* Without a pool a caller is a goroutine of the server.                   *)
Goroutine(w) == ~pooled /\ CreateRequest(w) /\ UNCHANGED poolVars

Listens(i) ==
  /\ pooled => i = MainIsolate
  /\ Register(i) \/ Unregister(i)
  /\ UNCHANGED poolVars

MainHandles == \E a \in posted : HandleAnswer(a)

PoolNext ==
  \/ Send \/ MainHandles \/ Collect
  \/ \E r \in Id : RequestTimesOut(r)
  \/ \E w \in Callers : Worker(w) \/ Goroutine(w)
  \/ \E i \in Isolates : Loop(i) /\ UNCHANGED poolVars
  \/ \E i \in Isolates : Listens(i)

PoolSpec ==
  /\ PoolInit /\ [][PoolNext]_allVars
  /\ \A w \in Callers : WF_allVars(Worker(w))
  /\ \A i \in Isolates : WF_allVars(Loop(i) /\ UNCHANGED poolVars)
  /\ WF_allVars(MainHandles)

---------------------------------------------------------------------------
Flying == Cardinality({a \in posted : a.result = "data"})
Late   == {r \in Id : request[r] = "timedOut"}

(* What exports allocated is on its way to the main isolate or in a list   *)
(* of Dart, except the replies that came after their request had timed out *)
(* (lib/synurang.dart:886, 1004): errors are freed, and replies not before *)
(* their list is collected.                                                *)
LostOnlyLate ==
  /\ lists + Flying <= heap
  /\ heap <= lists + Flying + Cardinality(Late)

(* pendingRequests of a worker (lib/synurang.dart:721) is what it counts,  *)
(* whether answers or timers come first, or an answer after its timer.     *)
LoadCounts == \A w \in Callers : load[w] = Cardinality({r \in Id : worker[r] = w})

(* Where a request is that the client waits for: in the mailbox of a       *)
(* worker, in its export, or answered and on its way back.                 *)
InMail(r)    ==
  \E w \in Callers : \E i \in DOMAIN mailbox[w] : mailbox[w][i] = r
InHand(r)    == \E w \in Callers : busy[w] = r
Returning(r) == \E a \in posted : a.id = r

(* What sendRequest registered is never dropped on its way: there is       *)
(* always someone who has it (lib/synurang.dart:744).                      *)
NoneForgotten ==
  \A r \in Id : request[r] = "waiting" => InMail(r) \/ InHand(r) \/ Returning(r)

(* A call into Dart returns (ffi_utils.go:54), and so a request of Dart is *)
(* answered without any timer of its own (lib/synurang.dart:744), although *)
(* its export may call back into the isolate that waits for it, and that   *)
(* isolate may have stopped to listen: no worker and isolate wait for each *)
(* other.                                                                  *)
RequestsAnswered ==
  /\ CallsReturn
  /\ \A r \in Id : request[r] = "waiting" ~> request[r] # "waiting" \/ aborted

Completed(r) == IF request[r] \in Results THEN request[r]
                ELSE IF request[r] = "timedOut" THEN "timeout" ELSE "none"

Client == INSTANCE DartCall
            WITH Ids <- Id, Answers <- Results, begun <- 1 .. next - 1,
                 outcome <- [r \in Id |-> Completed(r)]
(* A request of Dart keeps the promise that DartCall makes of the calls in *)
(* the other direction: it ends once, with the answer of its own export or *)
(* with a timeout, whatever arrives later (lib/synurang.dart:876).         *)
ImplementsCall == Client!Spec
=============================================================================
