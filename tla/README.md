# Formal model of synurang

synurang joins a Go core and a Flutter/Dart application in one process, and
lets a Go host load services from shared libraries.  This directory holds TLA+
models of the parts of it whose correctness depends on the order of events,
TLC configurations that check them on small instances, and TLAPS proofs of the
most important properties for instances of any size.

## The system

| Component | Source | State | Operations |
|---|---|---|---|
| Stream session | `pkg/service/stream_handler.go` | `streamSessions`; per session a mutex, `closed`, `inputClosed`, `DataChan` (100), `DoneChan`, `ReadyChan`, headers, trailers | from Dart: `SendToStream`, `CloseStreamInput`, `CloseStreamSession`, `SignalStreamReady`; from Go: receive, `SendFromStream`, `CloseSend`, `SendHeader`, `SetHeader`, `SetTrailer`, `EndStream`, `ErrorStream`, `WaitForReady` |
| Stream handlers | `example/go/service/stream_impl.go`, `file_service.go`, `pkg/service/test_handlers.go` | what was received and produced | wait for ready, receive, send, trailer, end or error |
| Go to Dart stream calls | `pkg/service/server.go`, `example/go/service/file_service.go` | a session per call, collected responses, a timer, a sender goroutine with `errChan` (2) and `hashChan` (1) | `InvokeDartStream`, `InvokeDartClientStream`, `InvokeDartBidiStream`, `CallDartUploadFile`, `CallDartDownloadFile`, `CallDartBidiFile` |
| Unary Go to Dart calls | `pkg/service/ffi_utils.go`, `cmd/server/main.go` | map of pending requests, one channel per request, the registered callback | `CreateRequest`, `WaitForResponse`, `HandleResponse`, `CleanupPending`, `RegisterDartCallback`, `SendFfiResponse` |
| In-process transport | `pkg/synurang/synurang.go`, generated dispatch, client and wrappers | `sendCh`, `recvCh`, `errCh`, `closed`, the context | `SendMsg`, `CloseSend`, `RecvMsg` on both ends, the goroutine of the handler |
| Plugin host | `pkg/synurang/plugin.go`, `plugin_conn.go` | library handle, symbol caches, `activeStreams`, wait group, `closed` | `Invoke`, `OpenStream`, `StreamSend`, `StreamCloseSend`, `StreamRecv`, `StreamClose`, `Close` |
| Plugin library | `pkg/plugin/server.go`, generated code | streams, each with `SendCh`, `RecvCh` (16), `ErrCh`, flags, a context | `Open`, `Send`, `CloseSend`, `Recv`, `Close`, the handler's goroutine |
| Cache | `pkg/service/cache.go` | an SQLite table, limits, the access channel and pending batch, two goroutines, pause timer | `Put`, `Get`, `Delete`, `Clear`, limits, `Compact`, `Pause`, `Resume`, `Close` |
| Server lifecycle | `cmd/server/main.go`, `example/cmd/server/main.go` | `srv`, `impl`, `implMu`, `listeners`, `serverErrors`, `quitChan`; sockets | `StartGrpcServer`, `StopGrpcServer`, `InvokeBackend`, the cache and stream exports |
| Metadata | `cmd/server/main.go`, `lib/synurang.dart` | none | encode in Dart, `parseMetadata` in Go |
| Dart runtime | `lib/synurang.dart` | stream controllers, handlers; the pool: `_requests`, `_requestToWorker`, `pendingRequests` | callbacks from Go, `sendStreamData`, `closeStream`; `sendRequest`, time-outs, answers, finalizers |
| The rest | loaders, code generator, messages, Rust and C++ bindings | little or none | |

Dart calls Go synchronously through FFI exports, on the thread of its main
isolate or of a worker isolate; Go calls Dart by posting to a
`NativeCallable.listener`, which returns at once and is handled in order by the
event loop of the isolate.  The components interact through those two kinds of
call, through Go channels, and through shared maps under mutexes.  What is hard
is the meeting of the two worlds: an isolate that blocks inside an FFI call
cannot take the event that would release it, channels are closed by one side
while the other sends, a timeout ends a call whose message is still on its way,
a server is stopped before its goroutines have started, and a library is
unloaded while its code may run.  `PROJECT.json` lists these hazards at their
lines with the properties that speak of each.

What makes each part correct: a session is closed once, delivers what Dart
sends in order and ends towards Dart once and last; a handler tells Dart how
its stream ended and returns when it is cancelled; a call always returns and
leaves nothing behind; `io.EOF` means that nothing is missing; no host call is
inside a library that is unloaded; the cache respects its limits and never
resurrects what was deleted; a started server serves, a stopped one leaves
nothing, and no call gets hold of a closed service.

## The modules

| Module | Models | Built on |
|---|---|---|
| `StreamSession` | one session, any number of FFI callers and goroutines | |
| `StreamSessionProofs` | theorems about it | `StreamSession` |
| `Handlers` | the handlers of the example and of the tests on one session | extends `StreamSession` |
| `StreamOutputProofs` | theorems about what Dart is sent, by any user of a session and by the handlers | `Handlers` |
| `DartBridge` | one Go to Dart stream call with its session and the Dart event loop | extends `StreamSession` |
| `FileCalls` | the file calls of the example beside those of `server.go` | extends `DartBridge` |
| `DartBridgeProofs` | theorems about both | `FileCalls` |
| `DartCall` | what a call across the border promises (abstract) | |
| `RequestHandler` | how `RequestHandler` and the Dart callback keep the promise | refines `DartCall` |
| `WorkerPool` | the pool of worker isolates, whose exports call back into Dart | extends `RequestHandler`, refines `DartCall` |
| `RequestHandlerProofs` | theorems about both | `WorkerPool` |
| `Pipe` | what one direction of a stream promises (abstract) | |
| `FfiStream` | one stream of the in-process transport | refines `Pipe` in both directions |
| `FfiGreeter` | the generated client, dispatch and wrappers and the greeter on it | extends `FfiStream` |
| `FfiStreamProofs` | theorems about both | `FfiGreeter` |
| `PluginHost` | the host of one library, its threads and streams | |
| `PluginLibrary` | the library's side of the same streams | extends and refines `PluginHost`, refines `Pipe` for each stream |
| `PluginHostProofs` | theorems about both | `PluginLibrary` |
| `CacheService` | the cache, its clients and its two goroutines | |
| `CachePause` | pausing the cleanup | |
| `Cache` | both | extends `CacheService`, instantiates `CachePause` |
| `CacheProofs` | theorems about it | `Cache` |
| `Server` | the exports of `cmd/server/main.go` | |
| `Metadata` | metadata and time limits, as functions | |
| `ExampleServer` | the host library of the example, or that of `cmd/server` | extends `Server`, `Metadata` |
| `ServerProofs` | theorems about both | `ExampleServer` |

In every module a step is what one thread does between two points where
another can be seen: a critical section, a channel operation, a statement of
the database, the entry into or the return from a foreign call.  A program
counter per thread says where it is.  Names of actions are those of the
functions; when a function has several visible steps they are named for what
they do, and `PROJECT.json` (`map`) gives the lines of each.

`StreamSession`.  A send is looked up (`SendLookup`), checked under the mutex
(`SendCheck`) and then competes in a `select` without it (`SendSelect`), where
it may park; `Recv` hands the room it makes to the sender that has been parked
longest, as the Go runtime does.  A send on a closed channel, a second close
and the concurrent use of a map end in `crash`, with the reason.
`CloseStreamSession` closes two channels in one critical section, and parked
goroutines can be woken in between, so it is the one operation that holds
`mu` across steps.  `out` is the sequence of callbacks made into Dart, by kind.
`ParkedForRoom` says that no wake-up is lost: a sender that sleeps is in the
queue of a channel that is full and open.

`Handlers` makes the goroutine of a session run one of nine registered methods
(`method`), step by step (`step`), or any other code (`"other"`).  Every early
return of a handler is a step; a message of the example may fail to decode.
`cancelled` remembers that Dart closed the stream itself.

`DartBridge` extends `StreamSession`: the isolate is the caller, the goroutine
of the call and (for a bidirectional call) its reader are the routines.  Each
action of the call is a step of the session joined with what the call does
with it, or leaves the session alone; the theorem `CallUsesSession` proves it.
The handler in Dart is user code and may answer, stop or close as it likes; the
example handlers (`example/lib/src/dart_greeter_service.dart`) are instances.
There may also be no handler, or it throws: the call is then acknowledged and
callbacks find no controller (`active`).  Which requests marshal to no bytes
(`empty`) is part of which call it is: the isolate takes their callbacks and
drops them (`ToController`).  A response may fail to decode, which ends a
client call and is skipped in the others.
`FileCalls` adds the three calls of the file service: an upload is what
`InvokeDartClientStream` does, a download waits for `DataChan` alone, and the
bidirectional one sends from a goroutine and compares hashes at the end.  Their
chunks always have content, so none is `empty`.

`RequestHandler` has callers in Go, isolates with their queues, and
registration and hot restart as actions.  It refines `DartCall`, in which a
call waits and ends in one step with a reply, an empty answer or a timeout:
the outcome is fixed at the step where the channel, the map or the timer
decides the race.

`WorkerPool` makes the callers the worker isolates of Dart: a request is sent
to the worker with the fewest pending ones, its export may call back into Dart
through `RequestHandler`, and the answer is posted to the main isolate.  A
request that the client waits for is always in one of these places
(`NoneForgotten`).  C memory is counted (`heap`, `lists`).  Without a pool the callers are goroutines,
as in `RequestHandler` alone, and any isolate registers.  The same `DartCall`
is the abstract view of a request of Dart.

`FfiStream` counts messages instead of storing them: channels are FIFO, so the
k-th message out is the k-th in, and completeness is an equality of counters.
Each direction is a `Pipe`, in which messages are accepted and delivered, the
sender shuts its side well or with an error, and the receiver is told so once,
of a good end after all messages.  The requests are shut by `CloseSend`, the
responses by the return of the handler, whose error may be on its way in a
channel or stored: `Pipe` knows nothing of that, nor of contexts.
`FfiGreeter` runs one call of a generated method on it: the request and the
half-close that a generated client makes before it hands out a stream, the
switch of `InvokeStream`, the wrappers, and the greeter's loops.

`PluginHost` takes calls into the library as an entry and a return, `wg` as
what each thread has added to it, and reduces the library to what the host
relies on: a blocked `Recv` returns after its stream is closed.
`PluginLibrary` replaces that by what the library does, one channel operation
at a time, with the goroutine of each handler, and implements `PluginHost`
(`ImplementsHost`) and, with the requests of each stream, `Pipe`
(`ImplementsPipe`).  The library counts its handles up and never gives one
out twice (`server.go:53`), so `Open` takes one that has had no handler yet.

`CacheService` is a table of records, changed by one action per SQL statement.
The cleanup reads a count, computes an excess, and deletes by rank in separate
steps, since clients are between them.  `Cache` joins it with `CachePause` at
the ticker of the cleanup and at `Close`.

`Server` has the globals of `main.go` as variables, all but `impl` without a
lock, and keeps what a start makes by generation.  The goroutines that serve
are apart from the start that spawns them, and read the globals when they come
to run.  `ExampleServer` adds the second service, the table of stream handlers
and the tracker's goroutine, and behaves as one library or the other.

Operators whose name starts with `Bug` are plausible mistakes in the code (a
dropped guard, a missing reset, a wrong order).  No specification uses them;
putting one in the place of the operator defined after it must violate the
property that `PROJECT.json` (`mutants`) names.

## The runs

| Run | Module | Shows | Instance |
|---|---|---|---|
| `session` | `Handlers` | the session's safety and liveness under its handlers: input in order, one ending and a complete one, Dart is told, senders and cancelled handlers are released | 1 caller, 1 goroutine, `DataChan` of 1, 2 sends, 3 callbacks, 2 items, time-out of readiness |
| `dart_bridge` | `FileCalls` | calls return, remove their session, deliver all requests that are not empty before the end, release the isolate; a download that ends well leaves nothing unread; the sender goroutine ends | each kind of call, with and without timeout, 2 requests of which any may be empty, 4 responses |
| `calls` | `WorkerPool` | answers never block, nothing leaks in Go, C memory is lost by late replies only, load counts agree, requests are answered, `DartCall` is implemented in both directions | 2 workers or callers, 2 isolates, 2 calls, 2 requests, 1 time-out |
| `ffi_stream` | `FfiGreeter` | both directions implement `Pipe`, a client's call is answered in whole, cancellation releases everyone | 2 senders, capacity 2, 3 messages up, 4 down, a method of each kind and an arbitrary one |
| `plugin_host` | `PluginLibrary` | unloading waits, streams are all closed, `Close` returns, the end of a stream is the end, `Pipe` and `PluginHost` are implemented | 2 threads, 1 stream of any kind, capacity 1 |
| `cache` | `Cache` | limits, clean shutdown, no lost flush, no resurrection, a pause is kept | 2 keys, 1 client, entry limit 1, byte limit 3, batch of 1, 2 ticks; 2 threads and 3 timers that pause |
| `server` | `ExampleServer` | no call finds a closed service, a start serves, a stop leaves nothing, metadata comes back, exports return | 2 threads, 2 generations, Unix socket or none, starts and stops one after the other |
| `session_crash` | `StreamSession` | a send can panic (finding) | 1 caller, 1 goroutine |
| `bridge_loss` | `DartBridge` | responses can be lost (finding) | as `dart_bridge` |
| `calls_freed` | `RequestHandler` | a late handler reads freed memory (finding) | 1 caller, 1 isolate |
| `ffi_overtake` | `FfiStream` | an error overtakes data (finding) | 1 sender, capacity 1 |
| `plugin_unload` | `PluginHost` | a handler outlives its library (finding) | 2 threads, 1 stream |

The bounds.  Channels are smaller than in the code (100 and 16), and more is
sent than they hold, so that a full channel, a parked sender and a wake-up all
occur; the order of operations is not bounded otherwise.  In `session` and
`dart_bridge` one caller stands for the Dart main isolate, which is one thread;
that the safety properties of a session hold for any number of goroutines and
callers is proved.  In `plugin_host` two threads are a user of the stream and
the closer of the stream or the library; the proofs cover any number.  In
`cache` two keys and an entry limit of one already make the LRU order matter, a
batch of one makes the byte eviction loop, and `MaxTime` lets an entry expire
and the flush fall after it; compaction and pausing are explored in behaviours
whose clients put nothing (`background`), since nothing of the table depends on
them but the ticker.  In `server` two generations let goroutines of the first
start meet the second; the TCP listener is as the Unix one but has no file, and
is left out of the instance.  `MaxSend`, `MaxOut`, `MaxUp`, `MaxDown`,
`MaxCalls`, `MaxRequests`, `MaxTimeouts`, `MaxTimers`, `MaxTime`, `MaxStart` and
`Items` bound counters that the code does not bound.  `CHECK_DEADLOCK FALSE`
stands where the system may stop: when the session or library is closed, when
all calls are made, or when the process has died.

Fairness is weak and only on steps that the Go scheduler, the runtime's timers
or the event loop are bound to take: a thread that is inside an operation and
can go on does.  Nothing is assumed of users: no caller has to send, close or
read.  In `Handlers` and `FfiGreeter` the handlers of the repository go on
between operations as well, since they are known code; other handlers
(`"other"`, `"any"`) need not begin anything.  The timer of `WaitForReady` may
fire but is not counted on (`NoTimer`), so that `session` also speaks for a
library without a time-out.  In `DartBridge` and `FileCalls`
not even the isolate is assumed to take events.  In `WorkerPool` the isolates
run their event loops and Go's timers fire, but Dart's timers need not.  In
`PluginLibrary` handlers need not return; what is assumed is that threads in
the library go on, which yields what `PluginHost` asks of it.  In
`ExampleServer` a thread that is inside an export goes on, while goroutines
may be late without end.  Liveness properties allow the alternative that the
process has died, because `session_crash` shows that it can.

## What disagrees with the code

The violation runs are counterexamples to what the repository says; the lines
are quoted in `PROJECT.json` (`findings`): a send that panics on a closed
channel; a Dart handler that reads buffers which a timed-out call has freed;
an error that overtakes data on the in-process transport; a handler goroutine
that is not waited for before the library is unloaded; responses that
`InvokeDartStream` leaves in the channel when the handler closes the stream.

The models show more that no text of the repository denies.  `InvokeBackend` of
a cache method while the cache is disabled dereferences nil (`crash` of
`Server`), and so does a serving goroutine that first runs after a stop.  Two
starts that overlap leave one server behind.  The second goroutine whose
`Serve` fails waits for ever on `serverErrors`.  A tracker of the example that
prints while `quitChan` is cleared waits on nil for ever.  A reply that comes
after its request has timed out in Dart is never freed.  In the plugin library
an error of a handler may be overtaken by the end of the stream, or overtake
data, and a stream that is half-closed without a request gives the handler an
empty one.  A message that marshals to no bytes, one whose fields all have their
default, is posted to Dart with length 0 (`cmd/server/main.go:476`), and
`_handleStreamCallback` drops it (`synurang.dart:1456`), while the end that
follows is delivered: a Dart handler may see the end of its requests after fewer
than were sent, and a Dart client fewer messages than a Go handler sent.
`RequestsComplete` says this much and no more, and the properties of `Handlers`
speak of what is posted to Dart.  A Dart handler that fails closes its stream
like one that is done (`dart_greeter_service.dart:380`), so a download that
failed midway also ends well in Go: `DownloadComplete` says only that nothing
which was accepted is left unread.

## What is proved

The proofs hold for every value of the constants, under the assumptions named
in each module (disjoint sets of threads, capacities of at least one, naturals
as bounds).  Every property of the passing runs that is not about liveness is
proved, of the composed specification that the run checks.

| Module | Theorems about a component | Theorems about the composed specification |
|---|---|---|
| `StreamSessionProofs` | `TypeOK`, `NoDoubleClose`, `DoneImpliesInputClosed`, `NoGap`, `ParkedForRoom` | |
| `StreamOutputProofs` | `OneTerminal`, `HeadersOnce`, `DoneAfterTerminal`, `NoDataAfterTerminal` | `HandlersSpec`: `NoDoubleClose`, `OneTerminal`, `NoGap`, `ParkedForRoom`, `ToldUnlessCancelled`, `EndIsComplete` |
| `DartBridgeProofs` | `BridgeSpec` is a use of a session; `NoDoubleClose`, `SessionRemoved`, `RequestsComplete` | `FileSpec` is a use of a session; `NoDoubleClose`, `ParkedForRoom`, `SessionRemoved`, `RequestsComplete`, `DownloadComplete` |
| `RequestHandlerProofs` | `TypeOK`, `AnswerNeverBlocks`, `NoLeak`, `ImplementsDartCall` | `PoolSpec`: the last three, `LoadCounts`, `LostOnlyLate`, `NoneForgotten`, `ImplementsCall` |
| `FfiStreamProofs` | `TypeOK`, `ImplementsPipes`, `EofMeansComplete`, `ServerEofComplete`, `EndIsFinal` | `GreeterSpec`: the last four, `CallComplete`; a handler ends without an error only after its input |
| `PluginHostProofs` | `TypeOK`, `NoCallAfterUnload`, `ClosedOnce`, `AllStreamsClosed` | `LibSpec`: `NoCallAfterUnload`, `AllStreamsClosed`, `SentIsReceived`, `EofIsTheEnd`, `ImplementsHost`, `ImplementsPipe` |
| `ServerProofs` | `TypeOK`, `ImplOpenWhenVisible` | `HostSpec`: `ImplOpenWhenVisible`, `StartedServes`, `NothingLeft`, `RoundTrip`; metadata of any size is read back |
| `CacheProofs` | | `CacheSpec`: `FlushArmed`, `CleanClose`, `NoResurrection`, `PauseKept`, `LimitEnforced` |

Few of the properties are inductive, and what has to be added to each says why
the code is right.

* The session.  That a thread which is about to close `DoneChan` will not find
  it closed rests on who may be about to do so.  `IInv` says that the flags and
  channels agree unless somebody holds the mutex, that the holder is the thread
  at the second step of `CloseStreamSession`, that one thread at most is between
  `EndStream` and its closing of `DoneChan`, and that parked senders are in the
  queue once.  `NoGap` is about what has been received followed by what is in
  the channel (`Accepted`).  `Flow` adds that a message which is about to be put
  into the channel follows one that is there, and that a caller which lost a
  message finds the session gone or closed at its next.  `ParkedForRoom` is the
  safety half of `SendersReleased`: the two closings wake all that are parked,
  and a receive that makes room gives it to the first of them, so that the
  channel stays full while anybody sleeps.
* What Dart is sent.  `OutInv` tells `out` from where the threads are; most
  steps are shown to be `Quiet`, and the three that send are treated apart.
  `Told` says who closes a session of the handlers: Dart, which has cancelled
  then, or the handler at its end.  `Work` says what a method of each kind has
  done at each `step`, and what it had done when it called `EndStream`.
  `EndsComplete` and `NothingAfterEnd` take `Routines = {Main}`: the handlers
  of the repository are one goroutine each, and of two that share a session one
  may send after the other has ended the stream.
* Calls into Dart on streams.  A call is a user of its session
  (`CallUsesSession`), so what is proved of the session holds of it.
  `SessionRemoved`: a session that is closed, or was seen closed, has left the
  map.  `RequestsComplete`: the callbacks are the requests and then at most one
  end, and as many as the goroutine that posts them has sent; while there is a
  controller it has what the callbacks taken so far held (`DartPlace`).  In
  `CallDartBidiFile` that is the second goroutine, and its place takes the part
  of the stage of the call.  `DownloadComplete`: a goroutine that waits for
  `DataChan` alone takes nothing but a closed and empty channel for the end.
* Unary calls.  The channel of a request in the map is empty
  (`EmptyWhilePending`), and what an isolate has taken has left the map, is
  empty, and is taken by no other (`TakenByOne`).  The refinement adds
  `Fate`: a request that is pending has no outcome yet, and the answer that a
  call has returned is the last trace of it.  For the pool, `PoolInv` says that a
  request is in one mailbox, at one worker or on its way back, and `HeapCounts`
  that the memory is what is listed, what is on its way and what was lost.
  `NoneForgotten` adds that a request which its export has not answered is in a
  mailbox or a worker (`Held`), whether or not Dart still waits for it.
* The in-process transport.  What is left in a channel is the difference of the
  counters on both sides, and what the client has been told agrees with where
  the handler is.  The refinement of `Pipe` takes each step of the stream for
  one of a pipe or for none: the return of a handler shuts the responses, and
  what the client reads of an error, wherever it lay, is their end.  For the
  greeter, what a method has counted, echoed or downloaded is tied to the
  counters of the stream by its `step`.
* Plugins.  For each stream it is said who is responsible for it at each moment
  (its opener, its closer, or `Close`), and a thread inside the library is
  counted in `wg`.  For the library (`LInv`): where a thread is in the library
  agrees with where it is in the host; while the host has not closed a stream,
  only its handler at its end can have cancelled its context and closed its
  `RecvCh`; and what is owed to a handler is in its channel, which makes the
  requests of each stream a `Pipe`.  The proof that `PluginHost` is implemented
  failed at first, because `Open` could give a finished handle to a second
  stream; TLC confirmed it with three threads, and `Open` was brought to what
  the code does.
* The server.  `ImplOpenWhenVisible` follows a generation, also when starts and
  stops overlap: only the thread that makes it knows it before it is in `impl`,
  and it is open by then; only the thread that holds `implMu` closes what is in
  `impl`, and it clears `impl` before it lets go.  `StartedServes` and
  `NothingLeft` are about starts and stops that come one after the other
  (`serial`).  `SerialInv` then knows of one thread at most that is in a start
  or stop, and says for each `Stage` of it what the globals, the listeners and
  the socket file are, and that goroutines of an earlier generation which come
  to run now can open or close nothing of today's.
* The cache.  Pausing and the two goroutines need little: who holds the timer,
  and what closing has reached.  `LimitEnforced` is about what the maintenance
  has computed and what clients do to the table before it deletes: while nothing
  is put, the count only falls, the excess it computed is enough (`Enough`), and
  its account `total` of the bytes is never below the bytes that are there, less
  those of the batch it is about to delete.  That needs facts about sums over
  the rows of a table (a sum over a smaller set is smaller, the sum splits at
  one row), which are proved by the smallest set of rows that would contradict
  them.  Updates of functions are written with `With` and not with `@@`, which
  the prover does not know.
* The metadata.  Text that ends with a line break grows by one line when `Encode`
  adds an entry: the lines before keep where they start and end, and the new one
  has its key before the first `=`.  So the text says of the entries written so
  far what they are, and there is no first entry for which it does not, which is
  the form the induction takes here, as the prover has no other.
  `MetadataReadBack` has any finite map, over any bytes, whose keys are not
  empty or reserved and hold neither `=` nor a line break, and whose values hold
  no line break.  The code does not reject others, and they come back changed.

The inductive invariants that were hardest to find (`IInv` of each component,
`SerialInv`, `LimitInv`) were checked by TLC before they were proved.

Only model-checked: all liveness (`SendersReleased`, `CancelEndsHandler`,
`RequestsAnswered`, `CancelReleases`, `HandlerEnds`, `CloseReturns`,
`InvokeReturns`, `DartReleased`, `SenderEnds`, `ExportsReturn`), because fairness
and `ENABLED` are beyond the prover.  Of two the safety half is proved:
`ParkedForRoom` for `SendersReleased`, and for `HandlerEnds` that a handler
which returns nil has read its input to the end (`NilOnlyAtTheEnd`).

Some definitions are proved of every instance and are in no run of their own:
`SentIsReceived`, `EofMeansComplete` and `ServerEofComplete` follow from the
pipes that the runs check, `ParkedForRoom` and `NoneForgotten` were checked by
TLC on the instances of the runs before they were proved.

## What is not modelled

* The registry of handlers by name and all marshalling: data.
* gRPC over sockets, beyond the listeners and who may reach which service, and
  the auth interceptors: gRPC's own code does the work.
* The cache calls that only read (`Contains`, `Keys`, `GetStats`), and so that
  `Get` takes a row which expires now for live and `Contains` does not.
* The stand-alone `main` of `cmd/server`, which is run by hand.
* In Dart: the creation and reset of the pool, where the requests that are
  pending fail and what their workers return is lost; the client-side streams
  (318-600) and `FfiClientChannel`, which keep controllers but decide nothing
  that a session does not decide.
* The contents of messages: that `DownloadFile` fills the buffer again that it
  has sent (`example/go/service/file_service.go:80`), which a zero-copy receiver
  may still hold; that the in-process client merges into a reply without
  clearing it.
* Platform loaders, which are calls of `dlopen`; the code generator, of which
  the output is modelled; messages and serialisation; the Rust and C++
  bindings, which own buffers and speak the protocol of `PluginLibrary`.
* A second `Close` of a plugin that returns while the first is still at work:
  it is in the model, and no property speaks of it.

## What could come next

The client-side streams of Dart on top of `Handlers`; the reset of the pool, in
which pending requests fail while their answers are on the way; an abstract
call above `Pipe`, which the calls of the generated client and those of a
session would both implement.
