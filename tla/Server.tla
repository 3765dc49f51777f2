------------------------------- MODULE Server -------------------------------
(***************************************************************************)
(* The exports of the shared library of cmd/server/main.go: the lifecycle  *)
(* of the gRPC server (StartGrpcServer, StopGrpcServer and the goroutines  *)
(* that serve its listeners), the invocation of the services it holds      *)
(* (InvokeBackend, the generated InvokeFfi, the cache exports) and the     *)
(* path of a remote client into the same services.                         *)
(*                                                                         *)
(* A thread is a worker isolate of Dart inside one export at a time.  The  *)
(* globals of main.go are read and written without a lock except impl,     *)
(* which implMu protects; steps are cut where another thread or a serving  *)
(* goroutine can see the difference.  What a service is built from is kept *)
(* per generation: generation g is what the g-th StartGrpcServer made.     *)
(***************************************************************************)
EXTENDS Integers, FiniteSets

CONSTANTS Threads,    \* the threads that call exports
          NoThread,   \* not a thread
          Nets,       \* the sets of endpoints a client may configure
          Overlap,    \* may one start or stop overlap another?
          MaxStart    \* bound: how often StartGrpcServer may go ahead

ASSUME ServerAssumption ==
  /\ NoThread \notin Threads /\ MaxStart \in Nat
  /\ Nets \subseteq SUBSET {"uds", "tcp"} /\ Overlap \in BOOLEAN

Gen      == 1 .. MaxStart
Net      == {"uds", "tcp"}
Listener == Gen \X Net
Config   == [net : Nets, cache : BOOLEAN]
Op       == {"none", "invoke", "cache", "stream"}

VARIABLES
  gens,       \* how many times StartGrpcServer has gone ahead
  srv,        \* the generation of the gRPC server in srv, 0 for nil
  impl,       \* the generation of the service in impl, 0 for nil
  implMu,     \* the thread that holds implMu for writing, or NoThread
  listeners,  \* the global slice
  open,       \* the listeners that are open
  socket,     \* the generation whose socket file is at the path, 0 for none
  svc,        \* the services, by generation
  stopped,    \* the generations whose gRPC server was stopped
  spawners,   \* the goroutines that will range over listeners
  accepting,  \* the goroutines about to call srv.Serve, by listener
  serving,    \* the calls of Serve that run: <<generation, listener>>
  errors,     \* "free" or "full": serverErrors, of capacity 1
  stuck,      \* the goroutines that wait for room in serverErrors
  pc, my,     \* the threads: where they are, and their locals
  serial,     \* no start or stop has overlapped another
  crash       \* what ended the process, "none" until then

life   == <<gens, srv, listeners, open, socket, stopped>>
impls  == <<impl, implMu, svc>>
served == <<spawners, accepting, serving, errors, stuck>>
rest   == <<serial, crash>>
vars   == <<life, impls, served, pc, my, rest>>

Service   == [cache : BOOLEAN, open : BOOLEAN]
NoService == [cache |-> FALSE, open |-> FALSE]
Local     == [gen : 0 .. MaxStart, cache : BOOLEAN, todo : SUBSET Net, op : Op]
Fresh     == [gen |-> 0, cache |-> FALSE, todo |-> {}, op |-> "none"]

Init ==
  /\ gens = 0 /\ srv = 0 /\ impl = 0 /\ implMu = NoThread
  /\ listeners = {} /\ open = {} /\ socket = 0 /\ stopped = {}
  /\ svc = [g \in Gen |-> NoService]
  /\ spawners = {} /\ serving = {} /\ accepting = [l \in Listener |-> 0]
  /\ errors = "free" /\ stuck = 0
  /\ pc = [t \in Threads |-> "idle"] /\ my = [t \in Threads |-> Fresh]
  /\ serial = TRUE /\ crash = "none"

At(t, l)     == crash = "none" /\ pc[t] = l
Goto(t, l)   == pc' = [pc EXCEPT ![t] = l]
Return(t)    == Goto(t, "idle") /\ my' = [my EXCEPT ![t] = Fresh]
Panics(why)  == crash' = why
Survives     == crash' = crash

(* Does a start or a stop that begins overlap another?                     *)
Lifecycle(t) == pc[t] \notin {"idle", "handle"}
Quiet        == \A t \in Threads : ~Lifecycle(t)
Overlaps     == (Overlap \/ Quiet) /\ serial' = (serial /\ Quiet)

(* Closing a Unix listener unlinks its path, whatever file is there.       *)
Unlinks(ls) == socket' = IF \E l \in ls : l[2] = "uds" THEN 0 ELSE socket

(***************************************************************************)
(* StartGrpcServer                                                         *)
(***************************************************************************)

(* The check of srv, the configuration, listeners = make(...).             *)
StartCheck(t, cfg) ==
  /\ At(t, "idle")
  /\ IF srv # 0
       THEN Return(t) /\ UNCHANGED <<gens, listeners>>
       ELSE /\ gens < MaxStart /\ gens' = gens + 1
            /\ listeners' = {}
            /\ my' = [my EXCEPT ![t] = [Fresh EXCEPT !.gen = gens + 1,
                                           !.cache = cfg.cache, !.todo = cfg.net]]
            /\ Goto(t, "listen")
  /\ Overlaps
  /\ UNCHANGED <<srv, open, socket, stopped, impls, served, crash>>

(* The same with the file removed after the listener was made.             *)
BugListen(t, n) ==
  /\ At(t, "listen") /\ n \in my[t].todo
  /\ my' = [my EXCEPT ![t].todo = @ \ {n}]
  /\ open' = open \cup {<<my[t].gen, n>>}
  /\ listeners' = listeners \cup {<<my[t].gen, n>>}
  /\ socket' = IF n = "uds" THEN 0 ELSE socket
  /\ UNCHANGED <<gens, srv, stopped, impls, served, pc, rest>>

(* The goroutine of one listener.  The Unix one removes the file first;    *)
(* the TCP one finds the port taken while another listener is open.        *)
Listen(t, n) ==
  /\ At(t, "listen") /\ n \in my[t].todo
  /\ my' = [my EXCEPT ![t].todo = @ \ {n}]
  /\ LET l == <<my[t].gen, n>>
     IN \/ /\ n = "tcp" => \A k \in open : k[2] # "tcp"
           /\ open' = open \cup {l} /\ listeners' = listeners \cup {l}
           /\ socket' = IF n = "uds" THEN my[t].gen ELSE socket
        \/ /\ socket' = IF n = "uds" THEN 0 ELSE socket
           /\ UNCHANGED <<open, listeners>>
  /\ UNCHANGED <<gens, srv, stopped, impls, served, pc, rest>>

(* wg.Wait() and NewCoreService: a cache that cannot be opened is left     *)
(* out with a warning.                                                     *)
NewCoreService(t) ==
  /\ At(t, "listen") /\ my[t].todo = {}
  /\ \E c \in BOOLEAN :
       /\ c => my[t].cache
       /\ svc' = [svc EXCEPT ![my[t].gen] = [cache |-> c, open |-> TRUE]]
  /\ Goto(t, "setSrv")
  /\ UNCHANGED <<life, impl, implMu, served, my, rest>>

SetSrv(t) ==
  /\ At(t, "setSrv")
  /\ srv' = my[t].gen
  /\ Goto(t, "publish")
  /\ UNCHANGED <<gens, listeners, open, socket, stopped, impls, served, my, rest>>

(* implMu.Lock(); impl = serviceImpl; implMu.Unlock()                      *)
Publish(t) ==
  /\ At(t, "publish") /\ implMu = NoThread
  /\ impl' = my[t].gen
  /\ Goto(t, "spawn")
  /\ UNCHANGED <<life, implMu, svc, served, my, rest>>

(* A new channel for errors, and the goroutine that ranges over listeners. *)
Spawn(t) ==
  /\ At(t, "spawn")
  /\ errors' = "free"
  /\ spawners' = IF listeners # {} THEN spawners \cup {my[t].gen} ELSE spawners
  /\ Return(t)
  /\ UNCHANGED <<life, impls, accepting, serving, stuck, rest>>

(***************************************************************************)
(* The goroutines that serve                                               *)
(***************************************************************************)

(* range listeners: the slice as it is now, whoever made it.               *)
SpawnServe(g) ==
  /\ crash = "none" /\ g \in spawners
  /\ spawners' = spawners \ {g}
  /\ accepting' = [l \in Listener |->
                     accepting[l] + IF l \in listeners THEN 1 ELSE 0]
  /\ UNCHANGED <<life, impls, serving, errors, stuck, pc, my, rest>>

(* if err := srv.Serve(l); err != nil { serverErrors <- err }              *)
Report(failed) ==
  IF failed
    THEN IF errors = "free" THEN errors' = "full" /\ UNCHANGED stuck
                            ELSE stuck' = stuck + 1 /\ UNCHANGED errors
    ELSE UNCHANGED <<errors, stuck>>

(* srv.Serve(l) on the server that srv holds now: a nil server is          *)
(* dereferenced, a stopped one closes l and returns an error, and Accept   *)
(* fails at once on a listener that was closed.                            *)
Serve(l) ==
  /\ crash = "none" /\ accepting[l] > 0
  /\ accepting' = [accepting EXCEPT ![l] = @ - 1]
  /\ IF srv = 0
       THEN Panics("serve") /\ UNCHANGED <<open, socket, serving, errors, stuck>>
       ELSE /\ Survives
            /\ open' = IF srv \in stopped THEN open \ {l} ELSE open
            /\ Unlinks(open \ open')
            /\ serving' = IF l \in open' THEN serving \cup {<<srv, l>>}
                                         ELSE serving
            /\ Report(l \notin open')
  /\ UNCHANGED <<gens, srv, listeners, stopped, impls, spawners,
                 pc, my, serial>>

(* The listener was closed: Serve returns nil if its server was stopped.   *)
ServeEnds(p) ==
  /\ crash = "none" /\ p \in serving /\ p[2] \notin open
  /\ serving' = serving \ {p}
  /\ Report(p[1] \notin stopped)
  /\ UNCHANGED <<life, impls, spawners, accepting, pc, my, rest>>

(***************************************************************************)
(* StopGrpcServer                                                          *)
(***************************************************************************)
StopCheck(t) ==
  /\ At(t, "idle")
  /\ IF srv = 0 THEN Return(t)
                ELSE Goto(t, "lock") /\ UNCHANGED my
  /\ Overlaps
  /\ UNCHANGED <<life, impls, served, crash>>

StopLock(t) ==
  /\ At(t, "lock") /\ implMu = NoThread
  /\ implMu' = t
  /\ Goto(t, "closing")
  /\ UNCHANGED <<life, impl, svc, served, my, rest>>

BugKeepsImpl(t) ==
  /\ At(t, "closing")
  /\ svc' = IF impl = 0 THEN svc ELSE [svc EXCEPT ![impl].open = FALSE]
  /\ implMu' = NoThread /\ UNCHANGED impl
  /\ Goto(t, "stop")
  /\ UNCHANGED <<life, served, my, rest>>

BugKeepsLock(t) ==
  /\ At(t, "closing")
  /\ svc' = IF impl = 0 THEN svc ELSE [svc EXCEPT ![impl].open = FALSE]
  /\ impl' = 0 /\ UNCHANGED implMu
  /\ Goto(t, "stop")
  /\ UNCHANGED <<life, served, my, rest>>

(* impl.Close(); impl = nil; implMu.Unlock()                               *)
CloseImpl(t) ==
  /\ At(t, "closing")
  /\ svc' = IF impl = 0 THEN svc ELSE [svc EXCEPT ![impl].open = FALSE]
  /\ impl' = 0 /\ implMu' = NoThread
  /\ Goto(t, "stop")
  /\ UNCHANGED <<life, served, my, rest>>

(* srv.Stop() closes what its calls of Serve registered.                   *)
StopServer(t) ==
  /\ At(t, "stop")
  /\ IF srv = 0
       THEN Panics("stop") /\ UNCHANGED <<open, socket, stopped>>
       ELSE /\ Survives
            /\ stopped' = stopped \cup {srv}
            /\ open' = {l \in open : <<srv, l>> \notin serving}
            /\ Unlinks(open \ open')
  /\ Goto(t, "close")
  /\ UNCHANGED <<gens, srv, listeners, impls, served, my, serial>>

BugCloseListeners(t) ==
  /\ At(t, "close")
  /\ Unlinks(listeners)
  /\ Goto(t, "clear")
  /\ UNCHANGED <<gens, srv, listeners, open, stopped, impls, served, my, rest>>

(* listener.Close(), and os.Remove of the path of a Unix listener.         *)
CloseListeners(t) ==
  /\ At(t, "close")
  /\ open' = open \ listeners
  /\ Unlinks(listeners)
  /\ Goto(t, "clear")
  /\ UNCHANGED <<gens, srv, listeners, stopped, impls, served, my, rest>>

(* srv = nil; listeners = nil: a thread may start in between.              *)
ClearSrv(t) ==
  /\ At(t, "clear")
  /\ srv' = 0
  /\ Goto(t, "clear2")
  /\ UNCHANGED <<gens, listeners, open, socket, stopped, impls, served, my, rest>>

ClearListeners(t) ==
  /\ At(t, "clear2")
  /\ listeners' = {}
  /\ Return(t)
  /\ UNCHANGED <<gens, srv, open, socket, stopped, impls, served, rest>>

(***************************************************************************)
(* The invocation of a service by Dart.  What an export returns is up to   *)
(* WorkerPool.                                                             *)
(***************************************************************************)

(* impl is read under the read lock and used after it.  The cache exports  *)
(* return at once when the service has no cache, InvokeBackend only when   *)
(* there is no service.                                                    *)
Lookup(t, op) ==
  /\ At(t, "idle") /\ implMu = NoThread
  /\ IF impl # 0 /\ (op = "cache" => svc[impl].cache)
       THEN /\ Goto(t, "handle")
            /\ my' = [my EXCEPT ![t] = [Fresh EXCEPT !.gen = impl, !.op = op]]
       ELSE UNCHANGED <<pc, my>>
  /\ UNCHANGED <<life, impls, served, rest>>

(* The second also parses metadata (Metadata) and gives the handler a      *)
(* context with a deadline, one more way for it to fail.                   *)
InvokeBackend(t)         == Lookup(t, "invoke")
InvokeBackendWithMeta(t) == Lookup(t, "invoke")

(* An arm of the switch of InvokeFfi.  A request that cannot be decoded    *)
(* never reaches the handler.  The methods of the cache are promoted from  *)
(* an embedded pointer, which is nil in a service without a cache.         *)
Arm(t, cached) ==
  /\ At(t, "handle") /\ my[t].op = "invoke"
  /\ \/ Return(t) /\ Survives
     \/ /\ cached /\ ~svc[my[t].gen].cache
        /\ Panics("nil cache") /\ UNCHANGED <<pc, my>>
  /\ UNCHANGED <<life, impls, served, serial>>

FfiPing(t)   == Arm(t, FALSE)
FfiGet(t)    == Arm(t, TRUE)
FfiWrite(t)  == Arm(t, TRUE)   \* Put, Delete, Clear
FfiQuery(t)  == Arm(t, TRUE)   \* Contains, Keys
FfiLimit(t)  == Arm(t, TRUE)   \* SetMaxEntries, SetMaxBytes
FfiStats(t)  == Arm(t, TRUE)   \* GetStats, Compact
FfiUnknown(t) == Arm(t, FALSE)

InvokeFfi(t) == \/ FfiPing(t) \/ FfiGet(t) \/ FfiWrite(t) \/ FfiQuery(t)
                \/ FfiLimit(t) \/ FfiStats(t) \/ FfiUnknown(t)

(* CacheGet, CachePut, CacheContains and CacheDelete call the cache of the *)
(* service that was looked up, which may have been closed since.           *)
CacheExport(t) ==
  /\ At(t, "handle") /\ my[t].op = "cache"
  /\ Return(t)
  /\ UNCHANGED <<life, impls, served, rest>>

(***************************************************************************)
(* A remote client of the gRPC server                                      *)
(***************************************************************************)

(* NewGrpcServer registers the cache only if the service has one.          *)
Registered(g)    == IF svc[g].cache THEN {"ping", "cache"} ELSE {"ping"}

(* A call that the interceptors let through.                               *)
RemoteCall(g, m) ==
  /\ crash = "none"
  /\ \E l \in open : <<g, l>> \in serving
  /\ m \in Registered(g)
  /\ IF m = "cache" /\ ~svc[g].cache THEN Panics("remote") ELSE Survives
  /\ UNCHANGED <<life, impls, served, pc, my, serial>>

(***************************************************************************)
(* The specification                                                       *)
(***************************************************************************)
Call(t) == InvokeBackend(t) \/ InvokeBackendWithMeta(t) \/ Lookup(t, "cache")

Begin(t) == \/ \E cfg \in Config : StartCheck(t, cfg)
            \/ StopCheck(t) \/ Call(t)

Continue(t) ==
  \/ \E n \in Net : Listen(t, n)
  \/ NewCoreService(t) \/ SetSrv(t) \/ Publish(t) \/ Spawn(t)
  \/ StopLock(t) \/ CloseImpl(t) \/ StopServer(t)
  \/ CloseListeners(t) \/ ClearSrv(t) \/ ClearListeners(t)
  \/ InvokeFfi(t) \/ CacheExport(t)

Goroutine ==
  \/ \E g \in Gen : SpawnServe(g)
  \/ \E l \in Listener : Serve(l)
  \/ \E p \in Gen \X Listener : ServeEnds(p)

Remote == \E g \in Gen : \E m \in {"ping", "cache"} : RemoteCall(g, m)

Next == \/ \E t \in Threads : Begin(t) \/ Continue(t)
        \/ Goroutine \/ Remote

Spec == Init /\ [][Next]_vars

---------------------------------------------------------------------------
Label == {"idle", "handle", "listen", "setSrv", "publish", "spawn", "lock",
          "closing", "stop", "close", "clear", "clear2"}

(* The types of what a call depends on.                                    *)
TypeOK ==
  /\ gens \in 0 .. MaxStart /\ impl \in 0 .. gens
  /\ svc \in [Gen -> Service]
  /\ pc \in [Threads -> Label] /\ my \in [Threads -> Local]

(* A service that a call can look up is open: StopGrpcServer closes it     *)
(* and clears impl under one lock (cmd/server/main.go:221), so a call that *)
(* starts after the close has begun waits and then finds none.             *)
ImplOpenWhenVisible == implMu = NoThread /\ impl # 0 => svc[impl].open

(* When starts and stops came one after the other and the latest was a     *)
(* start, calls reach the service of the server that runs, all listeners   *)
(* accept, and a Unix client finds the socket of the one that does         *)
(* (cmd/server/main.go:98-215), whatever goroutines of earlier starts do.  *)
StartedServes ==
  serial /\ Quiet /\ srv # 0 =>
    /\ impl = srv
    /\ listeners \subseteq open
    /\ \A l \in open : l[1] = srv /\ (l[2] = "uds" => socket = srv)

(* ... and when the latest was a stop (main.go:220-246), no service and no *)
(* listener is open and the socket file is gone.                           *)
StoppedClean ==
  serial /\ Quiet /\ srv = 0 =>
    /\ impl = 0 /\ open = {} /\ socket = 0
    /\ \A g \in Gen : ~svc[g].open

(* Every export returns, whatever stops meanwhile: no start, stop or call  *)
(* waits for implMu for ever.                                              *)
ExportsReturn ==
  \A t \in Threads : pc[t] # "idle" ~> pc[t] = "idle" \/ crash # "none"
=============================================================================
