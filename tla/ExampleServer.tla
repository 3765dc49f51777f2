--------------------------- MODULE ExampleServer ---------------------------
(***************************************************************************)
(* The host library of the example, example/cmd/server/main.go: the        *)
(* lifecycle of cmd/server/main.go with a second service, a dispatcher     *)
(* that returns bytes instead of C memory, a table of stream handlers, and *)
(* a goroutine that prints what goroutines came and went.                  *)
(*                                                                         *)
(* greeterImpl is assigned and cleared together with coreImpl under        *)
(* implMu, so impl of Server stands for both.                              *)
(***************************************************************************)
EXTENDS Server, Metadata

VARIABLES
  example,    \* is this the example's library, or that of cmd/server?
  quitChan,   \* the generation that made the channel in quitChan, 0 for nil
  quit,       \* the channels that were closed
  printing,   \* the trackers outside their select: new, or in PrintDiff
  selecting   \* the others: <<tracker, the channel its select waits on>>

exampleVars == <<example, quitChan, quit, printing, selecting>>
hostVars    == <<vars, exampleVars>>

ExampleInit ==
  /\ Init
  /\ example \in BOOLEAN
  /\ quitChan = 0 /\ quit = {} /\ printing = {} /\ selecting = {}

(***************************************************************************)
(* The lifecycle                                                           *)
(***************************************************************************)

(* StartGrpcServer up to the assignment of the implementations.            *)
ExampleStarts(t) ==
  /\ example
  /\ \/ \E cfg \in Config : StartCheck(t, cfg)
     \/ \E n \in Net : Listen(t, n)
     \/ NewCoreService(t) \/ SetSrv(t) \/ Publish(t)
  /\ UNCHANGED exampleVars

(* The rest of it: a channel and a goroutine for the tracker, and the      *)
(* goroutines that serve.                                                  *)
ExampleServes(t) ==
  /\ example /\ Spawn(t)
  /\ quitChan' = my[t].gen
  /\ printing' = printing \cup {my[t].gen}
  /\ UNCHANGED <<example, quit, selecting>>

(* StopGrpcServer closes the channel of the tracker and clears it before   *)
(* everything else.                                                        *)
StopTracker == quitChan' = 0 /\ quit' = quit \cup ({quitChan} \ {0})

ExampleStops(t) ==
  /\ example
  /\ \/ /\ StopCheck(t)
        /\ IF srv # 0 THEN StopTracker ELSE UNCHANGED <<quitChan, quit>>
        /\ UNCHANGED <<example, printing, selecting>>
     \/ /\ \/ StopLock(t) \/ CloseImpl(t) \/ StopServer(t)
           \/ CloseListeners(t) \/ ClearSrv(t) \/ ClearListeners(t)
        /\ UNCHANGED exampleVars

(* The tracker: each turn of its loop reads the global channel anew, waits *)
(* for the ticker or for what it has read, and prints in between.          *)
Selects(g) ==
  /\ crash = "none" /\ g \in printing
  /\ printing' = printing \ {g}
  /\ selecting' = selecting \cup {<<g, quitChan>>}
  /\ UNCHANGED <<vars, example, quitChan, quit>>

Ticks(k) ==
  /\ crash = "none" /\ k \in selecting
  /\ printing' = printing \cup {k[1]} /\ selecting' = selecting \ {k}
  /\ UNCHANGED <<vars, example, quitChan, quit>>

Quits(k) ==
  /\ crash = "none" /\ k \in selecting /\ k[2] \in quit
  /\ selecting' = selecting \ {k}
  /\ UNCHANGED <<vars, example, quitChan, quit, printing>>

(***************************************************************************)
(* The invocation of the two services                                      *)
(***************************************************************************)

(* InvokeBackend: the lookup of the services, as in cmd/server/main.go.    *)
ExampleBackend(t) ==
  /\ example /\ InvokeBackend(t)
  /\ UNCHANGED exampleVars

(* The cache exports, from the lookup of the service to the return.        *)
ExampleCache(t) ==
  /\ example /\ (Lookup(t, "cache") \/ CacheExport(t))
  /\ UNCHANGED exampleVars

(* The exports that open a stream fail without a service; with one they    *)
(* start a session (StreamSession, Handlers) or do not know the method.    *)
StreamExport(t) ==
  /\ example
  /\ \/ Lookup(t, "stream")
     \/ At(t, "handle") /\ my[t].op = "stream" /\ Return(t)
                        /\ UNCHANGED <<life, impls, served, rest>>
  /\ UNCHANGED exampleVars

(* The generated Invoke of the greeter: no method of it needs what a       *)
(* service may lack.  Its second half stands for the services of Dart,     *)
(* whose methods the server does not implement.                            *)
InvokeGreeter(t)     == Arm(t, FALSE)
InvokeDartGreeter(t) == Arm(t, FALSE)

(* The generated Invoke of the core services, the other way for a nil      *)
(* cache to be dereferenced.                                               *)
InvokeCore(t) == \E cached \in BOOLEAN : Arm(t, cached)

(* A method is routed by the prefix of its package.                        *)
ExampleInvokes(t) ==
  /\ example
  /\ InvokeGreeter(t) \/ InvokeDartGreeter(t) \/ InvokeCore(t)
  /\ UNCHANGED exampleVars

(***************************************************************************)
(* The specification: one library or the other.                            *)
(***************************************************************************)
CoreHost ==
  /\ ~example /\ \E t \in Threads : Begin(t) \/ Continue(t)
  /\ UNCHANGED exampleVars

ExampleHost ==
  \/ \E t \in Threads :
       \/ ExampleStarts(t) \/ ExampleServes(t) \/ ExampleStops(t)
       \/ ExampleBackend(t) \/ ExampleCache(t)
       \/ StreamExport(t) \/ ExampleInvokes(t)
  \/ \E g \in Gen : Selects(g)
  \/ \E k \in selecting : Ticks(k) \/ Quits(k)

HostNext == \/ CoreHost \/ ExampleHost
            \/ (Goroutine \/ Remote) /\ UNCHANGED exampleVars

(* A thread inside an export goes on.  Goroutines may be late without end. *)
Proceeds(t) ==
  \/ ~example /\ Continue(t) /\ UNCHANGED exampleVars
  \/ ExampleStarts(t) \/ ExampleServes(t) \/ ExampleStops(t)
  \/ ExampleCache(t) \/ StreamExport(t) \/ ExampleInvokes(t)

HostSpec == /\ ExampleInit /\ [][HostNext]_hostVars
            /\ \A t \in Threads : WF_hostVars(pc[t] # "idle" /\ Proceeds(t))

(* When the latest of starts and stops was a stop, nothing is left behind: *)
(* what StoppedClean says of the server and, "Stop debug tracker"          *)
(* (example/cmd/server/main.go:251), no tracker that waits on a channel    *)
(* nobody will close.  The exception is a tracker that was printing while  *)
(* quitChan was cleared: it waits on nil for ever.                         *)
NothingLeft ==
  /\ StoppedClean
  /\ serial /\ Quiet /\ srv = 0 => \A k \in selecting : k[2] \in quit \cup {0}

(* The metadata that Go parses (cmd/server/main.go:303) is what Dart was   *)
(* given (lib/synurang.dart:316): every entry, in any order and with "="   *)
(* in its value, and the time limit, 0 for none.  It is the same in every  *)
(* state, and looked at before the first start.                            *)
RoundTrip ==
  gens = 0 => \A limit \in SomeLimits, map \in SomeMaps : ReadBack(limit, map)
=============================================================================
