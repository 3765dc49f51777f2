---------------------------- MODULE ServerProofs ----------------------------
(***************************************************************************)
(* The lifecycle of both host libraries, for any number of threads and of  *)
(* starts, with the goroutines of every start still at work.               *)
(*                                                                         *)
(* Inv, whether or not starts and stops overlap: a call never gets hold of *)
(* a service that was closed before it.  The argument follows one          *)
(* generation: the thread that makes it is the only one to know it until   *)
(* it publishes it in impl, so nobody can close it earlier; and only a     *)
(* thread that holds implMu closes what impl holds, and clears impl before *)
(* it lets go of the lock.                                                 *)
(*                                                                         *)
(* SerialInv, while none has overlapped another: what a start or a stop    *)
(* leaves behind.  At most one thread is in one, and Stage, where it is,   *)
(* determines which of the globals are those of the latest generation and  *)
(* which are cleared.                                                      *)
(*                                                                         *)
(* And the metadata of a call: what is parsed is what was encoded, for     *)
(* every map, by induction over the entries that have been written.        *)
(***************************************************************************)
EXTENDS ExampleServer, FiniteSetTheorems, SequenceTheorems, WellFoundedInduction, TLAPS

(* A thread that starts works on a generation of its own, which is not in  *)
(* impl yet and is open once it has been made.                             *)
Starting(t) == pc[t] \in {"listen", "setSrv", "publish"}
OwnGeneration ==
  /\ \A t \in Threads : Starting(t) => my[t].gen \in 1 .. gens /\ my[t].gen # impl
  /\ \A t, u \in Threads : Starting(t) /\ Starting(u) /\ t # u => my[t].gen # my[u].gen
  /\ \A t \in Threads : pc[t] \in {"setSrv", "publish"} => svc[my[t].gen].open

(* The thread that closes the service is the one that holds implMu.        *)
LockHeld == \A t \in Threads : pc[t] = "closing" => implMu = t

ImplOpen == impl # 0 => svc[impl].open

Inv == TypeOK /\ OwnGeneration /\ LockHeld /\ ImplOpen

LEMMA FreshLocal == Fresh \in Local
BY ServerAssumption DEF Fresh, Local, Op, Net

LEMMA Initially == Init => Inv
BY FreshLocal, ServerAssumption
   DEF Init, Inv, TypeOK, OwnGeneration, LockHeld, ImplOpen, Starting, Gen, Label, Local, Service, NoService, Fresh

(* What leaves the generations, the services and impl alone, and moves no  *)
(* thread into one of the labels that Inv is about.                        *)
LEMMA Aside ==
  ASSUME Inv, UNCHANGED <<gens, impls, my>>, pc' \in [Threads -> Label],
         \A t \in Threads : \/ pc'[t] = pc[t]
                            \/ pc[t] = "setSrv" /\ pc'[t] = "publish"
                            \/ pc'[t] \notin {"listen", "setSrv", "publish", "closing"}
  PROVE  Inv'
BY DEF Inv, TypeOK, OwnGeneration, LockHeld, ImplOpen, Starting, impls

(* What the libraries do: the exports of cmd/server, and those of the      *)
(* example that open a stream.                                             *)
OpensStream(t) ==
  \/ Lookup(t, "stream")
  \/ At(t, "handle") /\ Return(t) /\ UNCHANGED <<life, impls, served, rest>>
Step == [Next]_vars \/ \E t \in Threads : OpensStream(t)

LEMMA Preserved == Inv /\ Step => Inv'
<1> SUFFICES ASSUME Inv, Step PROVE Inv'
  OBVIOUS
<1>t. TypeOK /\ OwnGeneration /\ LockHeld /\ ImplOpen
  BY DEF Inv
<1> USE DEF At, Goto, Label
<1>1. ASSUME NEW t \in Threads, NEW cfg \in Config, StartCheck(t, cfg) PROVE Inv'
  <2>1. CASE srv # 0
    <3>1. pc' = [pc EXCEPT ![t] = "idle"] /\ my' = [my EXCEPT ![t] = Fresh] /\ UNCHANGED <<gens, impls>>
      BY <1>1, <2>1 DEF StartCheck, Return
    <3> QED
      BY <3>1, FreshLocal, <1>t DEF Inv, TypeOK, OwnGeneration, LockHeld, ImplOpen, Starting, impls
  <2>2. CASE srv = 0
    <3> DEFINE mine == [Fresh EXCEPT !.gen = gens + 1, !.cache = cfg.cache, !.todo = cfg.net]
    <3>1. /\ pc' = [pc EXCEPT ![t] = "listen"] /\ my' = [my EXCEPT ![t] = mine]
          /\ gens < MaxStart /\ gens' = gens + 1 /\ UNCHANGED impls
      BY <1>1, <2>2 DEF StartCheck
    <3>2. mine \in Local /\ mine.gen = gens + 1
      <4>1. gens + 1 \in 0 .. MaxStart /\ cfg.cache \in BOOLEAN /\ cfg.net \in SUBSET Net
        BY <3>1, <1>t, ServerAssumption DEF TypeOK, Config, Net
      <4> QED
        BY <4>1, FreshLocal DEF Local
    <3>3. TypeOK'
      BY <3>1, <3>2, <1>t, ServerAssumption DEF TypeOK, impls
    <3>4. \A u \in Threads : Starting(u)' => u = t \/ (Starting(u) /\ my'[u] = my[u])
      <4> HIDE DEF mine
      <4> QED
        BY <3>1, <1>t DEF TypeOK, Starting
    <3>5. my'[t].gen = gens + 1
      BY <3>1, <3>2, <1>t DEF TypeOK
    <3>6. OwnGeneration'
      BY <3>1, <3>4, <3>5, <1>t, ServerAssumption DEF OwnGeneration, TypeOK, Starting, impls
    <3> HIDE DEF mine
    <3> QED
      BY <3>1, <3>3, <3>6, <1>t DEF Inv, TypeOK, LockHeld, ImplOpen, impls
  <2> QED
    BY <2>1, <2>2, <1>t DEF TypeOK
<1>2. ASSUME NEW t \in Threads, NEW n \in Net, Listen(t, n) PROVE Inv'
  <2>1. /\ my' = [my EXCEPT ![t].todo = @ \ {n}]
        /\ UNCHANGED <<gens, impls, pc>>
    BY <1>2 DEF Listen
  <2>2. my' \in [Threads -> Local] /\ \A u \in Threads : my'[u].gen = my[u].gen
    BY <2>1, <1>t DEF TypeOK, Local
  <2> QED
    BY <2>1, <2>2, <1>t DEF Inv, TypeOK, OwnGeneration, LockHeld, ImplOpen, Starting, impls
<1>3. ASSUME NEW t \in Threads, NewCoreService(t) PROVE Inv'
  <2>1. PICK c \in BOOLEAN : svc' = [svc EXCEPT ![my[t].gen] = [cache |-> c, open |-> TRUE]]
    BY <1>3 DEF NewCoreService
  <2>2. /\ pc[t] = "listen" /\ pc' = [pc EXCEPT ![t] = "setSrv"]
        /\ UNCHANGED <<gens, impl, implMu, my>>
    BY <1>3 DEF NewCoreService, life
  <2>3. my[t].gen \in 1 .. gens /\ my[t].gen \in Gen /\ my[t].gen # impl
    BY <2>2, <1>t, ServerAssumption DEF TypeOK, OwnGeneration, Starting, Gen
  <2>4. svc' \in [Gen -> Service] /\ svc'[my[t].gen].open /\ \A g \in Gen : g # my[t].gen => svc'[g] = svc[g]
    BY <2>1, <2>3, <1>t DEF TypeOK, Service
  <2>5. \A u \in Threads : Starting(u)' => Starting(u) /\ (u # t => my[u].gen # my[t].gen /\ pc'[u] = pc[u])
    BY <2>2, <1>t DEF TypeOK, OwnGeneration, Starting
  <2>6. \A u \in Threads : Starting(u) => my[u].gen \in Gen
    BY <1>t, ServerAssumption DEF TypeOK, OwnGeneration, Gen
  <2>7. OwnGeneration'
    BY <2>2, <2>3, <2>4, <2>5, <2>6, <1>t DEF OwnGeneration, Starting, TypeOK
  <2>8. TypeOK' /\ LockHeld' /\ ImplOpen'
    BY <2>2, <2>3, <2>4, <1>t, ServerAssumption DEF TypeOK, LockHeld, ImplOpen, Gen
  <2> QED
    BY <2>7, <2>8 DEF Inv
<1>4. ASSUME NEW t \in Threads, SetSrv(t) PROVE Inv'
  BY <1>4, <1>t, Aside DEF SetSrv, TypeOK
<1>5. ASSUME NEW t \in Threads, Publish(t) PROVE Inv'
  <2>1. /\ pc[t] = "publish" /\ pc' = [pc EXCEPT ![t] = "spawn"] /\ impl' = my[t].gen
        /\ UNCHANGED <<gens, implMu, svc, my>>
    BY <1>5 DEF Publish, life
  <2>2. my[t].gen \in 1 .. gens /\ svc[my[t].gen].open
    BY <2>1, <1>t DEF OwnGeneration, Starting
  <2> QED
    BY <2>1, <2>2, <1>t DEF Inv, TypeOK, OwnGeneration, LockHeld, ImplOpen, Starting
<1>6. ASSUME NEW t \in Threads, Return(t), UNCHANGED <<gens, impls>> PROVE Inv'
  <2> QED
    BY FreshLocal, <1>6, <1>t DEF Return, Inv, TypeOK, OwnGeneration, LockHeld, ImplOpen, Starting, impls
<1>7. ASSUME NEW t \in Threads, Spawn(t) \/ ClearListeners(t) \/ CacheExport(t) PROVE Inv'
  BY <1>7, <1>6 DEF Spawn, ClearListeners, CacheExport, life
<1>8. ASSUME NEW t \in Threads, NEW cached \in BOOLEAN, Arm(t, cached) PROVE Inv'
  BY <1>8, <1>6, <1>t, Aside DEF Arm, life, TypeOK
<1>9. ASSUME NEW t \in Threads, StopCheck(t) PROVE Inv'
  BY <1>9, <1>6, <1>t, Aside DEF StopCheck, life, TypeOK
<1>10. ASSUME NEW t \in Threads, StopLock(t) PROVE Inv'
  <2>1. /\ implMu = NoThread /\ implMu' = t /\ pc' = [pc EXCEPT ![t] = "closing"]
        /\ UNCHANGED <<gens, impl, svc, my>>
    BY <1>10 DEF StopLock, life
  <2>2. \A u \in Threads : pc[u] # "closing"
    BY <2>1, <1>t, ServerAssumption DEF LockHeld
  <2> QED
    BY <2>1, <2>2, <1>t DEF Inv, TypeOK, OwnGeneration, LockHeld, ImplOpen, Starting
<1>11. ASSUME NEW t \in Threads, CloseImpl(t) PROVE Inv'
  <2>1. /\ pc[t] = "closing" /\ pc' = [pc EXCEPT ![t] = "stop"] /\ impl' = 0
        /\ svc' = IF impl = 0 THEN svc ELSE [svc EXCEPT ![impl].open = FALSE]
        /\ UNCHANGED <<gens, my>>
    BY <1>11 DEF CloseImpl, life
  <2>2. \A u \in Threads : pc'[u] # "closing"
    BY <2>1, <1>t DEF LockHeld, TypeOK
  <2>3. svc' \in [Gen -> Service] /\ \A g \in Gen : g # impl => svc'[g] = svc[g]
    BY <2>1, <1>t DEF TypeOK, Service
  <2>4. \A u \in Threads : Starting(u)' => Starting(u) /\ pc'[u] = pc[u]
    BY <2>1, <1>t DEF TypeOK, Starting
  <2>5. \A u \in Threads : Starting(u) => my[u].gen \in Gen /\ my[u].gen # impl /\ my[u].gen # 0
    BY <1>t, ServerAssumption DEF TypeOK, OwnGeneration, Gen
  <2>6. OwnGeneration'
    BY <2>1, <2>3, <2>4, <2>5, <1>t DEF OwnGeneration, Starting
  <2> QED
    BY <2>1, <2>2, <2>3, <2>6, <1>t DEF Inv, TypeOK, LockHeld, ImplOpen
<1>12. ASSUME NEW t \in Threads, StopServer(t) \/ CloseListeners(t) \/ ClearSrv(t) PROVE Inv'
  BY <1>12, <1>t, Aside DEF StopServer, CloseListeners, ClearSrv, TypeOK
<1>13. ASSUME NEW t \in Threads, NEW op \in {"invoke", "cache", "stream"}, Lookup(t, op) PROVE Inv'
  <2>1. CASE UNCHANGED <<pc, my>>
    BY <2>1, <1>13, <1>t, Aside DEF Lookup, life, TypeOK
  <2>2. CASE ~UNCHANGED <<pc, my>>
    <3> DEFINE mine == [Fresh EXCEPT !.gen = impl, !.op = op]
    <3>1. /\ pc' = [pc EXCEPT ![t] = "handle"] /\ my' = [my EXCEPT ![t] = mine]
          /\ UNCHANGED <<gens, impls>>
      BY <1>13, <2>2 DEF Lookup, life
    <3>2. impl \in 0 .. MaxStart /\ op \in Op
      BY <1>t, ServerAssumption DEF Op, TypeOK
    <3>3. mine \in Local
      BY <3>2, FreshLocal DEF Local
    <3> HIDE DEF mine
    <3> QED
      BY <3>1, <3>3, <1>t DEF Inv, TypeOK, OwnGeneration, LockHeld, ImplOpen, Starting, impls
  <2> QED
    BY <2>1, <2>2
<1>14. ASSUME Goroutine \/ Remote PROVE Inv'
  <2>1. UNCHANGED <<gens, impls, pc, my>>
    BY <1>14 DEF Goroutine, Remote, SpawnServe, Serve, ServeEnds, RemoteCall, life
  <2> QED
    BY <2>1, <1>t, Aside DEF TypeOK
<1>15. CASE UNCHANGED vars
  BY <1>15, <1>t, Aside DEF vars, life, TypeOK
<1>16. ASSUME NEW t \in Threads, OpensStream(t) PROVE Inv'
  BY <1>6, <1>13, <1>16 DEF OpensStream, life
<1> QED
  BY <1>1, <1>2, <1>3, <1>4, <1>5, <1>7, <1>8, <1>9, <1>10, <1>11, <1>12, <1>13, <1>14, <1>15, <1>16
     DEF Step, Next, Begin, Call, InvokeBackend, InvokeBackendWithMeta, Continue, InvokeFfi, FfiPing, FfiGet,
         FfiWrite, FfiQuery, FfiLimit, FfiStats, FfiUnknown

(* The generations in impl and in the locals of a thread are ones that a   *)
(* StartGrpcServer has made.                                               *)
THEOREM TypeCorrect == Spec => []TypeOK
<1>1. Inv => TypeOK
  BY DEF Inv
<1> QED
  BY <1>1, Initially, Preserved, PTL DEF Spec, Step

(* A service that a call can look up is open: StopGrpcServer closes it and *)
(* clears impl under the lock that every call reads it under               *)
(* (cmd/server/main.go:223), and a start publishes only what it has made.  *)
THEOREM LookupFindsOpen == Spec => []ImplOpenWhenVisible
<1>1. Inv => ImplOpenWhenVisible
  BY DEF Inv, ImplOpen, ImplOpenWhenVisible
<1> QED
  BY <1>1, Initially, Preserved, PTL DEF Spec, Step

---------------------------------------------------------------------------
(* Starts and stops that come one after the other.  At most one thread is  *)
(* in one of them, and Stage is where it is.  The globals are those of the *)
(* latest generation, gens, or cleared.                                    *)
Stage == IF Quiet THEN "idle" ELSE pc[CHOOSE t \in Threads : Lifecycle(t)]

OneAtATime == \A t, u \in Threads : Lifecycle(t) /\ Lifecycle(u) => t = u

Mine ==
  /\ \A t \in Threads : pc[t] \in {"listen", "setSrv", "publish", "spawn"} =>
       my[t].gen = gens /\ gens # 0
  /\ \A t \in Threads : pc[t] = "listen" => \A l \in open : l[2] \notin my[t].todo

SrvNow ==
  /\ srv \in {0, gens}
  /\ Stage \in {"listen", "setSrv", "clear2"} => srv = 0
  /\ Stage \in {"publish", "spawn", "lock", "closing", "stop", "close", "clear"} => srv # 0

ImplNow ==
  /\ impl \in {0, gens}
  /\ Stage \in {"publish", "stop", "close", "clear", "clear2"} => impl = 0
  /\ Stage \in {"idle", "listen", "setSrv", "spawn", "lock", "closing"} => impl = srv
  /\ \A g \in Gen : svc[g].open => g = gens /\ (impl = g \/ Stage \in {"setSrv", "publish"})

(* The listeners of the latest start are open until its server is stopped, *)
(* and the goroutines of earlier starts close none of them.                *)
Down == (Stage = "idle" /\ srv = 0) \/ Stage \in {"close", "clear", "clear2"}

OpenNow ==
  /\ open \subseteq listeners /\ listeners \subseteq Listener
  /\ \A l \in open : l[1] = gens
  /\ \A g \in stopped : g \in 0 .. gens
  /\ ~Down => gens \notin stopped /\ listeners \subseteq open

Files ==
  /\ \A l \in open : l[2] = "uds" => socket = gens
  /\ (\A l \in listeners : l[2] # "uds") => socket = 0
  /\ (Stage = "idle" /\ srv = 0) \/ Stage \in {"clear", "clear2"} => open = {} /\ socket = 0

(* The channel that a tracker waits on is the latest, or was closed.       *)
Tracked ==
  /\ \A k \in selecting : k[2] \in quit \cup {0, quitChan}
  /\ ~(Stage = "idle" /\ srv # 0) \/ ~example => quitChan = 0

ServerNow == OneAtATime /\ Mine /\ SrvNow /\ ImplNow /\ OpenNow /\ Files
SerialInv == serial => ServerNow /\ Tracked

StageIsPC == \A t \in Threads : Lifecycle(t) => Stage = pc[t] /\ ~Quiet

LEMMA StageOf == OneAtATime => StageIsPC
<1> SUFFICES ASSUME OneAtATime, NEW t \in Threads, Lifecycle(t)
             PROVE  Stage = pc[t] /\ ~Quiet
  BY DEF StageIsPC
<1>1. ~Quiet
  BY DEF Quiet
<1>2. Lifecycle(CHOOSE u \in Threads : Lifecycle(u)) /\ (CHOOSE u \in Threads : Lifecycle(u)) \in Threads
  OBVIOUS
<1>3. (CHOOSE u \in Threads : Lifecycle(u)) = t
  BY <1>2 DEF OneAtATime
<1>4. QED
  BY <1>1, <1>3 DEF Stage

LEMMA StageNext == OneAtATime' => StageIsPC'
  BY StageOf, PTL

(* A step of the thread in a start or a stop, or of one that begins.       *)
LEMMA StageMoves ==
  ASSUME TypeOK, OneAtATime, NEW t \in Threads, Lifecycle(t) \/ Quiet,
         NEW l \in Label \ {"handle"}, pc' = [pc EXCEPT ![t] = l]
  PROVE  /\ OneAtATime' /\ Stage' = l /\ (Quiet' <=> l = "idle")
         /\ \A u \in Threads : u # t => pc'[u] \in {"idle", "handle"}
<1>1. pc'[t] = l /\ \A u \in Threads : u # t => pc'[u] = pc[u]
  BY DEF TypeOK
<1>2. \A u \in Threads : u # t => pc[u] \in {"idle", "handle"}
  BY DEF OneAtATime, Quiet, Lifecycle
<1>3. OneAtATime'
  BY <1>1, <1>2 DEF OneAtATime, Lifecycle
<1>4. CASE l = "idle"
  <2>1. Quiet'
    BY <1>1, <1>2, <1>4 DEF Quiet, Lifecycle
  <2>2. Stage' = "idle"
    BY <2>1 DEF Stage
  <2>3. QED
    BY <1>1, <1>2, <1>3, <1>4, <2>1, <2>2
<1>5. CASE l # "idle"
  <2>1. ~Quiet'
    BY <1>1, <1>5 DEF Quiet, Lifecycle
  <2>2. Stage' = pc'[t]
    BY <1>1, <1>3, <1>5, StageNext DEF StageIsPC, Lifecycle
  <2>3. QED
    BY <1>1, <1>2, <1>3, <1>5, <2>1, <2>2
<1>6. QED
  BY <1>4, <1>5

(* A step of a call.                                                       *)
LEMMA StageStays ==
  ASSUME OneAtATime,
         \A u \in Threads : \/ pc'[u] = pc[u]
                            \/ pc[u] \in {"idle", "handle"} /\ pc'[u] \in {"idle", "handle"}
  PROVE  OneAtATime' /\ Stage' = Stage /\ (Quiet' <=> Quiet)
<1>1. \A u \in Threads : pc'[u] \in {"idle", "handle"} \/ pc'[u] = pc[u]
  OBVIOUS
<1>2. OneAtATime'
  BY DEF OneAtATime, Lifecycle
<1>3. Quiet' <=> Quiet
  BY DEF Quiet, Lifecycle
<1>4. CASE Quiet
  BY <1>2, <1>3, <1>4 DEF Stage
<1>5. CASE ~Quiet
  <2>1. PICK u \in Threads : pc[u] \notin {"idle", "handle"}
    BY <1>5 DEF Quiet, Lifecycle
  <2>2. Stage = pc[u]
    BY <2>1, StageOf DEF StageIsPC, Lifecycle
  <2>3. Stage' = pc'[u]
    BY <1>2, <2>1, StageNext DEF StageIsPC, Lifecycle
  <2>4. QED
    BY <1>2, <1>3, <2>1, <2>2, <2>3
<1>6. QED
  BY <1>4, <1>5

(* Steps that leave the globals alone.                                     *)
LEMMA Unmoved ==
  ASSUME ServerNow, OneAtATime', Stage' = Stage, UNCHANGED <<life, impl, svc>>,
         \A u \in Threads : pc'[u] \in {"listen", "setSrv", "publish", "spawn"} =>
                              pc'[u] = pc[u] /\ my'[u] = my[u]
  PROVE  ServerNow'
<1>1. UNCHANGED <<gens, srv, listeners, open, socket, stopped, impl, svc>>
  BY DEF life
<1>2. Mine'
  BY <1>1 DEF ServerNow, Mine
<1>3. SrvNow' /\ ImplNow'
  BY <1>1 DEF ServerNow, SrvNow, ImplNow
<1>4. OpenNow' /\ Files'
  BY <1>1 DEF ServerNow, OpenNow, Files, Down
<1>5. QED
  BY <1>2, <1>3, <1>4 DEF ServerNow

LEMMA StartKeeps ==
  ASSUME Inv, ServerNow, serial', NEW t \in Threads, NEW cfg \in Config, StartCheck(t, cfg)
  PROVE  ServerNow'
<1> USE DEF Label
<1>1. /\ TypeOK /\ OneAtATime /\ Quiet /\ Stage = "idle" /\ pc[t] = "idle"
      /\ \A u \in Threads : pc[u] \in {"idle", "handle"}
  BY DEF Stage, Inv, ServerNow, StartCheck, Overlaps, At, Quiet, Lifecycle
<1>2. CASE srv # 0
  <2>1. pc' = [pc EXCEPT ![t] = "idle"] /\ UNCHANGED <<life, impl, svc>>
    BY <1>2 DEF StartCheck, Return, Goto, life, impls
  <2>2. OneAtATime' /\ Stage' = "idle" /\ \A u \in Threads : pc'[u] \in {"idle", "handle"}
    BY <1>1, <2>1, StageMoves DEF TypeOK
  <2>3. QED
    BY <1>1, <2>1, <2>2, Unmoved
<1>3. CASE srv = 0
  <2>1. /\ gens < MaxStart /\ gens' = gens + 1 /\ listeners' = {} /\ pc' = [pc EXCEPT ![t] = "listen"]
        /\ my' = [my EXCEPT ![t] = [Fresh EXCEPT !.gen = gens + 1, !.cache = cfg.cache, !.todo = cfg.net]]
        /\ UNCHANGED <<srv, open, socket, stopped, impl, svc>>
    BY <1>3 DEF StartCheck, Goto, impls
  <2>2. /\ OneAtATime' /\ Stage' = "listen"
        /\ \A u \in Threads : u # t => pc'[u] \in {"idle", "handle"}
    BY <1>1, <2>1, StageMoves
  <2>3. gens \in Nat /\ gens' # 0 /\ gens' # gens /\ srv' = 0 /\ impl' = 0 /\ open' = {} /\ socket' = 0
    BY <1>1, <1>3, <2>1, ServerAssumption DEF TypeOK, ServerNow, ImplNow, Files
  <2>4. my'[t].gen = gens'
    BY <1>1, <2>1 DEF TypeOK, Fresh
  <2>5. Mine'
    BY <2>2, <2>3, <2>4 DEF Mine
  <2>6. SrvNow'
    BY <2>2, <2>3 DEF SrvNow
  <2>7. ImplNow'
    BY <1>1, <1>3, <2>1, <2>2, <2>3 DEF ServerNow, ImplNow, Gen
  <2>8. OpenNow'
    <3>1. \A g \in stopped : g \in 0 .. gens
      BY DEF ServerNow, OpenNow
    <3>2. \A g \in stopped : g \in 0 .. gens' /\ g # gens'
      BY <2>1, <2>3, <3>1
    <3>3. QED
      BY <2>1, <2>3, <3>2 DEF OpenNow
  <2>9. Files'
    BY <2>1, <2>3 DEF Files
  <2>10. QED
    BY <2>2, <2>5, <2>6, <2>7, <2>8, <2>9 DEF ServerNow
<1>4. QED
  BY <1>2, <1>3

LEMMA ListenKeeps ==
  ASSUME Inv, ServerNow, NEW t \in Threads, NEW n \in Net, Listen(t, n)
  PROVE  ServerNow'
<1>1. /\ pc[t] = "listen" /\ n \in my[t].todo /\ pc' = pc
      /\ my' = [my EXCEPT ![t].todo = @ \ {n}]
      /\ UNCHANGED <<gens, srv, stopped, impl, svc>>
  BY DEF Listen, At, impls
<1>2. TypeOK /\ OneAtATime /\ my[t].gen = gens /\ gens # 0
  BY <1>1 DEF Inv, ServerNow, Mine
<1>3. OneAtATime' /\ Stage' = "listen" /\ Stage = "listen"
  <2>1. OneAtATime' /\ Stage' = Stage
    BY <1>1, <1>2, StageStays
  <2>2. Stage = "listen"
    BY <1>1, <1>2, StageOf DEF StageIsPC, Lifecycle
  <2>3. QED
    BY <2>1, <2>2
<1>4. /\ my'[t].gen = my[t].gen /\ my'[t].todo = my[t].todo \ {n}
      /\ \A u \in Threads : u # t => my'[u] = my[u]
  BY <1>1, <1>2 DEF TypeOK, Local
<1>5. \A u \in Threads : u # t => pc[u] \in {"idle", "handle"}
  BY <1>1, <1>2 DEF OneAtATime, Lifecycle
<1>6. /\ open \subseteq listeners /\ listeners \subseteq Listener /\ listeners \subseteq open
      /\ gens \notin stopped
      /\ \A l \in open : l[1] = gens /\ l[2] \in Net /\ l[2] # n /\ l = <<l[1], l[2]>>
      /\ \A l \in open : l[2] \notin my[t].todo
  BY <1>1, <1>3 DEF ServerNow, OpenNow, Down, Mine, Listener
<1>7. gens \in Gen
  BY <1>2, ServerAssumption DEF TypeOK, Gen
<1> DEFINE k == <<gens, n>>
<1>8. k \in Listener /\ k[1] = gens /\ k[2] = n
  BY <1>7 DEF Listener
<1> HIDE DEF k
<1>9. SrvNow' /\ ImplNow'
  BY <1>1, <1>3 DEF ServerNow, SrvNow, ImplNow
<1>10. CASE open' = open \cup {k} /\ listeners' = listeners \cup {k}
            /\ socket' = IF n = "uds" THEN gens ELSE socket
  <2>1. \A l \in open' : l \in open \/ l = k
    BY <1>10
  <2>2. Mine'
    BY <1>1, <1>2, <1>4, <1>5, <1>6, <1>8, <2>1 DEF Mine
  <2>3. OpenNow'
    BY <1>1, <1>6, <1>8, <1>10 DEF ServerNow, OpenNow
  <2>4. Files'
    BY <1>1, <1>3, <1>6, <1>8, <1>10 DEF ServerNow, Files
  <2>5. QED
    BY <1>3, <1>9, <2>2, <2>3, <2>4 DEF ServerNow
<1>11. CASE UNCHANGED <<open, listeners>> /\ socket' = IF n = "uds" THEN 0 ELSE socket
  <2>1. Mine'
    BY <1>1, <1>2, <1>4, <1>5, <1>6, <1>11 DEF Mine
  <2>2. OpenNow'
    BY <1>1, <1>3, <1>11 DEF ServerNow, OpenNow, Down
  <2>3. Files'
    BY <1>1, <1>3, <1>6, <1>11 DEF ServerNow, Files
  <2>4. QED
    BY <1>3, <1>9, <2>1, <2>2, <2>3 DEF ServerNow
<1>12. QED
  BY <1>2, <1>10, <1>11 DEF Listen, k

(* The other steps of a start or a stop move its thread on.                *)
LEMMA Moved ==
  ASSUME Inv, ServerNow, NEW t \in Threads, pc[t] \notin {"idle", "handle"},
         NEW l \in {"lock", "closing", "stop", "close", "clear", "clear2", "idle"},
         pc' = [pc EXCEPT ![t] = l]
  PROVE  /\ OneAtATime' /\ Stage' = l /\ Stage = pc[t] /\ Mine'
<1>1. TypeOK /\ OneAtATime
  BY DEF Inv, ServerNow
<1>2. Lifecycle(t) /\ l \in Label \ {"handle"}
  BY DEF Lifecycle, Label
<1>3. /\ OneAtATime' /\ Stage' = l /\ Stage = pc[t]
      /\ \A u \in Threads : u # t => pc'[u] \in {"idle", "handle"}
  BY <1>1, <1>2, StageMoves, StageOf DEF StageIsPC
<1>4. pc'[t] = l
  BY <1>1 DEF TypeOK
<1>5. Mine'
  BY <1>3, <1>4 DEF Mine
<1>6. QED
  BY <1>3, <1>5

LEMMA Started ==
  ASSUME Inv, ServerNow, NEW t \in Threads, pc[t] \in {"listen", "setSrv", "publish"},
         NEW l \in {"setSrv", "publish", "spawn"},
         pc' = [pc EXCEPT ![t] = l], UNCHANGED <<gens, my>>
  PROVE  /\ OneAtATime' /\ Stage' = l /\ Stage = pc[t] /\ Mine'
<1>1. TypeOK /\ OneAtATime /\ Mine
  BY DEF Inv, ServerNow
<1>2. Lifecycle(t) /\ l \in Label \ {"handle"}
  BY DEF Lifecycle, Label
<1>3. /\ OneAtATime' /\ Stage' = l /\ Stage = pc[t]
      /\ \A u \in Threads : u # t => pc'[u] \in {"idle", "handle"}
  BY <1>1, <1>2, StageMoves, StageOf DEF StageIsPC
<1>4. pc'[t] = l
  BY <1>1 DEF TypeOK
<1>5. Mine'
  BY <1>1, <1>3, <1>4 DEF Mine
<1>6. QED
  BY <1>3, <1>5

LEMMA StartStepKeeps ==
  ASSUME Inv, ServerNow, NEW t \in Threads,
         NewCoreService(t) \/ SetSrv(t) \/ Publish(t) \/ Spawn(t)
  PROVE  ServerNow'
<1> USE DEF Goto, At
<1>0. TypeOK
  BY DEF Inv
<1>1. CASE NewCoreService(t)
  <2>1. PICK c \in BOOLEAN : svc' = [svc EXCEPT ![my[t].gen] = [cache |-> c, open |-> TRUE]]
    BY <1>1 DEF NewCoreService
  <2>2. /\ pc[t] = "listen" /\ pc' = [pc EXCEPT ![t] = "setSrv"]
        /\ UNCHANGED <<gens, srv, listeners, open, socket, stopped, impl, my>>
    BY <1>1 DEF NewCoreService, life
  <2>3. OneAtATime' /\ Stage' = "setSrv" /\ Stage = "listen" /\ Mine'
    BY <2>2, Started
  <2>4. my[t].gen = gens
    BY <2>2 DEF ServerNow, Mine
  <2>5. ImplNow'
    <3>1. \A g \in Gen : g # gens => svc'[g] = svc[g]
      BY <1>0, <2>1, <2>4 DEF TypeOK
    <3>2. \A g \in Gen : svc'[g].open => g = gens
      BY <3>1 DEF ServerNow, ImplNow
    <3>3. QED
      BY <2>2, <2>3, <3>2 DEF ServerNow, ImplNow
  <2>6. SrvNow' /\ OpenNow' /\ Files'
    BY <2>2, <2>3 DEF ServerNow, SrvNow, OpenNow, Files, Down
  <2>7. QED
    BY <2>3, <2>5, <2>6 DEF ServerNow
<1>2. CASE SetSrv(t)
  <2>1. /\ pc[t] = "setSrv" /\ pc' = [pc EXCEPT ![t] = "publish"] /\ srv' = my[t].gen
        /\ UNCHANGED <<gens, listeners, open, socket, stopped, impl, svc, my>>
    BY <1>2 DEF SetSrv, impls
  <2>2. OneAtATime' /\ Stage' = "publish" /\ Stage = "setSrv" /\ Mine'
    BY <2>1, Started
  <2>3. srv' = gens /\ gens # 0
    BY <2>1 DEF ServerNow, Mine
  <2>4. impl = 0
    BY <2>2 DEF ServerNow, ImplNow, SrvNow
  <2>5. SrvNow' /\ ImplNow'
    BY <2>1, <2>2, <2>3, <2>4 DEF ServerNow, SrvNow, ImplNow
  <2>6. OpenNow' /\ Files'
    BY <2>1, <2>2 DEF ServerNow, OpenNow, Files, Down
  <2>7. QED
    BY <2>2, <2>5, <2>6 DEF ServerNow
<1>3. CASE Publish(t)
  <2>1. /\ pc[t] = "publish" /\ pc' = [pc EXCEPT ![t] = "spawn"] /\ impl' = my[t].gen
        /\ UNCHANGED <<gens, srv, listeners, open, socket, stopped, svc, my>>
    BY <1>3 DEF Publish, life
  <2>2. OneAtATime' /\ Stage' = "spawn" /\ Stage = "publish" /\ Mine'
    BY <2>1, Started
  <2>3. impl' = gens /\ gens # 0 /\ srv = gens
    BY <2>1, <2>2 DEF ServerNow, Mine, SrvNow
  <2>4. SrvNow' /\ ImplNow'
    BY <2>1, <2>2, <2>3 DEF ServerNow, SrvNow, ImplNow
  <2>5. OpenNow' /\ Files'
    BY <2>1, <2>2 DEF ServerNow, OpenNow, Files, Down
  <2>6. QED
    BY <2>2, <2>4, <2>5 DEF ServerNow
<1>4. CASE Spawn(t)
  <2>1. /\ pc[t] = "spawn" /\ pc' = [pc EXCEPT ![t] = "idle"]
        /\ UNCHANGED <<gens, srv, listeners, open, socket, stopped, impl, svc>>
    BY <1>4 DEF Spawn, Return, life, impls
  <2>2. OneAtATime' /\ Stage' = "idle" /\ Stage = "spawn" /\ Mine'
    BY <2>1, Moved
  <2>3. SrvNow' /\ ImplNow'
    BY <2>1, <2>2 DEF ServerNow, SrvNow, ImplNow
  <2>4. OpenNow' /\ Files'
    BY <2>1, <2>2 DEF ServerNow, SrvNow, OpenNow, Files, Down
  <2>5. QED
    BY <2>2, <2>3, <2>4 DEF ServerNow
<1>5. QED
  BY <1>1, <1>2, <1>3, <1>4

LEMMA StopCheckKeeps ==
  ASSUME Inv, ServerNow, serial', NEW t \in Threads, StopCheck(t)
  PROVE  ServerNow'
<1> USE DEF Label
<1>1. /\ TypeOK /\ OneAtATime /\ Quiet /\ Stage = "idle" /\ pc[t] = "idle"
      /\ \A u \in Threads : pc[u] \in {"idle", "handle"}
      /\ UNCHANGED <<gens, srv, listeners, open, socket, stopped, impl, svc>>
  BY DEF Stage, Inv, ServerNow, StopCheck, Overlaps, At, Quiet, Lifecycle, life, impls
<1>2. CASE srv = 0
  <2>1. pc' = [pc EXCEPT ![t] = "idle"]
    BY <1>2 DEF StopCheck, Return, Goto
  <2>2. OneAtATime' /\ Stage' = "idle" /\ \A u \in Threads : pc'[u] \in {"idle", "handle"}
    BY <1>1, <2>1, StageMoves DEF TypeOK
  <2>3. QED
    BY <1>1, <2>1, <2>2, Unmoved DEF life
<1>3. CASE srv # 0
  <2>1. pc' = [pc EXCEPT ![t] = "lock"]
    BY <1>3 DEF StopCheck, Goto
  <2>2. /\ OneAtATime' /\ Stage' = "lock" /\ pc'[t] = "lock"
        /\ \A u \in Threads : u # t => pc'[u] \in {"idle", "handle"}
    BY <1>1, <2>1, StageMoves DEF TypeOK
  <2>3. Mine'
    BY <2>2 DEF Mine
  <2>4. SrvNow' /\ ImplNow'
    BY <1>1, <1>3, <2>2 DEF ServerNow, SrvNow, ImplNow
  <2>5. OpenNow' /\ Files'
    BY <1>1, <1>3, <2>2 DEF ServerNow, OpenNow, Files, Down
  <2>6. QED
    BY <2>2, <2>3, <2>4, <2>5 DEF ServerNow
<1>4. QED
  BY <1>2, <1>3

LEMMA StopStepKeeps ==
  ASSUME Inv, ServerNow, NEW t \in Threads,
         \/ StopLock(t) \/ CloseImpl(t) \/ StopServer(t)
         \/ CloseListeners(t) \/ ClearSrv(t) \/ ClearListeners(t)
  PROVE  ServerNow'
<1> USE DEF Goto, At
<1>0. TypeOK
  BY DEF Inv
<1>1. CASE StopLock(t)
  <2>1. /\ pc[t] = "lock" /\ pc' = [pc EXCEPT ![t] = "closing"]
        /\ UNCHANGED <<gens, srv, listeners, open, socket, stopped, impl, svc>>
    BY <1>1 DEF StopLock, life
  <2>2. OneAtATime' /\ Stage' = "closing" /\ Stage = "lock" /\ Mine'
    BY <2>1, Moved
  <2>3. SrvNow' /\ ImplNow'
    BY <2>1, <2>2 DEF ServerNow, SrvNow, ImplNow
  <2>4. OpenNow' /\ Files'
    BY <2>1, <2>2 DEF ServerNow, OpenNow, Files, Down
  <2>5. QED
    BY <2>2, <2>3, <2>4 DEF ServerNow
<1>2. CASE CloseImpl(t)
  <2>1. /\ pc[t] = "closing" /\ pc' = [pc EXCEPT ![t] = "stop"] /\ impl' = 0
        /\ svc' = IF impl = 0 THEN svc ELSE [svc EXCEPT ![impl].open = FALSE]
        /\ UNCHANGED <<gens, srv, listeners, open, socket, stopped>>
    BY <1>2 DEF CloseImpl, life
  <2>2. OneAtATime' /\ Stage' = "stop" /\ Stage = "closing" /\ Mine'
    BY <2>1, Moved
  <2>3. \A g \in Gen : ~svc'[g].open
    <3>1. \A g \in Gen : svc[g].open => impl = g
      BY <2>2 DEF ServerNow, ImplNow
    <3>2. 0 \notin Gen
      BY DEF Gen
    <3>3. QED
      BY <1>0, <2>1, <3>1, <3>2 DEF TypeOK, Service
  <2>4. SrvNow' /\ ImplNow'
    BY <2>1, <2>2, <2>3 DEF ServerNow, SrvNow, ImplNow
  <2>5. OpenNow' /\ Files'
    BY <2>1, <2>2 DEF ServerNow, OpenNow, Files, Down
  <2>6. QED
    BY <2>2, <2>4, <2>5 DEF ServerNow
<1>3. CASE StopServer(t)
  <2>1. /\ pc[t] = "stop" /\ pc' = [pc EXCEPT ![t] = "close"]
        /\ UNCHANGED <<gens, srv, listeners, impl, svc>>
    BY <1>3 DEF StopServer, impls
  <2>2. OneAtATime' /\ Stage' = "close" /\ Stage = "stop" /\ Mine'
    BY <2>1, Moved
  <2>3. srv = gens /\ srv # 0
    BY <2>2 DEF ServerNow, SrvNow
  <2>4. /\ stopped' = stopped \cup {srv} /\ open' \subseteq open
        /\ socket' = IF \E l \in open \ open' : l[2] = "uds" THEN 0 ELSE socket
    BY <1>3, <2>3 DEF StopServer, Unlinks
  <2>5. SrvNow' /\ ImplNow'
    BY <2>1, <2>2 DEF ServerNow, SrvNow, ImplNow
  <2>6. OpenNow'
    BY <1>0, <2>1, <2>2, <2>3, <2>4 DEF ServerNow, OpenNow, Down, TypeOK
  <2>7. Files'
    <3>1. \A l \in open' : l[2] = "uds" => l \in open /\ l = <<gens, "uds">>
      BY <2>4 DEF ServerNow, OpenNow, Listener
    <3>2. \A l \in open \ open' : l[2] = "uds" => l = <<gens, "uds">>
      BY DEF ServerNow, OpenNow, Listener
    <3>3. QED
      BY <2>1, <2>2, <2>4, <3>1, <3>2 DEF ServerNow, Files
  <2>8. QED
    BY <2>2, <2>5, <2>6, <2>7 DEF ServerNow
<1>4. CASE CloseListeners(t)
  <2>1. /\ pc[t] = "close" /\ pc' = [pc EXCEPT ![t] = "clear"]
        /\ open' = open \ listeners
        /\ socket' = IF \E l \in listeners : l[2] = "uds" THEN 0 ELSE socket
        /\ UNCHANGED <<gens, srv, listeners, stopped, impl, svc>>
    BY <1>4 DEF CloseListeners, Unlinks, impls
  <2>2. OneAtATime' /\ Stage' = "clear" /\ Stage = "close" /\ Mine'
    BY <2>1, Moved
  <2>3. open' = {} /\ socket' = 0
    BY <2>1 DEF ServerNow, OpenNow, Files
  <2>4. SrvNow' /\ ImplNow'
    BY <2>1, <2>2 DEF ServerNow, SrvNow, ImplNow
  <2>5. OpenNow' /\ Files'
    BY <2>1, <2>2, <2>3 DEF ServerNow, OpenNow, Files, Down
  <2>6. QED
    BY <2>2, <2>4, <2>5 DEF ServerNow
<1>5. CASE ClearSrv(t)
  <2>1. /\ pc[t] = "clear" /\ pc' = [pc EXCEPT ![t] = "clear2"] /\ srv' = 0
        /\ UNCHANGED <<gens, listeners, open, socket, stopped, impl, svc>>
    BY <1>5 DEF ClearSrv, impls
  <2>2. OneAtATime' /\ Stage' = "clear2" /\ Stage = "clear" /\ Mine'
    BY <2>1, Moved
  <2>3. SrvNow' /\ ImplNow'
    BY <2>1, <2>2 DEF ServerNow, SrvNow, ImplNow
  <2>4. OpenNow' /\ Files'
    BY <2>1, <2>2 DEF ServerNow, OpenNow, Files, Down
  <2>5. QED
    BY <2>2, <2>3, <2>4 DEF ServerNow
<1>6. CASE ClearListeners(t)
  <2>1. /\ pc[t] = "clear2" /\ pc' = [pc EXCEPT ![t] = "idle"] /\ listeners' = {}
        /\ UNCHANGED <<gens, srv, open, socket, stopped, impl, svc>>
    BY <1>6 DEF ClearListeners, Return, impls
  <2>2. OneAtATime' /\ Stage' = "idle" /\ Stage = "clear2" /\ Mine'
    BY <2>1, Moved
  <2>3. open = {} /\ socket = 0 /\ srv = 0 /\ impl = 0
    BY <2>2 DEF ServerNow, Files, SrvNow, ImplNow
  <2>4. SrvNow' /\ ImplNow'
    BY <2>1, <2>2, <2>3 DEF ServerNow, SrvNow, ImplNow
  <2>5. OpenNow' /\ Files'
    BY <2>1, <2>2, <2>3 DEF ServerNow, OpenNow, Files, Down
  <2>6. QED
    BY <2>2, <2>4, <2>5 DEF ServerNow
<1>7. QED
  BY <1>1, <1>2, <1>3, <1>4, <1>5, <1>6

LEMMA CallKeeps ==
  ASSUME Inv, ServerNow, NEW t \in Threads,
         \/ \E op \in Op : Lookup(t, op)
         \/ \E cached \in BOOLEAN : Arm(t, cached)
         \/ At(t, "handle") /\ Return(t) /\ UNCHANGED <<life, impls, served, rest>>
         \/ CacheExport(t)
  PROVE  ServerNow'
<1>0. TypeOK /\ OneAtATime
  BY DEF Inv, ServerNow
<1>1. UNCHANGED <<life, impl, svc>>
  BY DEF Lookup, Arm, CacheExport, impls
<1>2. \A u \in Threads : \/ pc'[u] = pc[u] /\ my'[u] = my[u]
                         \/ pc[u] \in {"idle", "handle"} /\ pc'[u] \in {"idle", "handle"}
  BY <1>0 DEF Lookup, Arm, CacheExport, Return, Goto, At, TypeOK
<1>3. OneAtATime' /\ Stage' = Stage
  BY <1>0, <1>2, StageStays
<1>4. QED
  BY <1>1, <1>2, <1>3, Unmoved

LEMMA GoroutineKeeps ==
  ASSUME ServerNow, Goroutine \/ Remote
  PROVE  ServerNow'
<1>0. OneAtATime /\ UNCHANGED <<pc, my>>
  BY DEF ServerNow, Goroutine, SpawnServe, Serve, ServeEnds, Remote, RemoteCall
<1>1. OneAtATime' /\ Stage' = Stage
  BY <1>0, StageStays
<1>2. CASE UNCHANGED <<life, impl, svc>>
  BY <1>0, <1>1, <1>2, Unmoved
<1>3. ASSUME NEW l \in Listener, Serve(l), srv # 0 PROVE ServerNow'
  <2>1. /\ open' = IF srv \in stopped THEN open \ {l} ELSE open
        /\ socket' = IF \E k \in open \ open' : k[2] = "uds" THEN 0 ELSE socket
        /\ UNCHANGED <<gens, srv, listeners, stopped, impl, svc>>
    BY <1>3 DEF Serve, Unlinks, impls
  <2>2. CASE srv \notin stopped
    <3>1. open' = open /\ socket' = socket
      BY <2>1, <2>2
    <3>2. QED
      BY <1>2, <2>1, <3>1 DEF life
  <2>3. CASE srv \in stopped
    <3>1. Down /\ Down'
      BY <1>1, <1>3, <2>1, <2>3 DEF ServerNow, SrvNow, OpenNow, Down
    <3>2. open' \subseteq open
      BY <2>1
    <3>3. Mine'
      BY <1>0, <2>1, <3>2 DEF ServerNow, Mine
    <3>4. SrvNow' /\ ImplNow'
      BY <1>1, <2>1 DEF ServerNow, SrvNow, ImplNow
    <3>5. OpenNow'
      BY <2>1, <3>1, <3>2 DEF ServerNow, OpenNow
    <3>6. Files'
      <4>1. \A k \in open : k[2] = "uds" => k = <<gens, "uds">>
        BY DEF ServerNow, OpenNow, Listener
      <4>2. QED
        BY <1>1, <2>1, <3>2, <4>1 DEF ServerNow, Files
    <3>7. QED
      BY <1>1, <3>3, <3>4, <3>5, <3>6 DEF ServerNow
  <2>4. QED
    BY <2>2, <2>3
<1>4. ASSUME NEW l \in Listener, Serve(l), srv = 0 PROVE UNCHANGED <<life, impl, svc>>
  BY <1>4 DEF Serve, life, impls
<1>5. (\E g \in Gen : SpawnServe(g)) \/ (\E p \in Gen \X Listener : ServeEnds(p)) \/ Remote
        => UNCHANGED <<life, impl, svc>>
  BY DEF SpawnServe, ServeEnds, Remote, RemoteCall, impls
<1>6. QED
  BY <1>2, <1>3, <1>4, <1>5 DEF Goroutine

LEMMA ServerNext ==
  ASSUME Inv, serial => ServerNow, Step, serial'
  PROVE  ServerNow'
<1>1. CASE UNCHANGED vars
  <2>1. serial /\ UNCHANGED <<life, impl, svc, pc, my>>
    BY <1>1 DEF vars, impls, rest
  <2>2. OneAtATime' /\ Stage' = Stage
    BY <2>1, StageStays DEF ServerNow
  <2>3. QED
    BY <2>1, <2>2, Unmoved
<1>2. ASSUME NEW t \in Threads, NEW cfg \in Config, StartCheck(t, cfg) PROVE ServerNow'
  BY <1>2, StartKeeps DEF StartCheck, Overlaps
<1>3. ASSUME NEW t \in Threads, StopCheck(t) PROVE ServerNow'
  BY <1>3, StopCheckKeeps DEF StopCheck, Overlaps
<1>4. ASSUME NEW t \in Threads, NEW n \in Net, Listen(t, n) PROVE ServerNow'
  BY <1>4, ListenKeeps DEF Listen, rest
<1>5. ASSUME NEW t \in Threads, NewCoreService(t) \/ SetSrv(t) \/ Publish(t) \/ Spawn(t)
      PROVE  ServerNow'
  BY <1>5, StartStepKeeps DEF NewCoreService, SetSrv, Publish, Spawn, rest
<1>6. ASSUME NEW t \in Threads,
             \/ StopLock(t) \/ CloseImpl(t) \/ StopServer(t)
             \/ CloseListeners(t) \/ ClearSrv(t) \/ ClearListeners(t)
      PROVE  ServerNow'
  <2>1. serial
    BY <1>6 DEF StopLock, CloseImpl, StopServer, CloseListeners, ClearSrv, ClearListeners, rest
  <2>2. QED
    BY <1>6, <2>1, StopStepKeeps
<1>7. ASSUME NEW t \in Threads,
             \/ \E op \in Op : Lookup(t, op)
             \/ \E cached \in BOOLEAN : Arm(t, cached)
             \/ At(t, "handle") /\ Return(t) /\ UNCHANGED <<life, impls, served, rest>>
             \/ CacheExport(t)
      PROVE  ServerNow'
  <2>1. serial
    BY <1>7 DEF Lookup, Arm, CacheExport, rest
  <2>2. QED
    BY <1>7, <2>1, CallKeeps
<1>8. CASE Goroutine \/ Remote
  <2>1. serial
    BY <1>8 DEF Goroutine, SpawnServe, Serve, ServeEnds, Remote, RemoteCall, rest
  <2>2. QED
    BY <1>8, <2>1, GoroutineKeeps
<1>9. ASSUME NEW t \in Threads, Call(t) \/ InvokeFfi(t) \/ OpensStream(t) PROVE ServerNow'
  BY <1>7, <1>9 DEF Call, InvokeBackend, InvokeBackendWithMeta, OpensStream, Op, InvokeFfi, FfiPing, FfiGet,
         FfiWrite, FfiQuery, FfiLimit, FfiStats, FfiUnknown
<1>10. QED
  BY <1>1, <1>2, <1>3, <1>4, <1>5, <1>6, <1>7, <1>8, <1>9 DEF Step, Next, Begin, Continue

LEMMA SerialStays == Step /\ serial' => serial
<1> SUFFICES ASSUME Step, serial' PROVE serial
  OBVIOUS
<1>1. ASSUME NEW t \in Threads, Begin(t) PROVE serial
  BY <1>1 DEF Begin, StartCheck, StopCheck, Overlaps, Call, InvokeBackend, InvokeBackendWithMeta, Lookup, rest
<1>2. ASSUME NEW t \in Threads, Continue(t) PROVE serial
  BY <1>2 DEF Continue, Listen, NewCoreService, SetSrv, Publish, Spawn, StopLock, CloseImpl, StopServer,
         CloseListeners, ClearSrv, ClearListeners, InvokeFfi, FfiPing, FfiGet, FfiWrite, FfiQuery,
         FfiLimit, FfiStats, FfiUnknown, Arm, CacheExport, rest
<1>3. ASSUME NEW t \in Threads, OpensStream(t) PROVE serial
  BY <1>3 DEF OpensStream, Lookup, rest
<1>4. CASE Goroutine \/ Remote
  BY <1>4 DEF Goroutine, SpawnServe, Serve, ServeEnds, Remote, RemoteCall, rest
<1>5. QED
  BY <1>1, <1>2, <1>3, <1>4 DEF Step, Next, vars, rest

---------------------------------------------------------------------------
(* The two libraries take the steps of Server, and the tracker none.       *)
HostStep == [HostNext]_hostVars

LEMMA HostSteps == HostStep => Step
<1> SUFFICES ASSUME HostStep PROVE Step
  OBVIOUS
<1>1. ASSUME NEW t \in Threads, Begin(t) \/ Continue(t) PROVE Step
  BY <1>1 DEF Step, Next
<1>2. ASSUME NEW t \in Threads, ExampleStarts(t) \/ ExampleServes(t) \/ ExampleStops(t) PROVE Step
  BY <1>1, <1>2 DEF ExampleStarts, ExampleServes, ExampleStops, Begin, Continue
<1>3. ASSUME NEW t \in Threads, ExampleBackend(t) \/ ExampleCache(t) PROVE Step
  BY <1>1, <1>3 DEF ExampleBackend, ExampleCache, Begin, Continue, Call
<1>4. ASSUME NEW t \in Threads, StreamExport(t) PROVE Step
  BY <1>4 DEF StreamExport, Step, OpensStream
<1>5. ASSUME NEW t \in Threads, ExampleInvokes(t) PROVE Step
  <2>1. ASSUME NEW cached \in BOOLEAN, Arm(t, cached) PROVE Continue(t)
    BY <2>1 DEF Continue, InvokeFfi, FfiPing, FfiGet
  <2>2. QED
    BY <1>1, <1>5, <2>1 DEF ExampleInvokes, InvokeGreeter, InvokeDartGreeter, InvokeCore
<1>6. ASSUME Goroutine \/ Remote PROVE Step
  BY <1>6 DEF Step, Next
<1>7. ASSUME NEW g \in Gen, Selects(g) PROVE Step
  BY <1>7 DEF Selects, Step
<1>8. ASSUME NEW k \in selecting, Ticks(k) \/ Quits(k) PROVE Step
  BY <1>8 DEF Ticks, Quits, Step
<1>9. QED
  BY <1>1, <1>2, <1>3, <1>4, <1>5, <1>6, <1>7, <1>8
     DEF HostStep, HostNext, CoreHost, ExampleHost, hostVars, Step

(* No step but the check of a stop leads away from a server that runs.     *)
LEMMA Runs ==
  ASSUME TypeOK, OneAtATime, Quiet, srv # 0,
         \/ \E t \in Threads :
              \/ ExampleStarts(t) \/ ExampleBackend(t) \/ ExampleCache(t)
              \/ StreamExport(t) \/ ExampleInvokes(t)
              \/ StopLock(t) \/ CloseImpl(t) \/ StopServer(t)
              \/ CloseListeners(t) \/ ClearSrv(t) \/ ClearListeners(t)
         \/ Goroutine \/ Remote \/ UNCHANGED vars
  PROVE  srv' = srv /\ Stage' = "idle"
<1> DEFINE Away == \A u \in Threads : \/ pc'[u] = pc[u]
                                      \/ pc[u] \in {"idle", "handle"} /\ pc'[u] \in {"idle", "handle"}
<1>1. \A t \in Threads : pc[t] \in {"idle", "handle"}
  BY DEF Quiet, Lifecycle
<1>2. ASSUME NEW t \in Threads, ExampleStarts(t) PROVE srv' = srv /\ Away
  BY <1>1, <1>2 DEF ExampleStarts, StartCheck, Listen, NewCoreService, SetSrv, Publish, At, Return, Goto, TypeOK
<1>3. ASSUME NEW t \in Threads,
             \/ StopLock(t) \/ CloseImpl(t) \/ StopServer(t)
             \/ CloseListeners(t) \/ ClearSrv(t) \/ ClearListeners(t)
      PROVE  FALSE
  BY <1>1, <1>3 DEF StopLock, CloseImpl, StopServer, CloseListeners, ClearSrv, ClearListeners, At
<1>4. ASSUME NEW t \in Threads,
             ExampleBackend(t) \/ ExampleCache(t) \/ StreamExport(t) \/ ExampleInvokes(t)
      PROVE  srv' = srv /\ Away
  <2>1. UNCHANGED life
    BY <1>4 DEF ExampleBackend, ExampleCache, StreamExport, ExampleInvokes, InvokeBackend, Lookup, CacheExport,
           InvokeGreeter, InvokeDartGreeter, InvokeCore, Arm
  <2>2. pc' = pc \/ \E l \in {"idle", "handle"} : pc' = [pc EXCEPT ![t] = l]
    BY <1>4 DEF ExampleBackend, ExampleCache, StreamExport, ExampleInvokes, InvokeBackend, Lookup, CacheExport,
           InvokeGreeter, InvokeDartGreeter, InvokeCore, Arm, Return, Goto
  <2>3. QED
    BY <1>1, <2>1, <2>2 DEF life, TypeOK
<1>5. ASSUME Goroutine \/ Remote \/ UNCHANGED vars PROVE srv' = srv /\ Away
  <2>1. UNCHANGED <<srv, pc>>
    BY <1>5 DEF Goroutine, SpawnServe, Serve, ServeEnds, Remote, RemoteCall, vars, life
  <2>2. QED
    BY <2>1
<1> HIDE DEF Away
<1>6. srv' = srv /\ Away
  BY <1>2, <1>3, <1>4, <1>5
<1>7. Stage' = Stage
  BY <1>6, StageStays DEF Away
<1>8. Stage = "idle"
  BY DEF Stage
<1>9. QED
  BY <1>6, <1>7, <1>8

LEMMA TrackedNext ==
  ASSUME Inv, ServerNow, Tracked, HostStep
  PROVE  Tracked'
<1>0. TypeOK /\ OneAtATime
  BY DEF Inv, ServerNow
<1>1. ASSUME NEW t \in Threads, ExampleServes(t) PROVE Tracked'
  <2>1. /\ pc[t] = "spawn" /\ pc' = [pc EXCEPT ![t] = "idle"] /\ srv' = srv /\ example /\ UNCHANGED <<example, quit, selecting>>
    BY <1>1 DEF ExampleServes, Spawn, At, Return, Goto, life
  <2>2. Stage' = "idle" /\ Stage = "spawn"
    BY <2>1, Moved
  <2>3. srv # 0 /\ quitChan = 0
    BY <2>1, <2>2 DEF ServerNow, SrvNow, Tracked
  <2>4. QED
    BY <2>1, <2>2, <2>3 DEF Tracked
<1>2. ASSUME NEW t \in Threads, StopCheck(t), example, UNCHANGED <<example, printing, selecting>>,
             IF srv # 0 THEN StopTracker ELSE UNCHANGED <<quitChan, quit>>
      PROVE  Tracked'
  <2>1. quitChan' = 0 /\ quit' \cup {0} = quit \cup {0, quitChan}
    BY <1>2 DEF StopTracker, Tracked
  <2>2. QED
    BY <1>2, <2>1 DEF Tracked
<1>3. ASSUME UNCHANGED <<vars, example, quitChan, quit>>,
             \A k \in selecting' : k \in selecting \/ k[2] = quitChan
      PROVE  Tracked'
  <2>1. Stage' = Stage /\ srv' = srv
    BY <1>0, <1>3, StageStays DEF vars, life
  <2>2. QED
    BY <1>3, <2>1 DEF Tracked
<1>4. CASE UNCHANGED exampleVars /\ quitChan = 0
  BY <1>4 DEF exampleVars, Tracked
<1>5. ASSUME UNCHANGED exampleVars, quitChan # 0,
             \/ \E t \in Threads :
                  \/ ExampleStarts(t) \/ ExampleBackend(t) \/ ExampleCache(t)
                  \/ StreamExport(t) \/ ExampleInvokes(t)
                  \/ StopLock(t) \/ CloseImpl(t) \/ StopServer(t)
                  \/ CloseListeners(t) \/ ClearSrv(t) \/ ClearListeners(t)
             \/ Goroutine \/ Remote \/ UNCHANGED vars
      PROVE  Tracked'
  <2>1. Stage = "idle" /\ srv # 0 /\ example
    BY <1>5 DEF Tracked
  <2>2. Quiet
    BY <1>0, <2>1, StageOf DEF StageIsPC, Quiet, Lifecycle
  <2>3. srv' = srv /\ Stage' = "idle"
    BY <1>0, <1>5, <2>1, <2>2, Runs
  <2>4. QED
    BY <1>5, <2>1, <2>3 DEF Tracked, exampleVars
<1>6. ASSUME NEW g \in Gen, Selects(g) PROVE Tracked'
  BY <1>3, <1>6 DEF Selects
<1>7. ASSUME NEW k \in selecting, Ticks(k) \/ Quits(k) PROVE Tracked'
  BY <1>3, <1>7 DEF Ticks, Quits
<1>8. CASE ~example /\ UNCHANGED exampleVars
  BY <1>4, <1>8 DEF Tracked
<1>9. ASSUME NEW t \in Threads, ExampleStops(t) PROVE Tracked'
  BY <1>2, <1>4, <1>5, <1>9 DEF ExampleStops
<1>10. ASSUME NEW t \in Threads,
              \/ ExampleStarts(t) \/ ExampleBackend(t) \/ ExampleCache(t)
              \/ StreamExport(t) \/ ExampleInvokes(t)
       PROVE  Tracked'
  <2>1. UNCHANGED exampleVars
    BY <1>10 DEF ExampleStarts, ExampleBackend, ExampleCache, StreamExport, ExampleInvokes
  <2>2. QED
    BY <1>4, <1>5, <1>10, <2>1
<1>11. CASE (Goroutine \/ Remote) /\ UNCHANGED exampleVars
  BY <1>4, <1>5, <1>11
<1>12. CASE UNCHANGED hostVars
  BY <1>4, <1>5, <1>12 DEF hostVars
<1>13. QED
  BY <1>1, <1>6, <1>7, <1>8, <1>9, <1>10, <1>11, <1>12 DEF HostStep, HostNext, CoreHost, ExampleHost

LEMMA SerialInitially == ExampleInit => Inv /\ SerialInv
<1> SUFFICES ASSUME ExampleInit PROVE Inv /\ SerialInv
  OBVIOUS
<1>1. Init /\ Inv
  BY Initially DEF ExampleInit
<1>2. Quiet /\ Stage = "idle"
  BY <1>1 DEF Init, Quiet, Lifecycle, Stage
<1>3. OneAtATime /\ Mine /\ SrvNow /\ OpenNow /\ Files
  BY <1>1, <1>2 DEF Init, Lifecycle, OneAtATime, Mine, SrvNow, OpenNow, Files, Down
<1>4. ImplNow
  BY <1>1, <1>2 DEF Init, ImplNow, NoService
<1>5. Tracked
  BY DEF ExampleInit, Tracked
<1>6. QED
  BY <1>1, <1>3, <1>4, <1>5 DEF SerialInv, ServerNow

LEMMA SerialNext == Inv /\ SerialInv /\ HostStep => Inv' /\ SerialInv'
<1> SUFFICES ASSUME Inv, SerialInv, HostStep PROVE Inv' /\ SerialInv'
  OBVIOUS
<1>1. Step /\ Inv'
  BY HostSteps, Preserved
<1>2. CASE serial'
  <2>1. serial /\ ServerNow /\ Tracked
    BY <1>1, <1>2, SerialStays DEF SerialInv
  <2>2. ServerNow'
    BY <1>1, <1>2, <2>1, ServerNext
  <2>3. Tracked'
    BY <2>1, TrackedNext
  <2>4. QED
    BY <1>1, <2>2, <2>3 DEF SerialInv
<1>3. QED
  BY <1>1, <1>2 DEF SerialInv

LEMMA Host == HostSpec => [](Inv /\ SerialInv)
<1>1. HostSpec => ExampleInit /\ [][HostStep]_hostVars
  BY PTL DEF HostSpec, HostStep
<1>2. Inv /\ SerialInv /\ UNCHANGED hostVars => (Inv /\ SerialInv)'
  BY SerialNext DEF HostStep
<1>3. QED
  BY <1>1, <1>2, SerialInitially, SerialNext, PTL

(* What a call looks up is open, in the library of the example as well,    *)
(* whose three exports for streams look services up too                    *)
(* (example/cmd/server/main.go).                                           *)
THEOREM HostLookupFindsOpen == HostSpec => []ImplOpenWhenVisible
<1>1. Inv => ImplOpenWhenVisible
  BY DEF Inv, ImplOpen, ImplOpenWhenVisible
<1> QED
  BY <1>1, Host, PTL

(* After any number of starts and stops that came one after the other, a   *)
(* start that returned has left a server that serves what Dart calls: the  *)
(* service of the running server, its listeners open and the socket file   *)
(* its own, although goroutines of every earlier start may still run and   *)
(* call Serve on the server of today (cmd/server/main.go:187-215).         *)
THEOREM StartServes == HostSpec => []StartedServes
<1>1. Inv /\ SerialInv => StartedServes
  <2> SUFFICES ASSUME SerialInv, serial, Quiet, srv # 0
               PROVE  /\ impl = srv /\ listeners \subseteq open
                      /\ \A l \in open : l[1] = srv /\ (l[2] = "uds" => socket = srv)
    BY DEF StartedServes
  <2>1. ServerNow /\ Stage = "idle"
    BY DEF SerialInv, Stage
  <2>2. impl = srv /\ srv = gens
    BY <2>1 DEF ServerNow, SrvNow, ImplNow
  <2>3. QED
    BY <2>1, <2>2 DEF ServerNow, OpenNow, Files, Down
<1> QED
  BY <1>1, Host, PTL

(* ... and a stop that returned has left no service, no listener, no       *)
(* socket file, and no tracker that waits on a channel nobody will close   *)
(* (example/cmd/server/main.go:248-281).                                   *)
THEOREM StopLeavesNothing == HostSpec => []NothingLeft
<1>1. Inv /\ SerialInv => NothingLeft
  <2> SUFFICES ASSUME SerialInv, serial, Quiet, srv = 0
               PROVE  /\ impl = 0 /\ open = {} /\ socket = 0
                      /\ \A g \in Gen : ~svc[g].open
                      /\ \A k \in selecting : k[2] \in quit \cup {0}
    BY DEF NothingLeft, StoppedClean
  <2>1. ServerNow /\ Tracked /\ Stage = "idle"
    BY DEF SerialInv, Stage
  <2>2. impl = 0 /\ open = {} /\ socket = 0
    BY <2>1 DEF ServerNow, ImplNow, Files
  <2>3. \A g \in Gen : g # 0
    BY DEF Gen
  <2>4. \A g \in Gen : ~svc[g].open
    BY <2>1, <2>2, <2>3 DEF ServerNow, ImplNow
  <2>5. \A k \in selecting : k[2] \in quit \cup {0}
    BY <2>1 DEF Tracked
  <2>6. QED
    BY <2>2, <2>4, <2>5
<1> QED
  BY <1>1, Host, PTL

---------------------------------------------------------------------------
(* The metadata of a call (Metadata): what the parser makes of a text that *)
(* grows by one line, then of what Encode has written after n entries.  B  *)
(* is the set of the bytes, whatever it holds besides the three that the   *)
(* format itself uses.                                                     *)
---------------------------------------------------------------------------
(* Least and greatest elements.                                            *)
LEMMA Antisymmetric == \A x, y \in Nat : x >= y /\ y >= x => x = y
OBVIOUS
LEMMA LeastNat ==
  ASSUME NEW B \in SUBSET Nat, B # {}
  PROVE  \E m \in B : \A x \in B : m <= x
<1> DEFINE R == OpToRel(<, Nat)
<1>0. IsWellFoundedOn(R, Nat)
  BY NatLessThanWellFounded
<1>1. \E m \in B : \A x \in B : ~(<<x, m>> \in R)
  <2> HIDE DEF R
  <2> QED BY <1>0, WFMin
<1>2. \A x, m \in Nat : <<x, m>> \notin R => m <= x
  BY DEF OpToRel
<1> HIDE DEF R
<1>3. QED
  BY <1>1, <1>2, Zenon
LEMMA MaxIs ==
  ASSUME NEW S \in SUBSET Nat, NEW m \in S, \A x \in S : x <= m
  PROVE  Max(S) = m
<1>1. \A x \in S : m >= x
  OBVIOUS
<1>2. Max(S) \in S /\ \A x \in S : Max(S) >= x
  BY <1>1, Zenon DEF Max
<1>3. QED
  BY <1>1, <1>2, Antisymmetric, Zenon
LEMMA MaxIn ==
  ASSUME NEW S \in SUBSET Nat, S # {}, NEW n \in Nat, \A x \in S : x <= n
  PROVE  Max(S) \in S
<1> DEFINE B == {m \in Nat : \A x \in S : x <= m}
<1>1. PICK m \in B : \A x \in B : m <= x
  BY LeastNat
<1>2. m \in S
  <2>1. ASSUME m \notin S PROVE m - 1 \in B
    <3>1. PICK x \in S : TRUE
      OBVIOUS
    <3>2. x <= m - 1 /\ x \in Nat /\ m \in Nat
      BY <2>1
    <3>3. \A y \in S : y <= m - 1
      BY <2>1
    <3>4. QED BY <3>2, <3>3
  <2>2. QED
    BY <1>1, <2>1
<1>3. QED
  BY <1>1, <1>2, MaxIs

LEMMA MinIs ==
  ASSUME NEW S \in SUBSET Nat, NEW m \in S, \A x \in S : m <= x
  PROVE  Min(S) = m
<1>1. Min(S) \in S /\ \A x \in S : Min(S) <= x
  BY Zenon DEF Min
<1>2. Min(S) >= m /\ m >= Min(S)
  BY <1>1
<1>3. QED
  BY <1>1, <1>2, Antisymmetric

(* Texts over the bytes of B.                                              *)
Bytes(B)      == {"=", "\n", "__timeout_ms"} \subseteq B
Whole(d, B)   == d \in Seq(B) /\ (d # <<>> => d[Len(d)] = "\n")
IsValue(v, B) == v \in Seq(B) /\ \A i \in 1 .. Len(v) : v[i] # "\n"
IsKey(k, B)   == IsValue(k, B) /\ k # <<>> /\ \A i \in 1 .. Len(k) : k[i] # "="

(* What a text with one line more is: as before, and the line.             *)
Grows(d, line, new, B) ==
  /\ new \in Seq(B)
  /\ Len(new) = Len(d) + Len(line)
  /\ \A i \in 1 .. Len(d) : new[i] = d[i]
  /\ \A i \in 1 .. Len(line) : new[Len(d) + i] = line[i]

LEMMA Grown ==
  ASSUME NEW B, NEW d \in Seq(B), NEW line \in Seq(B)
  PROVE  Grows(d, line, d \o line, B)
BY ConcatProperties DEF Grows

LEMMA LineIs ==
  ASSUME NEW B, Bytes(B), NEW k \in Seq(B), NEW v \in Seq(B), NEW line, line = Line(k, v)
  PROVE  /\ line \in Seq(B) /\ Len(line) = Len(k) + Len(v) + 2
         /\ \A i \in 1 .. Len(k) : line[i] = k[i]
         /\ line[Len(k) + 1] = "="
         /\ \A i \in 1 .. Len(v) : line[Len(k) + 1 + i] = v[i]
         /\ line[Len(line)] = "\n"
<1> DEFINE a == k \o <<"=">>
           b == a \o v
<1>3. line = b \o <<"\n">>
  BY DEF Line
<1> HIDE DEF a, b
<1>0. <<"=">> \in Seq(B) /\ <<"\n">> \in Seq(B) /\ Len(k) \in Nat /\ Len(v) \in Nat
  BY DEF Bytes
<1>1. Grows(k, <<"=">>, a, B)
  BY <1>0, Grown DEF a
<1>2. Grows(a, v, b, B)
  <2>1. a \in Seq(B)
    BY <1>1 DEF Grows
  <2>2. QED
    BY <2>1, Grown DEF b
<1>4. Grows(b, <<"\n">>, line, B)
  <2>1. b \in Seq(B)
    BY <1>2 DEF Grows
  <2>2. Grows(b, <<"\n">>, b \o <<"\n">>, B)
    BY <1>0, <2>1, Grown
  <2>3. QED
    BY <1>3, <2>2
<1>5. /\ Len(a) = Len(k) + 1 /\ Len(b) = Len(k) + 1 + Len(v)
      /\ Len(line) = Len(k) + Len(v) + 2 /\ line \in Seq(B)
  BY <1>0, <1>1, <1>2, <1>4 DEF Grows
<1>6. \A i \in 1 .. Len(k) + 1 : line[i] = a[i]
  BY <1>0, <1>2, <1>4, <1>5 DEF Grows
<1>7. (\A i \in 1 .. Len(k) : a[i] = k[i]) /\ a[Len(k) + 1] = "="
  BY <1>0, <1>1 DEF Grows
<1>8. ASSUME NEW i \in 1 .. Len(v) PROVE line[Len(k) + 1 + i] = v[i]
  <2>1. b[Len(a) + i] = v[i]
    BY <1>2 DEF Grows
  <2>2. Len(a) + i = Len(k) + 1 + i /\ Len(a) + i \in 1 .. Len(b)
    BY <1>0, <1>5
  <2>3. QED
    BY <1>4, <2>1, <2>2 DEF Grows
<1>9. line[Len(line)] = "\n"
  BY <1>0, <1>4, <1>5 DEF Grows
<1>10. QED
  BY <1>0, <1>5, <1>6, <1>7, <1>8, <1>9

(* A line: no "\n" but at its end.                                         *)
Ended(line) == /\ Len(line) \in Nat \ {0}
               /\ \A i \in 1 .. Len(line) : line[i] = "\n" <=> i = Len(line)

LEMMA LineEnded ==
  ASSUME NEW B, Bytes(B), NEW k, IsKey(k, B), NEW v, IsValue(v, B)
  PROVE  Ended(Line(k, v)) /\ Line(k, v) \in Seq(B)
<1> DEFINE line == Line(k, v)
<1>0. k \in Seq(B) /\ v \in Seq(B) /\ Len(k) \in Nat /\ Len(v) \in Nat
  BY DEF IsKey, IsValue
<1> HIDE DEF line
<1>1. /\ line \in Seq(B) /\ Len(line) = Len(k) + Len(v) + 2
      /\ \A i \in 1 .. Len(k) : line[i] = k[i]
      /\ line[Len(k) + 1] = "="
      /\ \A i \in 1 .. Len(v) : line[Len(k) + 1 + i] = v[i]
      /\ line[Len(line)] = "\n"
  BY <1>0, LineIs DEF line
<1>2. ASSUME NEW i \in 1 .. Len(line), i # Len(line) PROVE line[i] # "\n"
  <2>1. CASE i \in 1 .. Len(k)
    BY <1>0, <1>1, <2>1 DEF IsKey, IsValue
  <2>2. CASE i = Len(k) + 1
    BY <1>1, <2>2
  <2>3. CASE i - Len(k) - 1 \in 1 .. Len(v)
    <3>1. line[Len(k) + 1 + (i - Len(k) - 1)] = v[i - Len(k) - 1]
      BY <1>1, <2>3
    <3>2. Len(k) + 1 + (i - Len(k) - 1) = i
      BY <1>0, <1>1
    <3>3. QED
      BY <3>1, <3>2, <2>3 DEF IsValue
  <2>4. i \in 1 .. Len(k) \/ i = Len(k) + 1 \/ i - Len(k) - 1 \in 1 .. Len(v)
    <3>1. i \in 1 .. Len(k) + Len(v) + 2 /\ i # Len(k) + Len(v) + 2
      BY <1>1, <1>2
    <3>2. QED
      BY <1>0, <3>1
  <2>5. QED
    BY <2>1, <2>2, <2>3, <2>4
<1>3. QED
  BY <1>0, <1>1, <1>2 DEF Ended, line

LEMMA EndsAdded ==
  ASSUME NEW B, NEW d, Whole(d, B), NEW line, Ended(line), NEW new, Grows(d, line, new, B)
  PROVE  /\ SplitLines(d) \subseteq 1 .. Len(d)
         /\ SplitLines(new) = SplitLines(d) \cup {Len(new)}
         /\ Whole(new, B)
<1>0. d \in Seq(B) /\ Len(d) \in Nat /\ Len(line) \in Nat \ {0} /\ Len(new) = Len(d) + Len(line)
      /\ (d # <<>> => d[Len(d)] = "\n") /\ (d # <<>> => Len(d) > 0)
  BY DEF Whole, Grows, Ended
<1>1. SplitLines(d) = {e \in 1 .. Len(d) : d[e] = "\n"}
  BY <1>0 DEF SplitLines
<1>2. new[Len(new)] = "\n" /\ new # <<>> /\ new \in Seq(B)
  BY <1>0 DEF Grows, Ended
<1>3. SplitLines(new) = {e \in 1 .. Len(new) : new[e] = "\n"}
  BY <1>0, <1>2 DEF SplitLines
<1>4. ASSUME NEW e \in 1 .. Len(new)
      PROVE  new[e] = "\n" <=> (e \in 1 .. Len(d) /\ d[e] = "\n") \/ e = Len(new)
  <2>1. CASE e \in 1 .. Len(d)
    BY <1>0, <2>1 DEF Grows
  <2>2. CASE e - Len(d) \in 1 .. Len(line)
    <3>1. new[Len(d) + (e - Len(d))] = line[e - Len(d)]
      BY <2>2 DEF Grows
    <3>2. Len(d) + (e - Len(d)) = e
      BY <1>0
    <3>3. QED
      BY <1>0, <3>1, <3>2, <2>2 DEF Ended
  <2>3. QED
    BY <1>0, <2>1, <2>2
<1>5. QED
  BY <1>0, <1>1, <1>2, <1>3, <1>4 DEF Whole

(* What is cut out of a text.                                              *)
LEMMA Slice ==
  ASSUME NEW B, NEW s, NEW a \in Nat, NEW t \in Seq(B),
         \A i \in 1 .. Len(t) : s[a + i] = t[i]
  PROVE  SubSeq(s, a + 1, a + Len(t)) = t
<1> DEFINE n == Len(t)
           w == SubSeq(s, a + 1, a + n)
<1>0. n \in Nat /\ \A i \in 1 .. n : t[i] \in B
  BY ElementOfSeq
<1>1. ASSUME NEW i \in a + 1 .. a + n PROVE s[i] \in B
  <2>1. i - a \in 1 .. n /\ a + (i - a) = i
    BY <1>0
  <2>2. QED
    BY <1>0, <2>1
<1> HIDE DEF n
<1>2. /\ w \in Seq(B) /\ Len(w) = IF a + 1 <= a + n THEN (a + n) - (a + 1) + 1 ELSE 0
      /\ \A i \in 1 .. (a + n) - (a + 1) + 1 : w[i] = s[a + 1 + i - 1]
  BY <1>0, <1>1, SubSeqProperties
<1> HIDE DEF w
<1>3. (a + n) - (a + 1) + 1 = n /\ (a + 1 <= a + n \/ n = 0) /\ \A i \in 1 .. n : a + 1 + i - 1 = a + i
  BY <1>0
<1>4. w \in Seq(B) /\ Len(w) = n /\ \A i \in 1 .. n : w[i] = t[i]
  BY <1>2, <1>3 DEF n
<1>5. w = t
  BY <1>4, SeqEqual DEF n
<1>6. QED
  BY <1>5 DEF w, n

LEMMA Prefix ==
  ASSUME NEW B, NEW s, NEW t \in Seq(B), \A i \in 1 .. Len(t) : s[i] = t[i]
  PROVE  SubSeq(s, 1, Len(t)) = t
<1>1. PICK a \in Nat : a = 0
  OBVIOUS
<1>2. a + 1 = 1 /\ a + Len(t) = Len(t) /\ \A i \in 1 .. Len(t) : a + i = i
  BY <1>1
<1>3. \A i \in 1 .. Len(t) : s[a + i] = t[i]
  BY <1>2
<1>4. SubSeq(s, a + 1, a + Len(t)) = t
  BY <1>3, Slice
<1>5. QED
  BY <1>2, <1>4

(* The lines there were say what they said, and the new one is the line.   *)
LEMMA OldLine ==
  ASSUME NEW B, NEW d \in Seq(B), NEW line \in Seq(B), NEW new, Grows(d, line, new, B),
         NEW e \in 1 .. Len(d)
  PROVE  LineTo(new, e) = LineTo(d, e)
<1> DEFINE s == Start(d, e)
           S(t) == {i \in 1 .. e - 1 : t[i] = "\n"} \cup {0}
<1>1. Len(d) \in Nat /\ \A i \in 1 .. e : new[i] = d[i] /\ d[i] \in B
  BY ElementOfSeq DEF Grows
<1>2. S(new) = S(d)
  BY <1>1
<1>3. Start(new, e) = s
  BY <1>2 DEF Start
<1>4. s \in 1 .. e
  <2>1. /\ S(d) \in SUBSET Nat /\ S(d) # {} /\ e - 1 \in Nat
        /\ \A i \in S(d) : i <= e - 1
    BY <1>1
  <2>2. Max(S(d)) \in S(d)
    <3> HIDE DEF S
    <3>1. QED
      BY <2>1, MaxIn
  <2>3. QED
    BY <2>1, <2>2 DEF Start, S
<1> HIDE DEF s
<1>5. \A i \in s .. e - 1 : i \in 1 .. e
  BY <1>1, <1>4
<1>6. /\ SubSeq(d, s, e - 1) \in Seq(B)
      /\ Len(SubSeq(d, s, e - 1)) = IF s <= e - 1 THEN (e - 1) - s + 1 ELSE 0
      /\ \A i \in 1 .. (e - 1) - s + 1 : SubSeq(d, s, e - 1)[i] = d[s + i - 1]
  BY <1>1, <1>4, <1>5, SubSeqProperties
<1>7. /\ SubSeq(new, s, e - 1) \in Seq(B)
      /\ Len(SubSeq(new, s, e - 1)) = IF s <= e - 1 THEN (e - 1) - s + 1 ELSE 0
      /\ \A i \in 1 .. (e - 1) - s + 1 : SubSeq(new, s, e - 1)[i] = new[s + i - 1]
  BY <1>1, <1>4, <1>5, SubSeqProperties
<1>8. \A i \in 1 .. Len(SubSeq(d, s, e - 1)) : SubSeq(d, s, e - 1)[i] = SubSeq(new, s, e - 1)[i]
  BY <1>1, <1>4, <1>6, <1>7
<1>9. SubSeq(new, s, e - 1) = SubSeq(d, s, e - 1)
  BY <1>6, <1>7, <1>8, SeqEqual
<1>10. QED
  BY <1>3, <1>9 DEF LineTo, s

LEMMA NewLine ==
  ASSUME NEW B, NEW d, Whole(d, B), NEW line \in Seq(B), Ended(line), NEW new, Grows(d, line, new, B)
  PROVE  LineTo(new, Len(new)) = SubSeq(line, 1, Len(line) - 1)
<1> DEFINE S == {i \in 1 .. Len(new) - 1 : new[i] = "\n"} \cup {0}
           n == Len(d)
           m == Len(line)
<1>0. d \in Seq(B) /\ n \in Nat /\ m \in Nat \ {0} /\ Len(new) = n + m
      /\ (n > 0 => d[n] = "\n")
  BY EmptySeq DEF Whole, Grows, Ended
<1>1. \A i \in 1 .. n : new[i] = d[i]
  BY DEF Grows
<1>2. \A i \in 1 .. m : new[n + i] = line[i] /\ line[i] \in B
  BY ElementOfSeq DEF Grows
<1>3. \A i \in S : i <= n
  <2>1. SUFFICES ASSUME NEW i \in 1 .. Len(new) - 1, new[i] = "\n", i > n PROVE FALSE
    BY <1>0
  <2>2. i - n \in 1 .. m /\ n + (i - n) = i /\ i - n # m
    BY <1>0, <2>1
  <2>3. line[i - n] = "\n"
    BY <1>2, <2>1, <2>2
  <2>4. QED
    BY <2>2, <2>3 DEF Ended
<1>4. n \in S
  BY <1>0, <1>1
<1>5. S \subseteq Nat
  BY <1>0
<1>6. Start(new, Len(new)) = n + 1
  <2> HIDE DEF S, n
  <2>1. Max(S) = n
    BY <1>0, <1>3, <1>4, <1>5, MaxIs
  <2>2. QED
    BY <2>1 DEF Start, S
<1> HIDE DEF S, n, m
<1>7. PICK t : t = SubSeq(line, 1, m - 1)
  OBVIOUS
<1>8. t \in Seq(B) /\ Len(t) = m - 1 /\ \A i \in 1 .. m - 1 : t[i] = line[i]
  <2>1. \A i \in 1 .. m - 1 : line[i] \in B
    BY <1>0, <1>2
  <2>2. (m - 1) - 1 + 1 = m - 1 /\ m - 1 \in Int /\ (1 <= m - 1 \/ m - 1 = 0)
    BY <1>0
  <2>3. \A i \in 1 .. m - 1 : 1 + i - 1 = i
    BY <1>0
  <2>4. QED
    BY <1>7, <2>1, <2>2, <2>3, SubSeqProperties
<1>9. \A i \in 1 .. m - 1 : new[n + i] = t[i]
  <2>1. \A i \in 1 .. m - 1 : i \in 1 .. m
    BY <1>0
  <2>2. QED
    BY <1>2, <1>8, <2>1, Zenon
<1>10. SubSeq(new, n + 1, n + (m - 1)) = t
  BY <1>0, <1>8, <1>9, Slice
<1>11. n + (m - 1) = Len(new) - 1
  BY <1>0
<1>12. QED
  BY <1>6, <1>7, <1>10, <1>11 DEF LineTo, m

(* The text of a line is its key and its value.                            *)
LEMMA LineSays ==
  ASSUME NEW B, Bytes(B), NEW k, IsKey(k, B), NEW v, IsValue(v, B), NEW line, line = Line(k, v),
         NEW text, text = SubSeq(line, 1, Len(line) - 1)
  PROVE  /\ IndexOf(text, "=") = Len(k) + 1 /\ Len(k) > 0
         /\ Key(text) = k /\ Value(text) = v
<1> DEFINE n == Len(k)
           m == Len(v)
           P == Positions(text, "=")
<1>0. k \in Seq(B) /\ v \in Seq(B) /\ n \in Nat /\ m \in Nat /\ n > 0
  BY EmptySeq DEF IsKey, IsValue
<1>1. /\ line \in Seq(B) /\ Len(line) = n + m + 2
      /\ \A i \in 1 .. n : line[i] = k[i]
      /\ line[n + 1] = "="
      /\ \A i \in 1 .. m : line[n + 1 + i] = v[i]
  BY <1>0, LineIs
<1>k. \A i \in 1 .. n : k[i] # "="
  BY DEF IsKey
<1> HIDE DEF n, m
<1>2. \A i \in 1 .. n + m + 1 : line[i] \in B
  BY <1>0, <1>1, ElementOfSeq
<1>3. text \in Seq(B) /\ Len(text) = n + m + 1 /\ \A i \in 1 .. n + m + 1 : text[i] = line[i]
  <2>1. Len(line) - 1 = n + m + 1 /\ n + m + 1 \in Int /\ (n + m + 1) - 1 + 1 = n + m + 1
    BY <1>0, <1>1
  <2>2. \A i \in 1 .. n + m + 1 : 1 + i - 1 = i
    BY <1>0
  <2>3. 1 <= n + m + 1
    BY <1>0
  <2>4. QED
    BY <1>2, <2>1, <2>2, <2>3, SubSeqProperties
<1>4. /\ \A i \in 1 .. n : text[i] = k[i]
      /\ text[n + 1] = "="
      /\ \A i \in 1 .. m : text[n + 1 + i] = v[i]
  BY <1>0, <1>1, <1>3
<1>5. P \subseteq 1 .. n + m + 1 /\ n + 1 \in P /\ \A i \in P : n + 1 <= i
  BY <1>0, <1>3, <1>4, <1>k DEF Positions
<1>6. IndexOf(text, "=") = n + 1
  <2> HIDE DEF P
  <2>1. Min(P) = n + 1
    BY <1>0, <1>5, MinIs
  <2>2. QED
    BY <1>5, <2>1 DEF IndexOf, P
<1>7. Key(text) = k
  <2>1. SubSeq(text, 1, n) = k
    BY <1>0, <1>4, Prefix DEF n
  <2>2. IndexOf(text, "=") - 1 = n
    BY <1>0, <1>6
  <2>3. QED
    BY <2>1, <2>2, Zenon DEF Key
<1>8. Value(text) = v
  <2>1. SubSeq(text, n + 1 + 1, n + 1 + m) = v
    <3>1. PICK a \in Nat : a = n + 1
      BY <1>0
    <3>2. \A i \in 1 .. Len(v) : text[a + i] = v[i]
      BY <1>4, <3>1 DEF m
    <3>3. v \in Seq(B)
      BY <1>0
    <3>4. SubSeq(text, a + 1, a + Len(v)) = v
      BY <3>2, <3>3, Slice
    <3>5. QED
      BY <3>1, <3>4 DEF m
  <2>2. n + 1 + m = n + m + 1
    BY <1>0
  <2>3. QED
    BY <1>3, <1>6, <2>1, <2>2 DEF Value
<1>9. QED
  BY <1>0, <1>6, <1>7, <1>8 DEF n

(* A text with one line more holds one entry more, the last one.           *)
More(d, k, v, new, B) ==
  /\ Whole(d, B) /\ IsKey(k, B) /\ IsValue(v, B) /\ new = d \o Line(k, v)

LEMMA EntryAdded ==
  ASSUME NEW B, Bytes(B), NEW d, NEW k, NEW v, NEW new, More(d, k, v, new, B)
  PROVE  /\ Whole(new, B) /\ Len(d) \in Nat /\ Len(new) \in Nat /\ Len(new) > Len(d)
         /\ Entries(d) \subseteq 1 .. Len(d)
         /\ \A e \in Entries(d) : LineTo(new, e) = LineTo(d, e)
         /\ Entries(new) = Entries(d) \cup {Len(new)}
         /\ Key(LineTo(new, Len(new))) = k
         /\ Value(LineTo(new, Len(new))) = v
<1> DEFINE line == Line(k, v)
<1>0. d \in Seq(B) /\ Len(d) \in Nat /\ new = d \o line
      /\ Whole(d, B) /\ IsKey(k, B) /\ IsValue(v, B)
  BY DEF More, Whole
<1>1. Ended(line) /\ line \in Seq(B)
  BY LineEnded DEF More
<1> HIDE DEF line
<1>2. Grows(d, line, new, B)
  BY <1>0, <1>1, Grown
<1>3. /\ SplitLines(d) \subseteq 1 .. Len(d)
      /\ SplitLines(new) = SplitLines(d) \cup {Len(new)}
      /\ Whole(new, B)
  <2>1. Whole(d, B)
    BY <1>0
  <2>2. Ended(line)
    BY <1>1
  <2>3. QED
    BY <2>1, <2>2, <1>2, EndsAdded
<1>4. \A e \in 1 .. Len(d) : LineTo(new, e) = LineTo(d, e)
  BY <1>0, <1>1, <1>2, OldLine
<1>5. LineTo(new, Len(new)) = SubSeq(line, 1, Len(line) - 1)
  BY <1>0, <1>1, <1>2, NewLine
<1>6. /\ IndexOf(LineTo(new, Len(new)), "=") = Len(k) + 1 /\ Len(k) > 0
      /\ Key(LineTo(new, Len(new))) = k /\ Value(LineTo(new, Len(new))) = v
  <2>1. line = Line(k, v)
    BY DEF line
  <2>2. PICK text : text = LineTo(new, Len(new))
    OBVIOUS
  <2>3. text = SubSeq(line, 1, Len(line) - 1)
    BY <1>5, <2>2
  <2>4. IsKey(k, B) /\ IsValue(v, B)
    BY <1>0
  <2>5. IndexOf(text, "=") = Len(k) + 1 /\ Len(k) > 0 /\ Key(text) = k /\ Value(text) = v
    BY <2>1, <2>3, <2>4, LineSays
  <2>6. QED
    BY <2>2, <2>5
<1>7. Len(k) \in Nat /\ IndexOf(LineTo(new, Len(new)), "=") > 1
  <2>1. Len(k) \in Nat
    BY DEF More, IsKey, IsValue
  <2>2. QED
    BY <2>1, <1>6
<1>8. Len(new) \in Nat /\ Len(new) > Len(d)
  BY <1>0, <1>1, <1>2 DEF Grows, Ended
<1>9. Entries(new) = Entries(d) \cup {Len(new)}
  BY <1>3, <1>4, <1>7 DEF Entries
<1>10. QED
  BY <1>0, <1>3, <1>4, <1>6, <1>8, <1>9 DEF Entries

LEMMA OfAdded ==
  ASSUME NEW B, Bytes(B), NEW d, NEW k, NEW v, NEW new, More(d, k, v, new, B), NEW key
  PROVE  /\ Of(d, key) \subseteq 1 .. Len(d)
         /\ key # k => Of(new, key) = Of(d, key)
         /\ key = k => Max(Of(new, key)) = Len(new)
<1>0. /\ Len(d) \in Nat /\ Len(new) \in Nat /\ Len(new) > Len(d)
      /\ Entries(d) \subseteq 1 .. Len(d)
      /\ \A e \in Entries(d) : LineTo(new, e) = LineTo(d, e)
      /\ Entries(new) = Entries(d) \cup {Len(new)}
      /\ Key(LineTo(new, Len(new))) = k
  BY EntryAdded
<1>1. Of(new, key) = Of(d, key) \cup (IF key = k THEN {Len(new)} ELSE {})
  BY <1>0 DEF Of
<1>2. Of(d, key) \subseteq 1 .. Len(d)
  BY <1>0 DEF Of
<1>3. ASSUME key = k PROVE Max(Of(new, key)) = Len(new)
  <2>1. Of(new, key) = Of(d, key) \cup {Len(new)}
    BY <1>1, <1>3
  <2>2. Of(new, key) \in SUBSET Nat /\ Len(new) \in Of(new, key) /\ \A x \in Of(new, key) : x <= Len(new)
    BY <1>0, <1>2, <2>1
  <2>3. QED
    BY <2>2, MaxIs
<1>4. QED
  BY <1>1, <1>2, <1>3

(* What one more entry does to what is read: its key has its value, and    *)
(* nothing else changes.                                                   *)
Adds(d, k, v, new) ==
  /\ DOMAIN Meta(new) = DOMAIN Meta(d) \cup {k}
  /\ Meta(new)[k] = v
  /\ \A key \in DOMAIN Meta(d) : key # k => Meta(new)[key] = Meta(d)[key]
  /\ TimeoutMs(new) = TimeoutMs(d)

LEMMA MetaAdded ==
  ASSUME NEW B, Bytes(B), NEW d, NEW k, NEW v, NEW new, More(d, k, v, new, B), k # TimeoutKey
  PROVE  Adds(d, k, v, new)
<1>0. /\ Len(d) \in Nat
      /\ Entries(d) \subseteq 1 .. Len(d)
      /\ \A e \in Entries(d) : LineTo(new, e) = LineTo(d, e)
      /\ Entries(new) = Entries(d) \cup {Len(new)}
      /\ Key(LineTo(new, Len(new))) = k
      /\ Value(LineTo(new, Len(new))) = v
  BY EntryAdded
<1>1. \A key : /\ Of(d, key) \subseteq 1 .. Len(d)
               /\ key # k => Of(new, key) = Of(d, key)
               /\ key = k => Max(Of(new, key)) = Len(new)
  BY OfAdded
<1>2. DOMAIN Meta(d) = {Key(LineTo(d, e)) : e \in Entries(d)} \ {TimeoutKey}
      /\ DOMAIN Meta(new) = {Key(LineTo(new, e)) : e \in Entries(new)} \ {TimeoutKey}
  BY DEF Meta
<1>3. DOMAIN Meta(new) = DOMAIN Meta(d) \cup {k}
  BY <1>0, <1>2
<1>4. Meta(new)[k] = v
  <2>1. Meta(new)[k] = Value(LineTo(new, Max(Of(new, k))))
    BY <1>2, <1>3 DEF Meta
  <2>2. QED
    BY <2>1, <1>0, <1>1
<1>5. ASSUME NEW key \in DOMAIN Meta(d), key # k PROVE Meta(new)[key] = Meta(d)[key]
  <2>1. Of(d, key) # {}
    BY <1>2 DEF Of
  <2>2. Max(Of(d, key)) \in Of(d, key)
    <3>1. Of(d, key) \in SUBSET Nat /\ \A x \in Of(d, key) : x <= Len(d)
      BY <1>0, <1>1
    <3>2. QED
      BY <1>0, <2>1, <3>1, MaxIn
  <2>3. LineTo(new, Max(Of(d, key))) = LineTo(d, Max(Of(d, key)))
    BY <1>0, <2>2 DEF Of
  <2>4. Of(new, key) = Of(d, key)
    BY <1>1, <1>5
  <2>5. Meta(new)[key] = Value(LineTo(new, Max(Of(new, key))))
    BY <1>2, <1>3 DEF Meta
  <2>6. Meta(d)[key] = Value(LineTo(d, Max(Of(d, key))))
    BY <1>2 DEF Meta
  <2>7. QED
    BY <2>3, <2>4, <2>5, <2>6
<1>6. TimeoutMs(new) = TimeoutMs(d)
  <2>1. Of(new, TimeoutKey) = Of(d, TimeoutKey)
    BY <1>1
  <2>2. \A e \in Of(d, TimeoutKey) : LineTo(new, e) = LineTo(d, e)
    BY <1>0 DEF Of
  <2>3. Limits(new) = Limits(d)
    BY <2>1, <2>2 DEF Limits
  <2>4. ASSUME Limits(d) # {} PROVE LineTo(new, Max(Limits(d))) = LineTo(d, Max(Limits(d)))
    <3>1. Limits(d) \in SUBSET Nat /\ (\A x \in Limits(d) : x <= Len(d)) /\ Limits(d) \subseteq Of(d, TimeoutKey)
      BY <1>0, <1>1 DEF Limits
    <3>2. Max(Limits(d)) \in Limits(d)
      BY <1>0, <2>4, <3>1, MaxIn
    <3>3. QED
      BY <2>2, <3>1, <3>2
  <2>5. QED
    BY <2>3, <2>4 DEF TimeoutMs
<1>7. QED
  BY <1>3, <1>4, <1>5, <1>6 DEF Adds

(* The time limit, in the first line.                                      *)
IsLimit(limit, B) ==
  \/ limit = <<>>
  \/ IsValue(limit, B) /\ limit # <<>> /\ Head(limit) \in DOMAIN Digits

Given(limit) == IF limit = <<>> THEN 0 ELSE Digits[Head(limit)]

Opening(limit) == IF limit = <<>> THEN <<>> ELSE Line(TimeoutKey, limit)

LEMMA NothingSaid ==
  ASSUME NEW B
  PROVE  Whole(<<>>, B) /\ \A key : Of(<<>>, key) = {} /\ Entries(<<>>) = {}
BY DEF Whole, Of, Entries, SplitLines

LEMMA LimitRead ==
  ASSUME NEW B, Bytes(B), NEW limit, IsLimit(limit, B)
  PROVE  LET d == Opening(limit) IN
         Whole(d, B) /\ DOMAIN Meta(d) = {} /\ TimeoutMs(d) = Given(limit)
<1>1. CASE limit = <<>>
  <2>1. Opening(limit) = <<>> /\ Given(limit) = 0
    BY <1>1 DEF Opening, Given
  <2>2. Limits(<<>>) = {}
    BY NothingSaid DEF Limits
  <2>3. QED
    BY <2>1, <2>2, NothingSaid DEF Meta, TimeoutMs
<1>2. CASE limit # <<>>
  <2> DEFINE d == Opening(limit)
  <2>1. d = <<>> \o Line(TimeoutKey, limit) /\ Given(limit) = Digits[Head(limit)]
    BY <1>2 DEF Opening, Given
  <2>2. IsKey(TimeoutKey, B) /\ IsValue(limit, B) /\ Sscanf(limit)
    BY <1>2 DEF IsKey, IsValue, TimeoutKey, Bytes, IsLimit, Sscanf
  <2> HIDE DEF d
  <2>3. More(<<>>, TimeoutKey, limit, d, B)
    BY <2>1, <2>2, NothingSaid DEF More
  <2>4. /\ Whole(d, B)
        /\ Entries(d) = Entries(<<>>) \cup {Len(d)}
        /\ Key(LineTo(d, Len(d))) = TimeoutKey
        /\ Value(LineTo(d, Len(d))) = limit
        /\ Len(d) \in Nat
    BY <2>3, EntryAdded
  <2>5. Entries(d) = {Len(d)}
    BY <2>4, NothingSaid
  <2>6. Of(d, TimeoutKey) = {Len(d)}
    BY <2>4, <2>5 DEF Of
  <2>7. Limits(d) = {Len(d)}
    BY <2>2, <2>4, <2>6 DEF Limits
  <2>8. Max(Limits(d)) = Len(d)
    BY <2>4, <2>7, MaxIs
  <2>9. TimeoutMs(d) = Given(limit)
    BY <2>1, <2>4, <2>7, <2>8 DEF TimeoutMs
  <2>10. DOMAIN Meta(d) = {}
    BY <2>4, <2>5 DEF Meta
  <2>11. QED
    BY <2>4, <2>9, <2>10 DEF d
<1>3. QED
  BY <1>1, <1>2

(* Encode writes one line after the other.                                 *)
Writes(text, n, first, entries) ==
  text = [i \in 0 .. n |-> IF i # 0 THEN text[i - 1] \o Line(entries[i][1], entries[i][2]) ELSE first]

LEMMA WritesExists ==
  ASSUME NEW first, NEW entries, NEW n \in Nat
  PROVE  \E text : Writes(text, n, first, entries)
<1> DEFINE T == {m \in Nat : ~\E text : Writes(text, m, first, entries)}
<1>1. SUFFICES ASSUME T # {} PROVE FALSE
  OBVIOUS
<1>2. PICK m \in T : \A x \in T : m <= x
  BY <1>1, LeastNat
<1>3. CASE m = 0
  <2>1. Writes([i \in 0 .. 0 |-> first], 0, first, entries)
    BY DEF Writes
  <2>2. QED
    BY <1>3, <2>1
<1>4. CASE m # 0
  <2>1. m - 1 \in Nat /\ m - 1 \notin T
    BY <1>2, <1>4
  <2>2. PICK f : Writes(f, m - 1, first, entries)
    BY <2>1
  <2> DEFINE L(i) == Line(entries[i][1], entries[i][2])
             g == [i \in 0 .. m |-> IF i = m THEN f[m - 1] \o L(m) ELSE f[i]]
  <2> HIDE DEF L
  <2>3. \A i \in 0 .. m - 1 : f[i] = IF i # 0 THEN f[i - 1] \o L(i) ELSE first
    BY <2>2 DEF Writes, L
  <2>4. \A i \in 0 .. m : g[i] = IF i # 0 THEN g[i - 1] \o L(i) ELSE first
    <3>1. SUFFICES ASSUME NEW i \in 0 .. m PROVE g[i] = IF i # 0 THEN g[i - 1] \o L(i) ELSE first
      OBVIOUS
    <3>2. CASE i = m
      <4>1. i - 1 \in 0 .. m /\ i - 1 # m /\ i # 0 /\ i - 1 = m - 1
        BY <1>4, <2>1, <3>2
      <4>2. g[i] = f[m - 1] \o L(m) /\ g[i - 1] = f[m - 1]
        BY <3>2, <4>1
      <4>3. QED
        BY <3>2, <4>1, <4>2
    <3>3. CASE i # m
      <4>1. i \in 0 .. m - 1 /\ (i # 0 => i - 1 \in 0 .. m /\ i - 1 # m)
        BY <2>1, <3>3
      <4>2. QED
        BY <2>3, <3>3, <4>1
    <3>4. QED
      BY <3>2, <3>3
  <2>5. g = [i \in 0 .. m |-> IF i # 0 THEN g[i - 1] \o L(i) ELSE first]
    <3>1. DOMAIN g = 0 .. m /\ g = [i \in 0 .. m |-> g[i]]
      OBVIOUS
    <3> HIDE DEF g
    <3>2. QED
      BY <2>4, <3>1
  <2>6. Writes(g, m, first, entries)
    <3> HIDE DEF g
    <3> QED BY <2>5 DEF Writes, L
  <2>7. QED
    BY <2>6
<1>5. QED
  BY <1>3, <1>4

Encoding(text, limit, entries) ==
  /\ Encode(limit, entries) = text[Len(entries)]
  /\ text[0] = Opening(limit)
  /\ \A i \in 1 .. Len(entries) :
       text[i] = text[i - 1] \o Line(entries[i][1], entries[i][2])

LEMMA EncodeIs ==
  ASSUME NEW limit, NEW entries, Len(entries) \in Nat
  PROVE  \E text : Encoding(text, limit, entries)
<1> DEFINE n == Len(entries)
           text == CHOOSE text : Writes(text, n, Opening(limit), entries)
<1>1. Encode(limit, entries) = text[n]
  BY DEF Encode, Writes, Opening
<1>2. Writes(text, n, Opening(limit), entries)
  BY WritesExists
<1> HIDE DEF text
<1>3. \A i \in 0 .. n :
        text[i] = IF i # 0 THEN text[i - 1] \o Line(entries[i][1], entries[i][2]) ELSE Opening(limit)
  BY <1>2 DEF Writes
<1>4. 0 \in 0 .. n /\ \A i \in 1 .. n : i \in 0 .. n /\ i # 0
  OBVIOUS
<1>5. text[0] = Opening(limit)
  BY <1>3, <1>4
<1>6. \A i \in 1 .. n : text[i] = text[i - 1] \o Line(entries[i][1], entries[i][2])
  BY <1>3, <1>4
<1>7. QED
  BY <1>1, <1>5, <1>6 DEF Encoding

(* What has been read of a text that holds the entries for K.              *)
Known(d, K, map, limit, B) ==
  /\ Whole(d, B) /\ DOMAIN Meta(d) = K /\ TimeoutMs(d) = Given(limit)
  /\ \A key \in K : Meta(d)[key] = map[key]

LEMMA KnownNext ==
  ASSUME NEW B, Bytes(B), NEW map, NEW limit, NEW K, NEW d, Known(d, K, map, limit, B),
         NEW k, k # TimeoutKey, NEW v, v = map[k], NEW new, More(d, k, v, new, B)
  PROVE  Known(new, K \cup {k}, map, limit, B)
<1>1. Adds(d, k, v, new)
  BY MetaAdded
<1>2. Whole(new, B)
  BY EntryAdded
<1>3. QED
  BY <1>1, <1>2 DEF Known, Adds

(* The maps whose entries are lines of their own, and the text of the      *)
(* first n of them.                                                        *)
IsMap(map, B) ==
  \A key \in DOMAIN map : IsKey(key, B) /\ IsValue(map[key], B) /\ key # TimeoutKey
Written(text, n, keys, map, limit) ==
  /\ text[0] = Opening(limit)
  /\ \A i \in 1 .. n : text[i] = text[i - 1] \o Line(keys[i], map[keys[i]])

LEMMA AllKnown ==
  ASSUME NEW B, Bytes(B), NEW limit, IsLimit(limit, B), NEW map, IsMap(map, B), NEW n \in Nat,
         NEW keys \in [1 .. n -> DOMAIN map], NEW text, Written(text, n, keys, map, limit),
         NEW K, K = {keys[j] : j \in 1 .. n}
  PROVE  Known(text[n], K, map, limit, B)
<1> DEFINE Read(i) == {keys[j] : j \in 1 .. i}
           Good(i) == Known(text[i], Read(i), map, limit, B)
           T == {i \in 0 .. n : ~Good(i)}
<1>1. Good(0)
  <2>1. Read(0) = {}
    OBVIOUS
  <2> HIDE DEF Read
  <2>2. text[0] = Opening(limit)
    BY DEF Written
  <2>3. /\ Whole(Opening(limit), B) /\ DOMAIN Meta(Opening(limit)) = {}
        /\ TimeoutMs(Opening(limit)) = Given(limit)
    BY LimitRead
  <2>4. QED
    BY <2>1, <2>2, <2>3 DEF Known
<1>2. ASSUME NEW i \in 1 .. n, Good(i - 1) PROVE Good(i)
  <2>1. keys[i] \in DOMAIN map
    OBVIOUS
  <2>2. IsKey(keys[i], B) /\ IsValue(map[keys[i]], B) /\ keys[i] # TimeoutKey
    BY <2>1 DEF IsMap
  <2>3. text[i] = text[i - 1] \o Line(keys[i], map[keys[i]])
    BY DEF Written
  <2>4. More(text[i - 1], keys[i], map[keys[i]], text[i], B)
    BY <1>2, <2>2, <2>3 DEF More, Known
  <2>5. Read(i) = Read(i - 1) \cup {keys[i]}
    <3>1. 1 .. i = (1 .. i - 1) \cup {i}
      OBVIOUS
    <3>2. QED
      BY <3>1
  <2> HIDE DEF Read
  <2>6. Known(text[i], Read(i - 1) \cup {keys[i]}, map, limit, B)
    BY <1>2, <2>2, <2>4, KnownNext
  <2>7. QED
    BY <2>5, <2>6
<1> HIDE DEF Good
<1>3. T = {}
  <2>1. SUFFICES ASSUME T # {} PROVE FALSE
    OBVIOUS
  <2>2. T \in SUBSET Nat
    OBVIOUS
  <2>3. PICK i \in T : \A x \in T : i <= x
    <3> HIDE DEF T
    <3>1. QED
      BY <2>1, <2>2, LeastNat
  <2>4. i # 0 /\ i \in 0 .. n
    BY <1>1
  <2>5. i \in 1 .. n /\ i - 1 \in 0 .. n /\ i - 1 \notin T
    BY <2>3, <2>4
  <2>6. QED
    BY <1>2, <2>5
<1>4. Good(n)
  <2>1. n \in 0 .. n
    OBVIOUS
  <2>2. QED
    BY <1>3, <2>1
<1>5. QED
  BY <1>4 DEF Good

(* Whatever a caller in Dart puts into the metadata reaches Go as it was   *)
(* put, in any order of the entries, and so does the time limit, 0 for     *)
(* none (lib/synurang.dart:309-325, cmd/server/main.go:307-353): if no key *)
(* is empty, holds "=" or "\n" or is the reserved one, and no value holds  *)
(* "\n".  For all maps, of any size, where RoundTrip looks at a few.       *)
THEOREM MetadataReadBack ==
  ASSUME NEW B, Bytes(B), NEW limit, IsLimit(limit, B),
         NEW map, map = [key \in DOMAIN map |-> map[key]], IsFiniteSet(DOMAIN map), IsMap(map, B)
  PROVE  ReadBack(limit, map)
<1> DEFINE n == Cardinality(DOMAIN map)
           said == IF limit = <<>> THEN 0 ELSE Digits[limit[1]]
<1>0. n \in Nat
  BY FS_CardinalityType
<1>1. ASSUME NEW keys \in [1 .. n -> DOMAIN map],
             \A key \in DOMAIN map : \E k \in 1 .. n : keys[k] = key,
             NEW entries, entries = [k \in 1 .. n |-> <<keys[k], map[keys[k]]>>],
             NEW data, data = Encode(limit, entries)
      PROVE  Meta(data) = map /\ TimeoutMs(data) = said
  <2> HIDE DEF n
  <2>1. Len(entries) = n /\ Len(entries) \in Nat
    BY <1>0, <1>1
  <2>2. \A k \in 1 .. n : entries[k][1] = keys[k] /\ entries[k][2] = map[keys[k]]
    BY <1>1
  <2>3. PICK text : Encoding(text, limit, entries)
    BY <2>1, EncodeIs
  <2>4. data = text[n] /\ Written(text, n, keys, map, limit)
    BY <1>1, <2>1, <2>2, <2>3 DEF Written, Encoding
  <2>5. DOMAIN map = {keys[j] : j \in 1 .. n}
    BY <1>1
  <2>6. Known(text[n], DOMAIN map, map, limit, B)
    BY <1>0, <2>4, <2>5, AllKnown
  <2>7. /\ DOMAIN Meta(data) = DOMAIN map /\ TimeoutMs(data) = Given(limit)
        /\ \A key \in DOMAIN map : Meta(data)[key] = map[key]
    BY <2>4, <2>6 DEF Known
  <2>8. Meta(data) = [key \in DOMAIN Meta(data) |-> Meta(data)[key]]
    BY DEF Meta
  <2>9. Meta(data) = map
    BY <2>7, <2>8
  <2>10. Given(limit) = said
    BY DEF Given
  <2>11. QED
    BY <2>7, <2>9, <2>10
<1>2. ASSUME NEW keys \in Orders(map)
      PROVE  LET parsed == ParseMetadata(Encode(limit,
                   [k \in DOMAIN keys |-> <<keys[k], map[keys[k]]>>]))
             IN parsed.meta = map /\ parsed.limit = said
  <2> DEFINE entries == [k \in DOMAIN keys |-> <<keys[k], map[keys[k]]>>]
             data == Encode(limit, entries)
  <2>1. /\ keys \in [1 .. n -> DOMAIN map] /\ DOMAIN keys = 1 .. n
        /\ \A key \in DOMAIN map : \E k \in 1 .. n : keys[k] = key
    BY DEF Orders
  <2>2. entries = [k \in 1 .. n |-> <<keys[k], map[keys[k]]>>]
    BY <2>1
  <2> HIDE DEF n, entries, said
  <2>3. Meta(data) = map /\ TimeoutMs(data) = said
    BY <1>1, <2>1, <2>2
  <2> HIDE DEF data
  <2>4. ParseMetadata(data).meta = map /\ ParseMetadata(data).limit = said
    BY <2>3 DEF ParseMetadata
  <2>5. QED
    BY <2>4 DEF data, entries
<1>3. QED
  BY <1>2 DEF ReadBack

(* The maps RoundTrip looks at are such maps.                              *)
SomeBytes == {"=", "\n", "__timeout_ms", "a", "b", "0", "5"}

LEMMA SomeValuesAre == ASSUME NEW v \in SomeValues PROVE IsValue(v, SomeBytes)
<1>1. PICK n \in 0 .. 2 : v \in [1 .. n -> {"a", "=", "5"}]
  BY DEF SomeValues
<1>2. v \in Seq({"a", "=", "5"}) /\ Len(v) = n
  BY <1>1
<1>3. {"a", "=", "5"} \subseteq SomeBytes
  BY DEF SomeBytes
<1>4. v \in Seq(SomeBytes)
  BY <1>2, <1>3, SeqMonotonic
<1>5. QED
  BY <1>1, <1>2, <1>4 DEF IsValue

LEMMA SomeKeysAre ==
  ASSUME NEW k \in SomeKeys
  PROVE  IsKey(k, SomeBytes) /\ k # TimeoutKey
<1>1. CASE k = <<"a">>
  BY <1>1 DEF IsKey, IsValue, SomeBytes, TimeoutKey
<1>2. CASE k = <<"b", "a">>
  BY <1>2 DEF IsKey, IsValue, SomeBytes, TimeoutKey
<1>3. QED
  BY <1>1, <1>2 DEF SomeKeys

(* The host library reads the metadata of every call it is checked for as  *)
(* Dart wrote it, in every state, of any number of threads and starts.     *)
THEOREM MetadataSurvives == HostSpec => []RoundTrip
<1>1. ASSUME NEW limit \in SomeLimits, NEW map \in SomeMaps PROVE ReadBack(limit, map)
  <2>1. PICK K \in SUBSET SomeKeys : map \in [K -> SomeValues]
    BY DEF SomeMaps
  <2>2. IsMap(map, SomeBytes)
    BY <2>1, SomeKeysAre, SomeValuesAre DEF IsMap
  <2>3. IsFiniteSet(DOMAIN map)
    <3>1. IsFiniteSet(SomeKeys)
      <4>1. IsFiniteSet({<<"a">>} \cup {<<"b", "a">>})
        BY FS_Singleton, FS_AddElement
      <4>2. SomeKeys = {<<"a">>} \cup {<<"b", "a">>}
        BY DEF SomeKeys
      <4>3. QED
        BY <4>1, <4>2
    <3>2. QED
      BY <2>1, <3>1, FS_Subset
  <2>4. IsLimit(limit, SomeBytes)
    <3>1. CASE limit = <<"0">>
      BY <3>1 DEF IsLimit, IsValue, SomeBytes, Digits
    <3>2. CASE limit = <<"5">>
      BY <3>2 DEF IsLimit, IsValue, SomeBytes, Digits
    <3>3. QED
      BY <3>1, <3>2 DEF SomeLimits, IsLimit
  <2>5. Bytes(SomeBytes)
    BY DEF Bytes, SomeBytes
  <2>6. map = [key \in DOMAIN map |-> map[key]]
    BY <2>1
  <2>7. QED
    BY <2>2, <2>3, <2>4, <2>5, <2>6, MetadataReadBack
<1>2. RoundTrip
  BY <1>1 DEF RoundTrip
<1>3. QED
  BY <1>2, PTL
=============================================================================
