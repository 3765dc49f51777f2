-------------------------- MODULE DartBridgeProofs --------------------------
(***************************************************************************)
(* Proofs about DartBridge, for every number of requests, capacity and     *)
(* bound: the call uses its session as StreamSession allows, so what is    *)
(* proved of the session holds of the call; a call that has returned has   *)
(* removed the session; and the handler gets every request that has any    *)
(* bytes before the end.                                                   *)
(*                                                                         *)
(* Of FileCalls the same, also when a second goroutine sends, that a       *)
(* download which ends well has everything that was accepted, and that no  *)
(* wake-up is lost.                                                        *)
(***************************************************************************)
EXTENDS FileCalls, StreamSessionProofs

USE BridgeAssumption

(* What a step of the call may do to the session.                          *)
GoUses ==
  \/ \E l \in {"data", "half"} : SendFromStream(Go, l) \/ Callback(Go, l, "idle")

OthersUse ==
  \/ UNCHANGED vars
  \/ \E r \in Routines : \/ Start(r, "recv") \/ Start(r, "recvsel")
                         \/ Recv(r) \/ RecvEnd(r) \/ GiveUp(r)
  \/ \E t \in {Go, Dart} : CloseUnmap(t) \/ CloseDone(t) \/ CloseData(t)
  \/ SendLookup(Dart) \/ SendCheck(Dart) \/ SendSelect(Dart)

(* What the goroutine that sends in CallDartBidiFile does besides.         *)
ReaderUses ==
  \E l \in {"data", "half"} : SendFromStream(Reader, l) \/ Callback(Reader, l, "idle")

LEMMA Uses == [BridgeNext]_allVars => GoUses \/ OthersUse
<1> SUFFICES ASSUME [BridgeNext]_allVars PROVE GoUses \/ OthersUse
  OBVIOUS
<1> USE DEF GoUses, OthersUse
<1>1. CASE UNCHANGED allVars
  BY <1>1 DEF allVars
<1>2. ASSUME NEW t \in {Go, Dart}, Proceed(t) PROVE GoUses \/ OthersUse
  BY <1>2 DEF Proceed
<1>3. CASE CallReturns \/ CallFails \/ SendFails \/ ReaderEnded \/ Return
  BY <1>3 DEF CallReturns, CallFails, SendFails, ReaderEnded, Return
<1>4. CASE SendRequest \/ CloseSend
  BY <1>4 DEF SendRequest, CloseSend
<1>5. CASE Await \/ Collect \/ InputEnds \/ Timeout
  BY <1>5 DEF Await, Collect, InputEnds, Timeout
<1>6. CASE Close \/ CloseHandler
  BY <1>6 DEF Close, CloseCall, CloseHandler
<1>7. CASE ReaderStep
  BY <1>7 DEF ReaderStep, ReaderWaits, ReaderCollects, ReaderEnds
<1>8. CASE RunHandler \/ HandleCallback \/ Respond
  BY <1>8 DEF RunHandler, HandleCallback, Respond
<1>9. QED
  BY <1>1, <1>2, <1>3, <1>4, <1>5, <1>6, <1>7, <1>8 DEF BridgeNext, GoStep, DartStep

LEMMA UsesNext == GoUses \/ OthersUse => [Next]_vars
<1>1. /\ Go \in Threads /\ Dart \in Threads /\ Routines \subseteq Threads
      /\ Go \in Routines /\ Dart \in Callers
  BY DEF Threads
<1>2. ASSUME GoUses PROVE [Next]_vars
  BY <1>1, <1>2 DEF GoUses, Next, Begin, Continue
<1>3. ASSUME NEW r \in Routines,
             \/ Start(r, "recv") \/ Start(r, "recvsel") \/ Recv(r) \/ RecvEnd(r) \/ GiveUp(r)
      PROVE  [Next]_vars
  BY <1>1, <1>3 DEF Next, Begin, Continue
<1>4. ASSUME NEW t \in {Go, Dart}, CloseUnmap(t) \/ CloseDone(t) \/ CloseData(t)
      PROVE  [Next]_vars
  BY <1>1, <1>4 DEF Next, Begin, Continue
<1>5. ASSUME SendLookup(Dart) \/ SendCheck(Dart) \/ SendSelect(Dart) PROVE [Next]_vars
  BY <1>1, <1>5 DEF Next, Begin, Continue
<1>6. QED
  BY <1>2, <1>3, <1>4, <1>5 DEF OthersUse

(* The call is a user of its session: every step of it is a step of the    *)
(* session or leaves the session alone.                                    *)
SessionSafe == Init /\ [][Next]_vars

THEOREM CallUsesSession == BridgeSpec => SessionSafe
<1>1. BridgeInit => Init
  BY DEF BridgeInit
<1>2. [BridgeNext]_allVars => [Next]_vars
  BY Uses, UsesNext
<1>3. QED
  BY <1>1, <1>2, PTL DEF BridgeSpec, SessionSafe

LEMMA SessionInv == BridgeSpec => []IInv
  BY CallUsesSession, IInvInit, IInvNext, PTL DEF SessionSafe

(* So neither side of a call ever closes a channel that is closed.         *)
THEOREM CallClosesOnce == BridgeSpec => []NoDoubleClose
<1>1. IInv => NoDoubleClose
  BY DEF IInv
<1>2. QED
  BY <1>1, SessionInv, PTL

---------------------------------------------------------------------------
(* Where the session is closed, and who may have seen it closed.           *)
ClosingPC == {"cls2", "cls3", "exited"}

SessionGone ==
  /\ closed \/ inputClosed => ~inMap
  /\ \A t \in Threads : pc[t] \in ClosingPC => ~inMap
  /\ stage = "returned" => ~inMap

ClosedInv == SessionGone /\ (reader = "done" => ~inMap)

(* A step that closes nothing of a session that stays in the map.          *)
Kept ==
  /\ inMap' => inMap /\ closed' = closed /\ inputClosed' = inputClosed
  /\ \A t \in Threads : pc'[t] \in ClosingPC => pc'[t] = pc[t] \/ ~inMap'

LEMMA SetPC ==
  ASSUME TypeOK, NEW t \in Threads, NEW l, Goto(t, l)
  PROVE  \A u \in Threads : pc'[u] = IF u = t THEN l ELSE pc[u]
  BY DEF TypeOK, Goto

LEMMA UsesKeep ==
  ASSUME TypeOK, SessionGone, GoUses \/ OthersUse \/ ReaderUses
  PROVE  Kept
<1> USE DEF Kept, ClosingPC, flags
<1>1. Go \in Threads /\ Dart \in Threads /\ Routines \subseteq Threads
  BY DEF Threads
<1>2. ASSUME NEW r \in Routines, NEW l \in {"data", "half"}, SendFromStream(r, l) PROVE Kept
  BY <1>1, <1>2, SetPC DEF SendFromStream
<1>3. ASSUME NEW r \in Routines, NEW l \in {"data", "half"}, Callback(r, l, "idle") PROVE Kept
  BY <1>1, <1>3, SetPC DEF Callback
<1>4. CASE UNCHANGED vars
  BY <1>4 DEF vars
<1>5. ASSUME NEW r \in Routines, Start(r, "recv") \/ Start(r, "recvsel") PROVE Kept
  BY <1>1, <1>5, SetPC DEF Start
<1>6. ASSUME NEW r \in Routines, RecvEnd(r) \/ GiveUp(r) PROVE Kept
  BY <1>1, <1>6, SetPC DEF RecvEnd, GiveUp
<1>7. ASSUME NEW r \in Routines, Recv(r) PROVE Kept
  <2>1. \A u \in Threads : pc'[u] = pc[u] \/ pc'[u] = "idle"
    BY <1>1, <1>7 DEF Recv, TypeOK, Goto
  <2>2. QED
    BY <1>7, <2>1 DEF Recv
<1>8. ASSUME NEW t \in {Go, Dart}, CloseUnmap(t) PROVE Kept
  BY <1>1, <1>8, SetPC DEF CloseUnmap
<1>9. ASSUME NEW t \in {Go, Dart}, CloseDone(t) PROVE Kept
  <2>1. ~inMap /\ ~inMap'
    BY <1>1, <1>9 DEF CloseDone, At, SessionGone
  <2>2. QED
    BY <2>1
<1>10. ASSUME NEW t \in {Go, Dart}, CloseData(t) PROVE Kept
  <2>1. ~inMap /\ ~inMap'
    BY <1>1, <1>10 DEF CloseData, At, SessionGone
  <2>2. QED
    BY <2>1
<1>11. CASE SendLookup(Dart)
  BY <1>1, <1>11, SetPC DEF SendLookup
<1>12. CASE SendCheck(Dart)
  BY <1>1, <1>12, SetPC DEF SendCheck
<1>13. CASE SendSelect(Dart)
  <2>1. \A u \in Threads : pc'[u] = pc[u] \/ pc'[u] \in {"idle", "parked"}
    BY <1>1, <1>13, SetPC DEF SendSelect
  <2>2. QED
    BY <1>13, <2>1 DEF SendSelect
<1>14. QED
  BY <1>2, <1>3, <1>4, <1>5, <1>6, <1>7, <1>8, <1>9, <1>10, <1>11, <1>12, <1>13
  DEF GoUses, OthersUse, ReaderUses

LEMMA KeptGone ==
  ASSUME SessionGone, Kept, stage' = "returned" => stage = "returned" \/ ~inMap'
  PROVE  SessionGone'
  BY DEF SessionGone, Kept

LEMMA KeptClosed ==
  ASSUME ClosedInv, Kept,
         reader' = "done" => reader = "done" \/ ~inMap',
         stage' = "returned" => stage = "returned" \/ ~inMap'
  PROVE  ClosedInv'
  BY KeptGone DEF ClosedInv, Kept

LEMMA ClosedInvInit == BridgeInit => ClosedInv
  BY DEF BridgeInit, Init, ClosedInv, SessionGone, ClosingPC

(* A receive sees the end of the input only of a session that is removed.  *)
LEMMA EndSeen ==
  ASSUME IInv, SessionGone, NEW r \in Routines, RecvEnd(r)
  PROVE  ~inMap'
  BY DEF IInv, FlagsAgree, SessionGone, RecvEnd

LEMMA ClosedInvNext == IInv /\ ClosedInv /\ [BridgeNext]_allVars => ClosedInv'
<1> SUFFICES ASSUME IInv, ClosedInv, [BridgeNext]_allVars PROVE ClosedInv'
  OBVIOUS
<1>1. Kept /\ (inMap' => inMap)
  BY Uses, UsesKeep DEF IInv, Kept, ClosedInv
<1>2. Go \in Routines /\ Reader \in Routines /\ Go \in Threads
  BY DEF Threads
<1>3. CASE UNCHANGED allVars
  BY <1>1, <1>3, KeptClosed DEF allVars, call
<1>4. CASE ReaderEnds
  BY <1>1, <1>2, <1>4, KeptClosed, EndSeen DEF ReaderEnds, ClosedInv
<1>5. CASE InputEnds
  BY <1>1, <1>2, <1>5, KeptClosed, EndSeen DEF InputEnds, ClosedInv
<1>6. CASE ReaderEnded
  <2>1. ~inMap'
    BY <1>1, <1>6 DEF ReaderEnded, ClosedInv
  <2>2. QED
    BY <1>1, <2>1, KeptClosed
<1>7. CASE Return
  <2>1. ~inMap'
    BY <1>1, <1>2, <1>7 DEF Return, ClosedInv, SessionGone, At, ClosingPC
  <2>2. QED
    BY <1>1, <2>1, KeptClosed
<1>8. CASE CallReturns \/ CallFails \/ SendRequest \/ SendFails \/ CloseSend
  BY <1>1, <1>8, KeptClosed DEF CallReturns, CallFails, SendRequest, SendFails, CloseSend
<1>9. CASE Await \/ Collect \/ Timeout \/ Close \/ ReaderWaits \/ ReaderCollects
  BY <1>1, <1>9, KeptClosed
  DEF Await, Collect, Timeout, TimeoutStage, Close, ReaderWaits, ReaderCollects, call
<1>10. CASE DartStep \/ Proceed(Go)
  BY <1>1, <1>10, KeptClosed
  DEF DartStep, RunHandler, HandleCallback, Respond, CloseHandler, Proceed, call
<1>11. QED
  BY <1>3, <1>4, <1>5, <1>6, <1>7, <1>8, <1>9, <1>10 DEF BridgeNext, GoStep, ReaderStep

(* However a call ends, it has removed its session when it returns         *)
(* (server.go:280-321, 333, 445).                                          *)
THEOREM ReturnedIsRemoved == BridgeSpec => []SessionRemoved
<1>1. ClosedInv => SessionRemoved
  BY DEF ClosedInv, SessionGone, SessionRemoved
<1>2. QED
  BY <1>1, SessionInv, ClosedInvInit, ClosedInvNext, PTL DEF BridgeSpec

---------------------------------------------------------------------------
(* The callbacks of a call are its requests and then at most one end; the  *)
(* isolate takes them in order.                                            *)
Sending == {"data", "half"}
Early   == {"calling", "send"}
Posted  == IF pc[Go] = "data" THEN sent - 1 ELSE sent

OutOrder ==
  /\ \A i \in 1..Len(out) : out[i] = IF i <= Requests THEN "data" ELSE "half"
  /\ \/ Len(out) = Posted
     \/ Len(out) = Requests + 1 /\ sent = Requests /\ stage \notin Early

GoPlace ==
  /\ sent \in 0..Requests
  /\ pc[Go] = "data" => sent > 0 /\ stage = "send"
  /\ pc[Go] = "half" => sent = Requests /\ stage = "await" /\ Len(out) = Requests
  /\ outcome = "send error" => closed

(* While there is a controller, it has what the callbacks so far held.      *)
DartPlace ==
  /\ handled \in 0..Len(out)
  /\ handler = "posted" => handled = 0 /\ seen = {} /\ ~active /\ ~inputDone
  /\ active => handled <= Requests /\ ~inputDone /\ seen = (1..handled) \ empty
  /\ inputDone => seen = (1..Requests) \ empty

RequestInv == OutOrder /\ GoPlace /\ DartPlace

LEMMA RequestInvInit == BridgeInit => RequestInv
<1> SUFFICES ASSUME BridgeInit PROVE RequestInv
  OBVIOUS
<1>1. Go \in Threads /\ pc[Go] = "idle" /\ Len(out) = 0 /\ sent = 0
  BY DEF BridgeInit, Init, Threads
<1>2. OutOrder
  BY <1>1 DEF OutOrder, Posted
<1>3. GoPlace
  BY <1>1 DEF GoPlace, BridgeInit
<1>4. DartPlace
  BY <1>1 DEF DartPlace, BridgeInit
<1>5. QED
  BY <1>2, <1>3, <1>4 DEF RequestInv

(* A step in which the isolate takes no callback.                          *)
TakesNone == UNCHANGED <<empty, dart>> \/ RunHandler \/ Respond \/ CloseHandler

LEMMA KeptDart ==
  ASSUME DartPlace, TakesNone, out' = out
  PROVE  DartPlace'
<1>1. CASE UNCHANGED <<empty, dart>>
  BY <1>1 DEF DartPlace, dart
<1>2. CASE RunHandler
  <2>1. /\ handled = 0 /\ seen = {} /\ ~inputDone /\ handler' # "posted"
        /\ UNCHANGED <<handled, seen, inputDone, empty>>
    BY <1>2 DEF RunHandler, DartPlace, call
  <2>2. (1..0) \ empty = {} /\ 0 <= Requests
    BY DEF BridgeAssumption
  <2>3. QED
    BY <2>1, <2>2 DEF DartPlace
<1>3. CASE Respond \/ CloseHandler
  BY <1>3 DEF Respond, CloseHandler, DartPlace, call
<1>4. QED
  BY <1>1, <1>2, <1>3 DEF TakesNone

(* A step that posts nothing and keeps a goroutine out of, or in, the      *)
(* middle of a callback.                                                   *)
RoutineKept(q) ==
  /\ out' = out /\ (closed => closed')
  /\ pc'[q] = pc[q] \/ (pc[q] \notin Sending /\ pc'[q] \notin Sending)

LEMMA OthersKeep ==
  ASSUME TypeOK, OthersUse, NEW q \in Routines
  PROVE  RoutineKept(q)
<1> USE DEF RoutineKept, Sending, flags
<1>0. Go \in Routines /\ Dart \in Callers
  OBVIOUS
<1>a. q \notin Callers
  BY SessionAssumption, Zenon
<1>1. Go \in Threads /\ Dart \in Threads /\ Routines \subseteq Threads /\ q # Dart
  BY <1>0, <1>a DEF Threads
<1>2. CASE UNCHANGED vars
  BY <1>2 DEF vars
<1>3. ASSUME NEW r \in Routines, Start(r, "recv") \/ Start(r, "recvsel") PROVE RoutineKept(q)
  BY <1>1, <1>3, SetPC DEF Start, At
<1>4. ASSUME NEW r \in Routines, RecvEnd(r) \/ GiveUp(r) PROVE RoutineKept(q)
  BY <1>1, <1>4, SetPC DEF RecvEnd, GiveUp, At
<1>5. ASSUME NEW r \in Routines, Recv(r) PROVE RoutineKept(q)
  <2>1. sendq # <<>> => Head(sendq) # q
    BY <1>1, TailFacts DEF TypeOK
  <2>2. pc'[q] = pc[q] \/ (pc[q] \in {"recv", "recvsel"} /\ pc'[q] = "idle")
    BY <1>1, <1>5, <2>1 DEF Recv, TypeOK, Goto, At
  <2>3. QED
    BY <1>5, <2>2 DEF Recv
<1>6. ASSUME NEW t \in {Go, Dart}, CloseUnmap(t) PROVE RoutineKept(q)
  BY <1>1, <1>6, SetPC DEF CloseUnmap, At, After
<1>7. ASSUME NEW t \in {Go, Dart}, CloseDone(t) PROVE RoutineKept(q)
  <2>1. q \notin Parked
    BY <1>1 DEF Parked, TypeOK
  <2>2. pc'[q] = pc[q] \/ (pc[q] = "cls2" /\ pc'[q] \in {"cls3", "exited"})
    BY <1>1, <1>7, <2>1, SetPC DEF CloseDone, CloseFirst, CloseDoneChan, At, After
  <2>3. QED
    BY <1>7, <2>2 DEF CloseDone
<1>8. ASSUME NEW t \in {Go, Dart}, CloseData(t) PROVE RoutineKept(q)
  BY <1>1, <1>8, SetPC DEF CloseData, At, After
<1>9. CASE SendLookup(Dart)
  BY <1>1, <1>9, SetPC DEF SendLookup
<1>b. CASE SendCheck(Dart)
  BY <1>1, <1>b, SetPC DEF SendCheck
<1>c. CASE SendSelect(Dart)
  BY <1>1, <1>c, SetPC DEF SendSelect
<1>10. QED
  BY <1>2, <1>3, <1>4, <1>5, <1>6, <1>7, <1>8, <1>9, <1>b, <1>c DEF OthersUse

LEMMA KeptRequests ==
  ASSUME RequestInv, RoutineKept(Go), sent' = sent, TakesNone,
         pc[Go] \in Sending => stage' = stage,
         stage \notin Early => stage' \notin Early,
         outcome' = "send error" => outcome = "send error" \/ closed
  PROVE  RequestInv'
<1> USE DEF RequestInv, RoutineKept, Sending
<1>1. OutOrder'
  BY DEF OutOrder, Posted
<1>2. GoPlace'
  BY DEF GoPlace
<1>3. DartPlace'
  BY KeptDart
<1>4. QED
  BY <1>1, <1>2, <1>3

LEMMA SendStep ==
  ASSUME TypeOK, RequestInv, SendRequest \/ (CloseSend /\ SendFromStream(Go, "half"))
  PROVE  RequestInv'
<1>1. /\ pc[Go] = "idle" /\ ~closed /\ UNCHANGED <<out, closed>>
      /\ UNCHANGED <<empty, dart, outcome>> /\ stage = "send"
  BY DEF SendRequest, CloseSend, SendFromStream, OpenToSend, At, flags, dart
<1>a. sent \in 0..Requests /\ Requests \in Nat
  BY DEF RequestInv, GoPlace
<1>2. Len(out) = sent /\ outcome # "send error"
  BY <1>1, <1>a DEF RequestInv, OutOrder, Posted, GoPlace, Early
<1>3. DartPlace'
  BY <1>1, KeptDart DEF TakesNone, RequestInv
<1>4. CASE SendRequest
  <2>1. pc'[Go] = "data" /\ sent' = sent + 1 /\ sent < Requests /\ stage' = stage
    BY <1>4, SetPC DEF SendRequest, SendFromStream, Threads
  <2>2. sent' \in 0..Requests /\ sent' > 0 /\ sent' - 1 = sent
    BY <1>a, <2>1
  <2>3. Posted' = sent
    BY <2>1, <2>2 DEF Posted
  <2>4. OutOrder'
    BY <1>1, <1>a, <1>2, <2>3 DEF OutOrder, RequestInv
  <2>5. GoPlace'
    BY <1>1, <1>2, <2>1, <2>2 DEF GoPlace
  <2>6. QED
    BY <1>3, <2>4, <2>5 DEF RequestInv
<1>5. CASE CloseSend /\ SendFromStream(Go, "half")
  <2>1. pc'[Go] = "half" /\ sent' = sent /\ sent = Requests /\ stage' = "await"
    BY <1>a, <1>2, <1>5, SetPC DEF CloseSend, AllSent, SendFromStream, Threads
  <2>2. OutOrder'
    BY <1>1, <1>a, <1>2, <2>1 DEF OutOrder, Posted, RequestInv
  <2>3. GoPlace'
    BY <1>1, <1>a, <1>2, <2>1 DEF GoPlace
  <2>4. QED
    BY <1>3, <2>2, <2>3 DEF RequestInv
<1>6. QED
  BY <1>4, <1>5

LEMMA PostStep ==
  ASSUME TypeOK, RequestInv, NEW l \in {"data", "half"}, Callback(Go, l, "idle"),
         UNCHANGED <<call, dart>>
  PROVE  RequestInv'
<1>1. /\ pc[Go] = l /\ pc'[Go] = "idle" /\ closed' = closed
      /\ out' = Append(out, l) /\ l \in MsgKind /\ out \in Seq(MsgKind)
      /\ UNCHANGED <<empty, dart, outcome, sent, stage>>
  BY SetPC DEF Callback, At, Threads, flags, call, dart, MsgKind, TypeOK
<1>2. /\ Len(out') = Len(out) + 1 /\ Len(out) \in Nat
      /\ \A i \in 1..Len(out) : out'[i] = out[i]
      /\ out'[Len(out) + 1] = l
  BY <1>1
<1>3. /\ sent \in 0..Requests /\ Requests \in Nat
      /\ l = "data" => Len(out) = sent - 1
      /\ l = "half" => Len(out) = Requests /\ sent = Requests /\ stage = "await"
  BY <1>1, <1>2 DEF RequestInv, OutOrder, Posted, GoPlace, Early
<1>4. OutOrder'
  <2>1. \A i \in 1..Len(out) : out[i] = IF i <= Requests THEN "data" ELSE "half"
    BY DEF RequestInv, OutOrder
  <2>2. \A i \in 1..Len(out') : out'[i] = IF i <= Requests THEN "data" ELSE "half"
    <3>1. SUFFICES ASSUME NEW i \in 1..Len(out')
                   PROVE  out'[i] = IF i <= Requests THEN "data" ELSE "half"
      OBVIOUS
    <3>2. CASE i = Len(out) + 1
      BY <1>2, <1>3, <3>2
    <3>3. CASE i \in 1..Len(out)
      BY <1>2, <2>1, <3>3
    <3>4. QED
      BY <1>2, <3>2, <3>3
  <2>3. QED
    BY <1>1, <1>2, <1>3, <2>2 DEF OutOrder, Posted, Early
<1>5. GoPlace'
  BY <1>1, <1>3 DEF GoPlace, RequestInv
<1>6. DartPlace'
  BY <1>1, <1>2 DEF DartPlace, RequestInv, dart
<1>7. QED
  BY <1>4, <1>5, <1>6 DEF RequestInv

(* The isolate takes the next callback.                                    *)
LEMMA TakeMoves ==
  ASSUME DartPlace, HandleCallback, Len(out) \in Nat, Len(out) <= Requests + 1, Requests \in Nat,
         handled < Len(out) => out[handled + 1] = IF handled + 1 <= Requests THEN "data" ELSE "half"
  PROVE  DartPlace'
<1>1. /\ handled' = handled + 1 /\ handled < Len(out) /\ handled \in Nat
      /\ handler # "posted" /\ UNCHANGED <<out, handler, empty>>
  BY DEF HandleCallback, DartPlace, vars, call
<1>2. CASE ~active
  <2>1. UNCHANGED <<active, seen, inputDone>>
    BY <1>2 DEF HandleCallback
  <2>2. QED
    BY <1>1, <1>2, <2>1 DEF DartPlace
<1>3. CASE active
  <2>1. seen = (1..handled) \ empty /\ handled <= Requests
    BY <1>3 DEF DartPlace
  <2>2. ToController(handled + 1)
    BY <1>3 DEF HandleCallback
  <2>3. CASE handled + 1 <= Requests
    <3>1. out[handled + 1] = "data"
      BY <1>1, <2>3
    <3>2. seen' = (1..handled + 1) \ empty
      BY <1>1, <2>1, <2>2, <3>1 DEF ToController
    <3>3. active' /\ ~inputDone'
      BY <2>2, <3>1 DEF ToController
    <3>4. QED
      BY <1>1, <2>3, <3>2, <3>3 DEF DartPlace
  <2>4. CASE handled + 1 > Requests
    <3>1. out[handled + 1] = "half" /\ handled = Requests
      BY <1>1, <2>1, <2>4
    <3>2. seen' = (1..Requests) \ empty /\ inputDone' /\ ~active'
      BY <2>1, <2>2, <3>1 DEF ToController
    <3>3. QED
      BY <1>1, <3>2 DEF DartPlace
  <2>5. QED
    BY <1>1, <2>3, <2>4
<1>4. QED
  BY <1>2, <1>3

LEMMA TakeStep ==
  ASSUME TypeOK, RequestInv, HandleCallback
  PROVE  RequestInv'
<1>1. UNCHANGED <<out, pc, closed, sent, stage, outcome>>
  BY DEF HandleCallback, vars, flags, call
<1>2. Requests \in Nat /\ Len(out) \in Nat /\ Len(out) <= Requests + 1
  <2>1. sent \in 0..Requests /\ (Len(out) = Posted \/ Len(out) = Requests + 1)
    BY DEF RequestInv, OutOrder, GoPlace
  <2>2. Posted <= Requests
    BY <2>1 DEF Posted
  <2>3. QED
    BY <2>1, <2>2 DEF TypeOK
<1>3. handled < Len(out) => out[handled + 1] = IF handled + 1 <= Requests THEN "data" ELSE "half"
  BY <1>2 DEF RequestInv, OutOrder, DartPlace
<1>4. DartPlace'
  BY <1>2, <1>3, TakeMoves DEF RequestInv
<1>5. OutOrder' /\ GoPlace'
  BY <1>1 DEF RequestInv, OutOrder, GoPlace, Posted
<1>6. QED
  BY <1>4, <1>5 DEF RequestInv

LEMMA RequestInvNext == IInv /\ RequestInv /\ [BridgeNext]_allVars => RequestInv'
<1> SUFFICES ASSUME IInv, RequestInv, [BridgeNext]_allVars PROVE RequestInv'
  OBVIOUS
<1> USE DEF OthersUse
<1>1. TypeOK /\ Go \in Routines
  BY DEF IInv
<1>2. CASE UNCHANGED allVars
  BY <1>1, <1>2, OthersKeep, KeptRequests DEF allVars, call, TakesNone
<1>3. CASE SendRequest
  BY <1>1, <1>3, SendStep
<1>4. CASE CloseSend
  <2>1. CASE SendFromStream(Go, "half")
    BY <1>1, <1>4, <2>1, SendStep
  <2>2. CASE Idle(Go) /\ UNCHANGED vars
    BY <1>1, <1>4, <2>2, OthersKeep, KeptRequests
    DEF CloseSend, Idle, At, Sending, Early, TakesNone
  <2>3. QED
    BY <1>4, <2>1, <2>2 DEF CloseSend
<1>5. ASSUME NEW t \in {Go, Dart}, Proceed(t) PROVE RequestInv'
  <2>1. CASE \E l \in {"data", "half"} : t = Go /\ Callback(Go, l, "idle")
    BY <1>1, <1>5, <2>1, PostStep DEF Proceed
  <2>2. CASE OthersUse
    BY <1>1, <1>5, <2>2, OthersKeep, KeptRequests DEF Proceed, call, TakesNone
  <2>3. QED
    BY <1>5, <2>1, <2>2 DEF Proceed
<1>6. CASE HandleCallback
  BY <1>1, <1>6, TakeStep
<1>7. CASE CallReturns \/ CallFails \/ SendFails \/ ReaderEnded \/ Return
  BY <1>1, <1>7, OthersKeep, KeptRequests
  DEF CallReturns, CallFails, SendFails, ReaderEnded, Return, Idle, At, Sending, Early, TakesNone
<1>8. CASE Await \/ Close
  BY <1>1, <1>8, OthersKeep, KeptRequests DEF Await, Close, CloseCall, call, TakesNone
<1>9. CASE Collect \/ InputEnds
  BY <1>1, <1>9, OthersKeep, KeptRequests
  DEF Collect, InputEnds, Recv, RecvEnd, At, Sending, Early, TakesNone
<1>10. CASE Timeout
  BY <1>1, <1>10, OthersKeep, KeptRequests
  DEF Timeout, TimeoutStage, GiveUp, Idle, At, Sending, Early, TakesNone
<1>11. CASE ReaderStep
  BY <1>1, <1>11, OthersKeep, KeptRequests
  DEF ReaderStep, ReaderWaits, ReaderCollects, ReaderEnds, call, TakesNone
<1>12. CASE RunHandler \/ Respond \/ CloseHandler
  BY <1>1, <1>12, OthersKeep, KeptRequests DEF RunHandler, Respond, CloseHandler, call, TakesNone
<1>13. QED
  BY <1>2, <1>3, <1>4, <1>5, <1>6, <1>7, <1>8, <1>9, <1>10, <1>11, <1>12
  DEF BridgeNext, GoStep, DartStep

(* The handler of a client or bidi call sees the end of its requests only  *)
(* after every one of them that has any bytes (server.go:344-350, 419-426; *)
(* synurang.dart:1456).                                                    *)
THEOREM HandlerGetsAll == BridgeSpec => []RequestsComplete
<1>1. RequestInv => RequestsComplete
  BY DEF RequestInv, DartPlace, RequestsComplete
<1>2. QED
  BY <1>1, SessionInv, RequestInvInit, RequestInvNext, PTL DEF BridgeSpec

---------------------------------------------------------------------------
(* The calls of file_service.go.  They use their session as those of       *)
(* server.go do, except that the goroutine that sends is another one.      *)

LEMMA SecondUses == Second => GoUses \/ OthersUse \/ ReaderUses
<1> SUFFICES ASSUME Second PROVE GoUses \/ OthersUse \/ ReaderUses
  OBVIOUS
<1>1. CASE ReaderStep
  BY <1>1 DEF ReaderStep, ReaderWaits, ReaderCollects, ReaderEnds, OthersUse
<1>2. CASE SenderSends \/ SenderCloses \/ SenderProceeds
  BY <1>2 DEF SenderSends, SenderCloses, SenderProceeds, ReaderUses, OthersUse
<1>3. CASE SenderFails \/ SenderHashes
  BY <1>3 DEF SenderFails, SenderHashes, OthersUse
<1>4. QED
  BY <1>1, <1>2, <1>3 DEF Second

LEMMA FileStepUses == FileStep => GoUses \/ OthersUse
<1> SUFFICES ASSUME FileStep PROVE GoUses \/ OthersUse
  OBVIOUS
<1>1. CASE FileAwaits \/ FileCollects
  BY <1>1 DEF FileAwaits, FileCollects, WaitFor, OthersUse
<1>2. CASE DownloadEnds \/ EchoEnds \/ FileTimesOut \/ TakeError
  BY <1>2 DEF DownloadEnds, EchoEnds, FileTimesOut, TakeError, OthersUse
<1>3. CASE BidiStarts \/ TakeHash
  BY <1>3 DEF BidiStarts, TakeHash, OthersUse
<1>4. CASE Common
  BY <1>4, Uses DEF Common, BridgeNext, GoStep
<1>5. QED
  BY <1>1, <1>2, <1>3, <1>4 DEF FileStep

LEMMA FileUses == [FileNext]_fileVars => GoUses \/ OthersUse \/ ReaderUses
<1>1. UNCHANGED fileVars => OthersUse
  BY DEF fileVars, allVars, OthersUse
<1>2. BridgeGo \/ DartStep => GoUses \/ OthersUse
  BY Uses DEF BridgeGo, BridgeNext
<1>3. QED
  BY <1>1, <1>2, SecondUses, FileStepUses DEF FileNext

LEMMA FileUsesNext == [FileNext]_fileVars => [Next]_vars
<1>1. ReaderUses => [Next]_vars
  <2>1. Reader \in Routines /\ Reader \in Threads
    BY DEF Threads
  <2>2. QED
    BY <2>1 DEF ReaderUses, Next, Begin, Continue
<1>2. QED
  BY <1>1, FileUses, UsesNext

LEMMA FileSessionInv == FileSpec => []IInv
<1>1. FileInit => Init
  BY DEF FileInit, BridgeInit
<1>2. QED
  BY <1>1, FileUsesNext, IInvInit, IInvNext, PTL DEF FileSpec

(* The calls of file_service.go, with the goroutine that sends for them,   *)
(* are a use of a session as well, so what is proved of sessions holds of  *)
(* them (file_service.go:263-472).                                         *)
THEOREM FileCallsUseSession == FileSpec => SessionSafe
<1>1. FileInit => Init
  BY DEF FileInit, BridgeInit
<1>2. QED
  BY <1>1, FileUsesNext, PTL DEF FileSpec, SessionSafe

(* In particular Dart is never left asleep in a send whose wake-up is past *)
(* (stream_handler.go:181-200).                                            *)
THEOREM FileCallsLoseNoWakeup == FileSpec => []ParkedForRoom
<1>1. FileInit => Init
  BY DEF FileInit, BridgeInit
<1>2. QED
  BY <1>1, FileUsesNext, IInvInit, IInvNext, ParkedInit, ParkedNext, PTL DEF FileSpec

---------------------------------------------------------------------------
(* A step is one that only the calls of file_service.go make, one of a     *)
(* call without a sender that server.go's calls make too, or one that all  *)
(* of them share.                                                          *)
FileOnly ==
  \/ FileAwaits \/ FileCollects \/ DownloadEnds \/ FileTimesOut
  \/ BidiStarts \/ EchoEnds \/ TakeError \/ TakeHash
  \/ SenderSends \/ SenderFails \/ SenderCloses \/ SenderHashes \/ SenderProceeds

Shared ==
  /\ \/ CallFails \/ Close \/ Return \/ Proceed(Go) \/ DartStep
     \/ UNCHANGED allVars
  /\ UNCHANGED <<file, sender>>

LEMMA FileSteps ==
  ASSUME [FileNext]_fileVars
  PROVE  \/ FileOnly
         \/ ~BidiFile /\ BridgeNext /\ UNCHANGED <<file, sender>>
         \/ Shared
<1>1. CASE UNCHANGED fileVars
  BY <1>1 DEF fileVars, Shared
<1>2. CASE FileStep
  BY <1>2 DEF FileStep, FileOnly, Common, Shared, BridgeNext, GoStep
<1>3. CASE BridgeGo \/ Second \/ (DartStep /\ UNCHANGED <<file, sender>>)
  BY <1>3 DEF BridgeGo, Second, FileOnly, BridgeNext, Shared, BidiFile
<1>4. QED
  BY <1>1, <1>2, <1>3 DEF FileNext

LEMMA SharedFacts ==
  ASSUME Shared
  PROVE  /\ UNCHANGED <<kind, timed, empty, reader, sent, results>>
         /\ stage' = stage \/ (stage = "calling" /\ stage' = "close") \/ (Return /\ stage' = "returned")
         /\ outcome' \in {outcome, "call failed"}
  BY DEF Shared, CallFails, Close, Return, Proceed, DartStep, RunHandler, HandleCallback, Respond,
     CloseHandler, call, allVars

LEMMA FileOnlyFacts ==
  ASSUME FileOnly
  PROVE  /\ UNCHANGED <<file, kind>>
         /\ stage' # "returned" \/ stage' = stage
         /\ reader' = reader \/ reader \in {"send", "hash"} \/ (BidiFile /\ reader' = "send")
  BY DEF FileOnly, FileAwaits, FileCollects, DownloadEnds, FileTimesOut, BidiStarts, EchoEnds,
     TakeError, TakeHash, SenderSends, SenderFails, SenderCloses, SenderHashes, SenderProceeds,
     call, Ends

(* The kind of a call, and which service it is of, are fixed.              *)
LEMMA KindFixed ==
  ASSUME [FileNext]_fileVars
  PROVE  file' = file /\ kind' = kind
<1>1. CASE BridgeNext /\ UNCHANGED file
  BY <1>1 DEF BridgeNext, GoStep, DartStep, ReaderStep, CallReturns, CallFails, SendRequest, SendFails,
     CloseSend, Await, Collect, InputEnds, Timeout, ReaderEnded, Close, Return, Proceed, ReaderWaits,
     ReaderCollects, ReaderEnds, RunHandler, HandleCallback, Respond, CloseHandler, call
<1>2. QED
  BY <1>1, FileSteps, FileOnlyFacts, SharedFacts DEF Shared

(* Only the bidirectional call of file_service.go has a sender.            *)
SenderOnly == reader \in {"send", "hash"} => BidiFile

LEMMA SenderOnlyNext ==
  ASSUME SenderOnly, [FileNext]_fileVars
  PROVE  SenderOnly'
<1>1. BidiFile' = BidiFile
  BY KindFixed DEF BidiFile
<1>2. CASE BridgeNext
  <2>1. reader' = reader \/ reader' \in {"loop", "done"}
    BY <1>2 DEF BridgeNext, GoStep, DartStep, ReaderStep, CallReturns, CallFails, SendRequest, SendFails,
       CloseSend, Await, Collect, InputEnds, Timeout, ReaderEnded, Close, Return, Proceed, ReaderWaits,
       ReaderCollects, ReaderEnds, RunHandler, HandleCallback, Respond, CloseHandler, call
  <2>2. QED
    BY <1>1, <2>1 DEF SenderOnly
<1>3. QED
  BY <1>1, <1>2, FileSteps, FileOnlyFacts, SharedFacts DEF SenderOnly

(* The session of a call of file_service.go is removed when it returns, as *)
(* that of server.go; its second goroutine may end before.                 *)
FileClosedInv == SessionGone /\ SenderOnly /\ (~BidiFile => ClosedInv)

LEMMA FileClosedInvNext ==
  IInv /\ FileClosedInv /\ [FileNext]_fileVars => FileClosedInv'
<1> SUFFICES ASSUME IInv, FileClosedInv, [FileNext]_fileVars PROVE FileClosedInv'
  OBVIOUS
<1>1. Kept /\ (inMap' => inMap) /\ SessionGone
  BY FileUses, UsesKeep DEF IInv, Kept, FileClosedInv
<1>2. BidiFile' = BidiFile /\ SenderOnly'
  BY KindFixed, SenderOnlyNext DEF BidiFile, FileClosedInv
<1>3. CASE FileOnly
  <2>1. SessionGone'
    BY <1>1, <1>3, FileOnlyFacts, KeptGone
  <2>2. ~BidiFile => reader' = reader
    BY <1>3, FileOnlyFacts DEF FileClosedInv, SenderOnly
  <2>3. QED
    BY <1>1, <1>2, <2>1, <2>2 DEF FileClosedInv, ClosedInv
<1>4. CASE ~BidiFile /\ BridgeNext
  BY <1>2, <1>4, ClosedInvNext DEF FileClosedInv, ClosedInv
<1>5. CASE Shared
  <2>1. Return => ~inMap'
    <3>1. Go \in Threads
      BY DEF Threads
    <3>2. QED
      BY <1>1, <3>1 DEF Return, SessionGone, At, ClosingPC
  <2>2. SessionGone'
    BY <1>1, <1>5, <2>1, SharedFacts, KeptGone
  <2>3. reader' = reader
    BY <1>5, SharedFacts
  <2>4. QED
    BY <1>1, <1>2, <2>2, <2>3 DEF FileClosedInv, ClosedInv
<1>6. QED
  BY <1>3, <1>4, <1>5, FileSteps

(* However a call of either service ends, on a time-out, a bad chunk, an   *)
(* error of the sender or the end, it has removed its session when it      *)
(* returns (file_service.go:270, 338, 392; server.go:280-321, 333, 445).   *)
THEOREM FileCallsRemoveSession == FileSpec => []SessionRemoved
<1>1. FileInit => FileClosedInv
  BY ClosedInvInit DEF FileInit, BridgeInit, FileClosedInv, ClosedInv, SenderOnly
<1>2. FileClosedInv => SessionRemoved
  BY DEF FileClosedInv, SessionGone, SessionRemoved
<1>3. QED
  BY <1>1, <1>2, FileClosedInvNext, FileSessionInv, PTL DEF FileSpec

---------------------------------------------------------------------------
(* The requests of a bidirectional call of file_service.go are posted by   *)
(* its second goroutine, and where that is takes the place of the stage of *)
(* the call.                                                               *)
SPosted == IF pc[Reader] = "data" THEN sent - 1 ELSE sent

SenderOrder ==
  /\ \A i \in 1..Len(out) : out[i] = IF i <= Requests THEN "data" ELSE "half"
  /\ \/ Len(out) = SPosted
     \/ Len(out) = Requests + 1 /\ sent = Requests /\ reader \in {"hash", "done"}

SenderPlace ==
  /\ sent \in 0..Requests
  /\ pc[Reader] = "data" => sent > 0 /\ reader = "send"
  /\ pc[Reader] = "half" => sent = Requests /\ reader = "hash" /\ Len(out) = Requests
  /\ pc[Go] \notin Sending
  /\ stage = "calling" => reader = "none"

SenderInv == SenderOrder /\ SenderPlace /\ DartPlace

LEMMA KeptSender ==
  ASSUME SenderInv, RoutineKept(Go), RoutineKept(Reader),
         sent' = sent, TakesNone,
         pc[Reader] \in Sending => reader' = reader,
         reader \in {"hash", "done"} => reader' \in {"hash", "done"},
         stage' = "calling" => stage = "calling" /\ reader' = reader
  PROVE  SenderInv'
<1> USE DEF SenderInv, RoutineKept, Sending
<1>1. SenderOrder'
  BY DEF SenderOrder, SPosted
<1>2. SenderPlace'
  BY DEF SenderPlace
<1>3. DartPlace'
  BY KeptDart
<1>4. QED
  BY <1>1, <1>2, <1>3

LEMMA SenderSendStep ==
  ASSUME TypeOK, SenderInv, SenderSends \/ (SenderCloses /\ SendFromStream(Reader, "half"))
  PROVE  SenderInv'
<1>0. Go # Reader /\ Go \in Threads /\ Reader \in Threads
  BY DEF Threads
<1>1. /\ pc[Reader] = "idle" /\ UNCHANGED out /\ pc'[Go] = pc[Go]
      /\ UNCHANGED <<empty, dart, stage>> /\ reader = "send"
  BY <1>0, SetPC DEF SenderSends, SenderCloses, SendFromStream, At, dart
<1>a. sent \in 0..Requests /\ Requests \in Nat
  BY DEF SenderInv, SenderPlace
<1>2. Len(out) = sent
  BY <1>1, <1>a DEF SenderInv, SenderOrder, SPosted
<1>3. DartPlace'
  BY <1>1, KeptDart DEF TakesNone, SenderInv
<1>4. CASE SenderSends
  <2>1. pc'[Reader] = "data" /\ sent' = sent + 1 /\ sent < Requests /\ reader' = reader
    BY <1>0, <1>4, SetPC DEF SenderSends, SendFromStream
  <2>2. sent' \in 0..Requests /\ sent' > 0 /\ sent' - 1 = sent
    BY <1>a, <2>1
  <2>3. SPosted' = sent
    BY <2>1, <2>2 DEF SPosted
  <2>4. SenderOrder'
    BY <1>1, <1>a, <1>2, <2>3 DEF SenderOrder, SenderInv
  <2>5. SenderPlace'
    BY <1>1, <1>2, <2>1, <2>2 DEF SenderPlace, SenderInv
  <2>6. QED
    BY <1>3, <2>4, <2>5 DEF SenderInv
<1>5. CASE SenderCloses /\ SendFromStream(Reader, "half")
  <2>1. pc'[Reader] = "half" /\ sent' = sent /\ sent = Requests /\ reader' = "hash"
    BY <1>0, <1>5, SetPC DEF SenderCloses, SendFromStream
  <2>2. SenderOrder'
    BY <1>1, <1>a, <1>2, <2>1 DEF SenderOrder, SPosted, SenderInv
  <2>3. SenderPlace'
    BY <1>1, <1>a, <1>2, <2>1 DEF SenderPlace, SenderInv
  <2>4. QED
    BY <1>3, <2>2, <2>3 DEF SenderInv
<1>6. QED
  BY <1>4, <1>5

LEMMA SenderPostStep ==
  ASSUME TypeOK, SenderInv, NEW l \in {"data", "half"}, Callback(Reader, l, "idle"),
         UNCHANGED <<call, dart>>
  PROVE  SenderInv'
<1>0. Go # Reader /\ Go \in Threads /\ Reader \in Threads
  BY DEF Threads
<1>1. /\ pc[Reader] = l /\ pc'[Reader] = "idle" /\ pc'[Go] = pc[Go]
      /\ out' = Append(out, l) /\ l \in MsgKind /\ out \in Seq(MsgKind)
      /\ UNCHANGED <<empty, dart, sent, reader, stage>>
  BY <1>0, SetPC DEF Callback, At, flags, call, dart, MsgKind, TypeOK
<1>2. /\ Len(out') = Len(out) + 1 /\ Len(out) \in Nat
      /\ \A i \in 1..Len(out) : out'[i] = out[i]
      /\ out'[Len(out) + 1] = l
  BY <1>1
<1>3. /\ sent \in 0..Requests /\ Requests \in Nat
      /\ l = "data" => Len(out) = sent - 1
      /\ l = "half" => Len(out) = Requests /\ sent = Requests /\ reader = "hash"
  BY <1>1, <1>2 DEF SenderInv, SenderOrder, SPosted, SenderPlace
<1>4. SenderOrder'
  <2>1. \A i \in 1..Len(out) : out[i] = IF i <= Requests THEN "data" ELSE "half"
    BY DEF SenderInv, SenderOrder
  <2>2. \A i \in 1..Len(out') : out'[i] = IF i <= Requests THEN "data" ELSE "half"
    <3>1. SUFFICES ASSUME NEW i \in 1..Len(out')
                   PROVE  out'[i] = IF i <= Requests THEN "data" ELSE "half"
      OBVIOUS
    <3>2. CASE i = Len(out) + 1
      BY <1>2, <1>3, <3>2
    <3>3. CASE i \in 1..Len(out)
      BY <1>2, <2>1, <3>3
    <3>4. QED
      BY <1>2, <3>2, <3>3
  <2>3. SPosted' = sent /\ sent' = sent /\ reader' = reader
    BY <1>1 DEF SPosted
  <2>4. Len(out') = sent \/ (Len(out') = Requests + 1 /\ sent = Requests /\ reader = "hash")
    BY <1>2, <1>3
  <2>5. QED
    BY <2>2, <2>3, <2>4 DEF SenderOrder
<1>5. SenderPlace'
  BY <1>1, <1>3 DEF SenderPlace, SenderInv
<1>6. DartPlace'
  BY <1>1, <1>2 DEF DartPlace, SenderInv, dart
<1>7. QED
  BY <1>4, <1>5, <1>6 DEF SenderInv

LEMMA SenderTakeStep ==
  ASSUME TypeOK, SenderInv, HandleCallback
  PROVE  SenderInv'
<1>1. UNCHANGED <<out, pc, sent, reader, stage>>
  BY DEF HandleCallback, vars, call
<1>2. Requests \in Nat /\ Len(out) \in Nat /\ Len(out) <= Requests + 1
  <2>1. sent \in 0..Requests /\ (Len(out) = SPosted \/ Len(out) = Requests + 1)
    BY DEF SenderInv, SenderOrder, SenderPlace
  <2>2. SPosted <= Requests
    BY <2>1 DEF SPosted
  <2>3. QED
    BY <2>1, <2>2 DEF TypeOK
<1>3. handled < Len(out) => out[handled + 1] = IF handled + 1 <= Requests THEN "data" ELSE "half"
  BY <1>2 DEF SenderInv, SenderOrder, DartPlace
<1>4. DartPlace'
  BY <1>2, <1>3, TakeMoves DEF SenderInv
<1>5. SenderOrder' /\ SenderPlace'
  BY <1>1 DEF SenderInv, SenderOrder, SenderPlace, SPosted
<1>6. QED
  BY <1>4, <1>5 DEF SenderInv

LEMMA SenderInvNext ==
  ASSUME TypeOK, SenderInv, BidiFile, FileOnly \/ Shared
  PROVE  SenderInv'
<1> USE DEF OthersUse
<1>1. Go \in Routines /\ Reader \in Routines
  OBVIOUS
<1>2. CASE SenderSends
  BY <1>2, SenderSendStep
<1>3. CASE SenderCloses
  <2>1. CASE SendFromStream(Reader, "half")
    BY <1>3, <2>1, SenderSendStep
  <2>2. CASE Idle(Reader) /\ UNCHANGED vars
    BY <1>1, <1>3, <2>2, OthersKeep, KeptSender
    DEF SenderCloses, Idle, At, Sending, SenderInv, SenderPlace, TakesNone
  <2>3. QED
    BY <1>3, <2>1, <2>2 DEF SenderCloses
<1>4. CASE SenderProceeds
  BY <1>4, SenderPostStep DEF SenderProceeds
<1>5. CASE SenderFails \/ SenderHashes
  BY <1>1, <1>5, OthersKeep, KeptSender
  DEF SenderFails, SenderHashes, Idle, At, Sending, SenderInv, SenderPlace, TakesNone
<1>6. CASE FileAwaits \/ FileCollects
  BY <1>1, <1>6, OthersKeep, KeptSender DEF FileAwaits, FileCollects, Ends, WaitFor, call, TakesNone
<1>7. CASE DownloadEnds \/ EchoEnds \/ FileTimesOut \/ TakeError
  BY <1>1, <1>7, OthersKeep, KeptSender
  DEF DownloadEnds, EchoEnds, FileTimesOut, TakeError, Ends, TakesNone
<1>8. CASE TakeHash
  BY <1>1, <1>8, OthersKeep, KeptSender DEF TakeHash, Ends, TakesNone
<1>9. CASE BidiStarts
  <2>1. reader = "none" /\ pc[Reader] \notin Sending
    BY <1>9 DEF BidiStarts, SenderInv, SenderPlace, Sending
  <2>2. QED
    BY <1>1, <1>9, <2>1, OthersKeep, KeptSender DEF BidiStarts, TakesNone
<1>10. CASE HandleCallback
  BY <1>10, SenderTakeStep
<1>11. ASSUME NEW t \in {Go, Dart}, Proceed(t) PROVE SenderInv'
  <2>1. OthersUse
    BY <1>11 DEF Proceed, Callback, At, SenderInv, SenderPlace, Sending
  <2>2. QED
    BY <1>1, <1>11, <2>1, OthersKeep, KeptSender DEF Proceed, call, TakesNone
<1>12. CASE CallFails \/ Return \/ UNCHANGED allVars
  BY <1>1, <1>12, OthersKeep, KeptSender DEF CallFails, Return, allVars, call, TakesNone
<1>13. CASE Close \/ RunHandler \/ Respond \/ CloseHandler
  BY <1>1, <1>13, OthersKeep, KeptSender
  DEF Close, CloseCall, RunHandler, Respond, CloseHandler, call, TakesNone
<1>14. QED
  BY <1>2, <1>3, <1>4, <1>5, <1>6, <1>7, <1>8, <1>9, <1>10, <1>11, <1>12, <1>13
  DEF FileOnly, Shared, DartStep

(* A call without a sender posts what server.go's calls post.              *)
LEMMA DownloadKeeps ==
  ASSUME TypeOK, RequestInv, SenderOnly, ~BidiFile, FileOnly
  PROVE  RequestInv'
<1> USE DEF OthersUse
<1>1. Go \in Routines
  OBVIOUS
<1>2. \/ FileAwaits \/ FileCollects \/ DownloadEnds
      \/ Download /\ FileTimesOut
  BY DEF FileOnly, BidiStarts, EchoEnds, TakeError, TakeHash, SenderSends, SenderFails,
         SenderCloses, SenderHashes, SenderProceeds, SenderOnly, FileTimesOut
<1>3. CASE FileAwaits
  BY <1>1, <1>3, OthersKeep, KeptRequests DEF FileAwaits, WaitFor, call, TakesNone
<1>4. CASE FileCollects \/ DownloadEnds
  BY <1>1, <1>4, OthersKeep, KeptRequests
  DEF FileCollects, DownloadEnds, Ends, Recv, RecvEnd, At, Sending, Early, TakesNone
<1>5. CASE FileTimesOut
  BY <1>1, <1>5, OthersKeep, KeptRequests
  DEF FileTimesOut, Ends, GiveUp, Idle, At, Sending, Early, TakesNone
<1>6. QED
  BY <1>2, <1>3, <1>4, <1>5

FileRequestInv == SenderOnly /\ IF BidiFile THEN SenderInv ELSE RequestInv

LEMMA FileRequestInvNext ==
  IInv /\ FileRequestInv /\ [FileNext]_fileVars => FileRequestInv'
<1> SUFFICES ASSUME IInv, FileRequestInv, [FileNext]_fileVars PROVE FileRequestInv'
  OBVIOUS
<1>1. BidiFile' = BidiFile /\ SenderOnly /\ SenderOnly' /\ TypeOK
  BY KindFixed, SenderOnlyNext DEF BidiFile, FileRequestInv, IInv
<1>2. CASE BidiFile
  <2>1. FileOnly \/ Shared
    BY <1>2, FileSteps
  <2>2. SenderInv'
    BY <1>1, <1>2, <2>1, SenderInvNext DEF FileRequestInv
  <2>3. QED
    BY <1>1, <1>2, <2>2 DEF FileRequestInv
<1>3. CASE ~BidiFile
  <2>1. RequestInv
    BY <1>3 DEF FileRequestInv
  <2>2. FileOnly \/ [BridgeNext]_allVars
    BY FileSteps DEF Shared, BridgeNext, GoStep
  <2>3. RequestInv'
    BY <1>1, <1>3, <2>1, <2>2, DownloadKeeps, RequestInvNext
  <2>4. QED
    BY <1>1, <1>3, <2>3 DEF FileRequestInv
<1>4. QED
  BY <1>2, <1>3

LEMMA FileRequestInvInit == FileInit => FileRequestInv
<1> SUFFICES ASSUME FileInit PROVE FileRequestInv
  OBVIOUS
<1>1. RequestInv /\ SenderOnly
  BY RequestInvInit DEF FileInit, BridgeInit, SenderOnly
<1>2. pc[Reader] = "idle" /\ pc[Go] = "idle" /\ sent = 0 /\ Len(out) = 0
  BY DEF FileInit, BridgeInit, Init, Threads
<1>3. SenderInv
  BY <1>1, <1>2 DEF SenderInv, SenderOrder, SPosted, SenderPlace, RequestInv, Sending, FileInit, BridgeInit
<1>4. QED
  BY <1>1, <1>3 DEF FileRequestInv

(* The same of the calls of file_service.go beside those of server.go,     *)
(* also when a second goroutine sends the chunks of a bidirectional call,  *)
(* none of which is empty (file_service.go:399-433).                       *)
THEOREM FileHandlerGetsAll == FileSpec => []RequestsComplete
<1>1. FileRequestInv => RequestsComplete
  BY DEF FileRequestInv, SenderInv, RequestInv, DartPlace, RequestsComplete
<1>2. QED
  BY <1>1, FileSessionInv, FileRequestInvInit, FileRequestInvNext, PTL DEF FileSpec

---------------------------------------------------------------------------
(* The goroutine of a download waits for DataChan alone, so what it takes  *)
(* for the end is the closed and empty channel, and that stays so.         *)
DownloadInv ==
  Download => /\ pc[Go] # "recvsel"
              /\ outcome = "ok" => dataClosed /\ buf = <<>>

(* What the steps that are not the goroutine's own do to where it is.      *)
LEMMA OthersMoveGo ==
  ASSUME TypeOK, \/ DartStep
                 \/ ReaderUses
                 \/ CallFails \/ Close \/ Return \/ Proceed(Go) \/ CallReturns
         PROVE  pc'[Go] = "recvsel" => pc[Go] = "recvsel"
<1>0. Go \in Routines /\ Dart \in Callers /\ Reader \in Routines /\ Go # Reader
  OBVIOUS
<1>a. Go \notin Callers
  BY <1>0, SessionAssumption, Zenon
<1>1. Go \in Threads /\ Dart \in Threads /\ Reader \in Threads /\ Go # Dart
  BY <1>0, <1>a DEF Threads
<1>2. CASE ReaderUses
  BY <1>0, <1>1, <1>2, SetPC DEF ReaderUses, SendFromStream, Callback
<1>3. CASE CallFails \/ Return \/ CallReturns
  BY <1>3 DEF CallFails, Return, CallReturns, vars
<1>4. ASSUME NEW t \in {Go, Dart}, CloseUnmap(t) PROVE pc'[Go] = pc[Go] \/ pc'[Go] # "recvsel"
  BY <1>0, <1>1, <1>4, SetPC DEF CloseUnmap, After
<1>5. ASSUME NEW t \in {Go, Dart}, CloseDone(t) PROVE pc'[Go] = pc[Go] \/ pc'[Go] # "recvsel"
  <2>1. CASE Goto(t, After(t))
    BY <1>0, <1>1, <1>5, <2>1, SetPC DEF After
  <2>2. CASE CloseDoneChan(t, "cls3")
    BY <1>1, <2>2 DEF CloseDoneChan
  <2>3. QED
    BY <1>5, <2>1, <2>2 DEF CloseDone, CloseFirst
<1>6. ASSUME NEW t \in {Go, Dart}, CloseData(t) PROVE pc'[Go] = pc[Go] \/ pc'[Go] # "recvsel"
  BY <1>0, <1>1, <1>6, SetPC DEF CloseData, After
<1>7. CASE SendLookup(Dart) \/ SendCheck(Dart) \/ SendSelect(Dart)
  BY <1>1, <1>7, SetPC DEF SendLookup, SendCheck, SendSelect
<1>8. ASSUME NEW l \in {"data", "half"}, Callback(Go, l, "idle") PROVE pc'[Go] # "recvsel"
  BY <1>1, <1>8, SetPC DEF Callback
<1>9. ASSUME NEW t \in {Go, Dart}, Proceed(t) PROVE pc'[Go] = pc[Go] \/ pc'[Go] # "recvsel"
  BY <1>5, <1>6, <1>7, <1>8, <1>9 DEF Proceed
<1>10. CASE RunHandler \/ HandleCallback
  BY <1>10 DEF RunHandler, HandleCallback, vars
<1>11. CASE Respond \/ CloseHandler \/ Close
  BY <1>4, <1>7, <1>11 DEF Respond, CloseHandler, Close, CloseCall
<1>12. QED
  BY <1>2, <1>3, <1>9, <1>10, <1>11 DEF DartStep

LEMMA DownloadInvNext == IInv /\ DownloadInv /\ [FileNext]_fileVars => DownloadInv'
<1> SUFFICES ASSUME IInv, DownloadInv, [FileNext]_fileVars, Download'
             PROVE  pc'[Go] # "recvsel" /\ (outcome' = "ok" => dataClosed' /\ buf' = <<>>)
  BY DEF DownloadInv
<1>1. CASE UNCHANGED fileVars
  BY <1>1 DEF fileVars, allVars, vars, call, flags, DownloadInv, Download
<1>2. CASE FileNext
  <2>0. Go \in Threads
    BY DEF Threads
  <2>a. CASE FileAwaits \/ FileCollects \/ DownloadEnds \/ FileTimesOut
    <3>1. file' = file /\ kind' = kind
      BY <2>a DEF FileAwaits, FileCollects, DownloadEnds, FileTimesOut, call
    <3>2. Download
      BY <3>1 DEF Download
    <3>3. pc[Go] # "recvsel" /\ (outcome = "ok" => dataClosed /\ buf = <<>>)
      BY <3>2 DEF DownloadInv
    <3>4. dataClosed /\ buf = <<>> => dataClosed' /\ buf' = <<>>
      BY FileUsesNext, DrainedStays
    <3>5. CASE FileAwaits
      BY <2>0, <3>3, <3>4, <3>5, SetPC DEF FileAwaits, WaitFor, Start, call, IInv
    <3>6. CASE FileCollects
      <4>1. pc'[Go] = "idle"
        BY <2>0, <3>6 DEF FileCollects, Recv, Goto, IInv, TypeOK
      <4>2. outcome' = "ok" => outcome = "ok"
        BY <3>6 DEF FileCollects, Ends
      <4>3. QED
        BY <3>3, <3>4, <4>1, <4>2
    <3>7. CASE DownloadEnds
      <4>1. pc'[Go] = "idle"
        BY <2>0, <3>7, SetPC DEF DownloadEnds, RecvEnd, IInv
      <4>2. dataClosed /\ buf = <<>>
        BY <3>3, <3>7 DEF DownloadEnds, RecvEnd, At
      <4>3. QED
        BY <3>4, <4>1, <4>2
    <3>8. CASE FileTimesOut
      <4>1. pc'[Go] # "recvsel"
        BY <2>0, <3>3, <3>8, SetPC DEF FileTimesOut, GiveUp, Idle, At, vars, IInv
      <4>2. outcome' # "ok"
        BY <3>8 DEF FileTimesOut, Ends
      <4>3. QED
        BY <4>1, <4>2
    <3>9. QED
      BY <2>a, <3>5, <3>6, <3>7, <3>8
  <2>b. CASE BidiStarts \/ EchoEnds \/ TakeError \/ TakeHash \/ SenderProceeds
    <3>1. file' = file /\ kind' = kind /\ BidiFile
      BY <2>b DEF BidiStarts, EchoEnds, TakeError, TakeHash, SenderProceeds, call
    <3>2. QED
      BY <3>1 DEF BidiFile, Download
  <2>c. CASE BridgeGo \/ (~file /\ ReaderStep /\ UNCHANGED <<file, sender>>)
    <3>1. file' = file /\ kind' = kind /\ ~Download
      BY <2>c DEF BridgeGo, Download, GoStep, CallReturns, CallFails, SendRequest, SendFails,
                  CloseSend, Await, Collect, InputEnds, Timeout, ReaderEnded, Close, Return,
                  Proceed, call, ReaderStep, ReaderWaits, ReaderCollects, ReaderEnds
    <3>2. QED
      BY <3>1 DEF Download
  <2>d. CASE (Common \/ DartStep) /\ UNCHANGED <<file, sender>>
    <3>1. kind' = kind /\ (outcome' = "ok" => outcome = "ok")
      BY <2>d DEF Common, CallFails, Close, Return, Proceed, CallReturns, DartStep, RunHandler,
                  HandleCallback, Respond, CloseHandler, call
    <3>2. Download /\ ~BidiFile
      BY <2>d, <3>1 DEF Download, BidiFile
    <3>3. pc'[Go] # "recvsel"
      BY <2>d, <3>2, OthersMoveGo DEF DownloadInv, Common, IInv
    <3>4. QED
      BY <3>1, <3>2, <3>3, FileUsesNext, DrainedStays DEF DownloadInv
  <2>e. CASE SenderSends \/ SenderFails \/ SenderCloses \/ SenderHashes
    <3>1. file' = file /\ kind' = kind /\ outcome' = outcome
      BY <2>e DEF SenderSends, SenderFails, SenderCloses, SenderHashes
    <3>2. ReaderUses \/ pc' = pc
      BY <2>e DEF SenderSends, SenderFails, SenderCloses, SenderHashes, ReaderUses, vars
    <3>3. Download
      BY <3>1 DEF Download
    <3>4. pc'[Go] # "recvsel"
      BY <3>2, <3>3, OthersMoveGo DEF DownloadInv, IInv
    <3>5. QED
      BY <3>1, <3>3, <3>4, FileUsesNext, DrainedStays DEF DownloadInv
  <2>f. QED
    BY <1>2, <2>a, <2>b, <2>c, <2>d, <2>e DEF FileNext, FileStep, Second
<1>3. QED
  BY <1>1, <1>2

(* A download that ends well has every chunk that was accepted from the    *)
(* handler: the end is the closed and empty channel (file_service.go:357). *)
THEOREM DownloadHasAll == FileSpec => []DownloadComplete
<1>1. FileInit => DownloadInv
  BY DEF FileInit, BridgeInit, Init, DownloadInv, Threads
<1>2. DownloadInv => DownloadComplete
  BY DEF DownloadInv, DownloadComplete
<1>3. QED
  BY <1>1, <1>2, DownloadInvNext, FileSessionInv, PTL DEF FileSpec

(* However the calls of file_service.go interleave with the isolate, no    *)
(* channel of their session is closed twice (file_service.go:270, 338,     *)
(* 392).                                                                   *)
THEOREM FileCallsCloseOnce == FileSpec => []NoDoubleClose
<1>1. IInv => NoDoubleClose
  BY DEF IInv
<1>2. QED
  BY <1>1, FileSessionInv, PTL
=============================================================================
