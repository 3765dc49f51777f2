------------------------- MODULE RequestHandlerProofs -------------------------
(***************************************************************************)
(* Proofs about RequestHandler and WorkerPool, for any number of callers,  *)
(* isolates, workers, calls and requests.                                  *)
(*                                                                         *)
(* Calls into Dart: the answer of Dart never blocks the isolate that gives *)
(* it, no request stays pending when its call has returned, and a call     *)
(* returns once, as DartCall promises.                                     *)
(*                                                                         *)
(* Requests of Dart: the pool counts what its workers have to do, loses    *)
(* no request and only replies that come too late, and keeps the same      *)
(* promise.                                                                *)
(*                                                                         *)
(* The argument follows one request: while it is in the pending map its    *)
(* channel is empty and no isolate is about to send on it; HandleResponse  *)
(* takes it out of the map before it sends, so at most one isolate ever    *)
(* holds it, and CleanupPending fills only channels of requests that       *)
(* nobody has taken.  The waiting call finds its channel full only after   *)
(* its request has left the map.                                           *)
(***************************************************************************)
EXTENDS WorkerPool, FiniteSetTheorems, TLAPS

(* What the calls of a program do; the scheduler is left out.              *)
Steps == Init /\ [][Next]_vars

LEMMA SpecSteps == Spec => Steps
  BY PTL DEF Spec, Steps

(* Facts about the queues.                                                 *)
LEMMA Appended ==
  ASSUME NEW S, NEW s \in Seq(S), NEW x \in S
  PROVE  Append(s, x) \in Seq(S)
  OBVIOUS

LEMMA Taken ==
  ASSUME NEW S, NEW s \in Seq(S), s # <<>>
  PROVE  Tail(s) \in Seq(S) /\ Head(s) \in S
  OBVIOUS

LEMMA Prefix ==
  ASSUME NEW S, NEW s \in Seq(S), NEW n \in 0..Len(s)
  PROVE  SubSeq(s, 1, n) \in Seq(S)
  OBVIOUS

(* A caller that is in a call knows the id of its request.                 *)
Known == \A c \in Callers : pc[c] # "idle" => cur[c] \in 1..nextId
Typed == TypeOK /\ Known

(* Every step keeps the types and the ids of the callers.                  *)
LEMMA TypedInvariant == Steps => []Typed
<1>1. Init => Typed
  <2> SUFFICES ASSUME Init PROVE Typed
    OBVIOUS
  <2>1. nextId \in 0..MaxCalls /\ pending \subseteq 1..nextId
    BY HandlerAssumption DEF Init
  <2>2. queue \in [Isolates -> Seq(1..nextId)]
    BY DEF Init
  <2>3. live \in BOOLEAN /\ aborted \in BOOLEAN /\ handlers \subseteq Isolates
    BY Zenon DEF Init
  <2>4. chan \in [Ids -> Answers \cup {"none"}] /\ outcome \in [Ids -> Outcomes \cup {"none"}]
    BY DEF Init
  <2>5. pc \in [Callers -> CallerPC] /\ cur \in [Callers -> 0..nextId]
    BY DEF Init, CallerPC
  <2>6. ipc \in [Isolates -> IsolatePC] /\ job \in [Isolates -> 0..nextId] /\ reply \in [Isolates -> Answers]
    BY DEF Init, IsolatePC, Answers
  <2> QED
    BY <2>1, <2>2, <2>3, <2>4, <2>5, <2>6 DEF Init, TypeOK, Typed, Known
<1>2. Typed /\ [Next]_vars => Typed'
  <2> SUFFICES ASSUME Typed, [Next]_vars PROVE Typed'
    OBVIOUS
  <2> USE DEF Typed, Known, TypeOK, Answers, Outcomes, CallerPC, IsolatePC, Goto, IGoto, At, IAt,
              callers, isolates, callback
  <2>1. ASSUME NEW c \in Callers, CreateRequest(c) PROVE Typed'
    <3>1. nextId' \in 0..MaxCalls /\ nextId' = nextId + 1 /\ RequestId = nextId'
      BY <2>1, HandlerAssumption DEF CreateRequest, RequestId
    <3>2. 1..nextId \subseteq 1..nextId' /\ 0..nextId \subseteq 0..nextId' /\ nextId' \in 1..nextId'
      BY <3>1
    <3>3. queue' \in [Isolates -> Seq(1..nextId')]
      BY <2>1, <3>2 DEF CreateRequest
    <3> QED
      BY <2>1, <3>1, <3>2, <3>3 DEF CreateRequest
  <2>2. ASSUME NEW c \in Callers, Post(c) PROVE Typed'
    <3>1. CASE live
      <4>1. cur[c] \in 1..nextId
        BY <2>2 DEF Post
      <4>2. \A i \in Isolates : Append(queue[i], cur[c]) \in Seq(1..nextId)
        BY <4>1, Appended
      <4>3. queue' = [queue EXCEPT ![dartCallback] = Append(queue[dartCallback], cur[c])]
        BY <2>2, <3>1 DEF Post
      <4>4. queue' \in [Isolates -> Seq(1..nextId)]
        <5>1. CASE dartCallback \in Isolates
          BY <5>1, <4>2, <4>3
        <5>2. CASE dartCallback \notin Isolates
          BY <5>2, <4>3
        <5> QED
          BY <5>1, <5>2
      <4> QED
        BY <2>2, <3>1, <4>4 DEF Post
    <3>2. CASE ~live
      BY <2>2, <3>2 DEF Post
    <3> QED
      BY <3>1, <3>2
  <2>3. ASSUME NEW c \in Callers, Receive(c) PROVE Typed'
    BY <2>3 DEF Receive, Return
  <2>4. ASSUME NEW c \in Callers, TimerFires(c) PROVE Typed'
    BY <2>4 DEF TimerFires
  <2>5. ASSUME NEW c \in Callers, Expire(c) PROVE Typed'
    BY <2>5 DEF Expire, Forget, Return
  <2>6. ASSUME NEW i \in Isolates, Dequeue(i) PROVE Typed'
    <3>1. queue[i] \in Seq(1..nextId) /\ queue[i] # <<>>
      BY <2>6 DEF Dequeue
    <3>2. Tail(queue[i]) \in Seq(1..nextId) /\ Head(queue[i]) \in 1..nextId
      BY <3>1, Taken
    <3>3. queue' = [queue EXCEPT ![i] = Tail(queue[i])] /\ job' = [job EXCEPT ![i] = Head(queue[i])]
      BY <2>6 DEF Dequeue
    <3>4. queue' \in [Isolates -> Seq(1..nextId)] /\ job' \in [Isolates -> 0..nextId]
      BY <3>2, <3>3
    <3> QED
      BY <2>6, <3>4 DEF Dequeue
  <2>7. ASSUME NEW i \in Isolates, RunHandler(i) PROVE Typed'
    BY <2>7 DEF RunHandler
  <2>8. ASSUME NEW i \in Isolates, HandleResponse(i) PROVE Typed'
    <3>1. pending' \subseteq 1..nextId
      BY <2>8 DEF HandleResponse, Take
    <3>2. CASE Answered(i) \in pending
      <4>1. ipc' = [ipc EXCEPT ![i] = "answer"] /\ UNCHANGED <<job, reply>>
        BY <2>8, <3>2 DEF HandleResponse
      <4> QED
        BY <2>8, <3>1, <4>1 DEF HandleResponse
    <3>3. CASE Answered(i) \notin pending
      <4>1. /\ ipc' = [ipc EXCEPT ![i] = "idle"] /\ job' = [job EXCEPT ![i] = 0]
            /\ reply' = [reply EXCEPT ![i] = "empty"]
        BY <2>8, <3>3 DEF HandleResponse, Done
      <4> QED
        BY <2>8, <3>1, <4>1 DEF HandleResponse
    <3> QED
      BY <3>2, <3>3
  <2>9. ASSUME NEW i \in Isolates, Answer(i) PROVE Typed'
    <3>1. reply[i] \in Answers
      OBVIOUS
    <3>2. chan' \in [Ids -> Answers \cup {"none"}]
      BY <2>9, <3>1 DEF Answer
    <3>3. ipc' \in [Isolates -> IsolatePC] /\ job' \in [Isolates -> 0..nextId] /\ reply' \in [Isolates -> Answers]
      BY <2>9 DEF Answer, Done
    <3> QED
      BY <2>9, <3>2, <3>3 DEF Answer
  <2>10. ASSUME NEW i \in Isolates, Assign(i) PROVE Typed'
    BY <2>10 DEF Assign
  <2>11. ASSUME NEW i \in Isolates, Register(i) PROVE Typed'
    BY <2>11 DEF Register, CleanupPending
  <2>12. ASSUME NEW i \in Isolates, Unregister(i) PROVE Typed'
    <3>1. \A n \in 0..Len(queue[i]) : SubSeq(queue[i], 1, n) \in Seq(1..nextId)
      BY Prefix
    <3>2. queue' \in [Isolates -> Seq(1..nextId)]
      BY <2>12, <3>1 DEF Unregister
    <3> QED
      BY <2>12, <3>2 DEF Unregister
  <2>13. CASE UNCHANGED vars
    BY <2>13 DEF vars
  <2> QED
    BY <2>1, <2>2, <2>3, <2>4, <2>5, <2>6, <2>7, <2>8, <2>9, <2>10, <2>11, <2>12, <2>13
       DEF Next, Go, Loop
<1> QED
  BY <1>1, <1>2, PTL DEF Steps

(* The types of the calls, their channels and the isolates, always.        *)
THEOREM TypeCorrect == Spec => []TypeOK
<1>1. Typed => TypeOK
  BY DEF Typed
<1> QED
  BY <1>1, SpecSteps, TypedInvariant, PTL

---------------------------------------------------------------------------
(* A request that is pending, or that does not exist yet, has an empty     *)
(* channel.                                                                *)
EmptyWhilePending == \A id \in Ids : id \in pending \/ id > nextId => chan[id] = "none"

(* An isolate that is about to send holds a request of its own, which has  *)
(* left the pending map and whose channel is empty.                        *)
Holds(i) == ipc[i] = "answer"
TakenByOne ==
  /\ \A i \in Isolates : Holds(i) =>
        job[i] \in 1..nextId /\ job[i] \notin pending /\ chan[job[i]] = "none"
  /\ \A i, j \in Isolates : Holds(i) /\ Holds(j) /\ i # j => job[i] # job[j]

Inv == EmptyWhilePending /\ TakenByOne

LEMMA Preserved == Typed /\ Inv /\ [Next]_vars => Inv'
<1> SUFFICES ASSUME Typed, Inv, [Next]_vars PROVE Inv'
  OBVIOUS
<1> USE DEF Typed, Known, TypeOK, Inv, EmptyWhilePending, TakenByOne, Holds, Ids, Goto, IGoto, At, IAt,
            callers, isolates, callback
<1>1. ASSUME NEW c \in Callers, CreateRequest(c) PROVE Inv'
  BY <1>1, HandlerAssumption DEF CreateRequest, RequestId
<1>2. ASSUME NEW c \in Callers, Post(c) PROVE Inv'
  BY <1>2 DEF Post
<1>3. ASSUME NEW c \in Callers, Receive(c) PROVE Inv'
  BY <1>3 DEF Receive, Return
<1>4. ASSUME NEW c \in Callers, TimerFires(c) PROVE Inv'
  BY <1>4 DEF TimerFires
<1>5. ASSUME NEW c \in Callers, Expire(c) PROVE Inv'
  BY <1>5 DEF Expire, Forget, Return
<1>6. ASSUME NEW i \in Isolates, Dequeue(i) PROVE Inv'
  BY <1>6 DEF Dequeue
<1>7. ASSUME NEW i \in Isolates, RunHandler(i) PROVE Inv'
  BY <1>7 DEF RunHandler
<1>8. ASSUME NEW i \in Isolates, HandleResponse(i) PROVE Inv'
  <2>1. CASE job[i] \in pending
    <3>1. pending' = pending \ {job[i]} /\ ipc' = [ipc EXCEPT ![i] = "answer"]
      BY <1>8, <2>1 DEF HandleResponse, Take, Answered
    <3>2. UNCHANGED <<job, chan, nextId>>
      BY <1>8, <2>1 DEF HandleResponse, Answered
    <3>3. job[i] \in 1..nextId /\ job[i] \in Ids /\ chan[job[i]] = "none"
      BY <2>1, HandlerAssumption
    <3>4. EmptyWhilePending'
      BY <3>1, <3>2
    <3>5. TakenByOne'
      BY <2>1, <3>1, <3>2, <3>3
    <3> QED
      BY <3>4, <3>5
  <2>2. CASE job[i] \notin pending
    <3>1. pending' = pending /\ ipc' = [ipc EXCEPT ![i] = "idle"] /\ job' = [job EXCEPT ![i] = 0]
      BY <1>8, <2>2 DEF HandleResponse, Take, Answered, Done
    <3>2. UNCHANGED <<chan, nextId>>
      BY <1>8 DEF HandleResponse
    <3> QED
      BY <2>2, <3>1, <3>2
  <2> QED
    BY <2>1, <2>2
<1>9. ASSUME NEW i \in Isolates, Answer(i) PROVE Inv'
  <2>1. chan' = [chan EXCEPT ![job[i]] = reply[i]]
    BY <1>9 DEF Answer, Answered
  <2>2. ipc' = [ipc EXCEPT ![i] = "idle"] /\ job' = [job EXCEPT ![i] = 0] /\ UNCHANGED <<pending, nextId>>
    BY <1>9 DEF Answer, Done
  <2>3. ipc[i] = "answer"
    BY <1>9 DEF Answer
  <2> QED
    BY <2>1, <2>2, <2>3
<1>10. ASSUME NEW i \in Isolates, Assign(i) PROVE Inv'
  BY <1>10 DEF Assign
<1>11. ASSUME NEW i \in Isolates, Register(i) PROVE Inv'
  <2>1. /\ chan' = [id \in Ids |-> IF id \in pending /\ chan[id] = "none" THEN "empty" ELSE chan[id]]
        /\ pending' = {} /\ ipc' = [ipc EXCEPT ![i] = "assign"] /\ UNCHANGED <<nextId, job>>
    BY <1>11 DEF Register, CleanupPending
  <2>2. EmptyWhilePending'
    BY <2>1, HandlerAssumption
  <2>3. \A k \in Isolates : Holds(k)' => Holds(k) /\ job[k] \in Ids /\ chan'[job[k]] = "none"
    BY <2>1, HandlerAssumption
  <2>4. TakenByOne'
    BY <2>1, <2>3
  <2> QED
    BY <2>2, <2>4
<1>12. ASSUME NEW i \in Isolates, Unregister(i) PROVE Inv'
  BY <1>12 DEF Unregister
<1>13. CASE UNCHANGED vars
  BY <1>13 DEF vars
<1> QED
  BY <1>1, <1>2, <1>3, <1>4, <1>5, <1>6, <1>7, <1>8, <1>9, <1>10, <1>11, <1>12, <1>13
     DEF Next, Go, Loop

LEMMA Invariance == Steps => []Inv
<1>1. Init => Inv
  BY HandlerAssumption DEF Init, Inv, EmptyWhilePending, TakenByOne, Holds, Ids
<1> QED
  BY <1>1, Preserved, TypedInvariant, PTL DEF Steps

(* "ch <- data" of HandleResponse (ffi_utils.go:72) always finds room, for *)
(* any number of calls that time out, are answered and are swept by        *)
(* CleanupPending at the same time: SendFfiResponse never blocks Dart.     *)
THEOREM AnswerFindsRoom == Spec => []AnswerNeverBlocks
<1>1. Inv => AnswerNeverBlocks
  BY DEF Inv, TakenByOne, Holds, AnswerNeverBlocks
<1> QED
  BY <1>1, SpecSteps, Invariance, PTL

(* The response, the timeout and CleanupPending each take the request out  *)
(* of the pending map.                                                     *)
LEMMA NoLeakInvariance == Steps => []NoLeak
<1>1. Init => NoLeak
  BY DEF Init, NoLeak
<1>2. Typed /\ Inv /\ NoLeak /\ [Next]_vars => NoLeak'
  <2> SUFFICES ASSUME Typed, Inv, NoLeak, [Next]_vars PROVE NoLeak'
    OBVIOUS
  <2> USE DEF NoLeak, Goto, At
  <2>1. ASSUME NEW c \in Callers, CreateRequest(c) PROVE NoLeak'
    <3>1. pending' = pending \cup {RequestId} /\ cur' = [cur EXCEPT ![c] = RequestId]
          /\ pc' = [pc EXCEPT ![c] = "post"] /\ pc[c] = "idle"
      BY <2>1 DEF CreateRequest
    <3> QED
      BY <3>1 DEF Typed, TypeOK
  <2>2. ASSUME NEW c \in Callers, Post(c) PROVE NoLeak'
    BY <2>2 DEF Post, Typed, TypeOK
  <2>3. ASSUME NEW c \in Callers, Receive(c) PROVE NoLeak'
    <3>1. cur[c] \in 1..nextId /\ nextId \in 0..MaxCalls
      BY <2>3 DEF Receive, Typed, TypeOK, Known
    <3>2. cur[c] \notin pending
      BY <2>3, <3>1, HandlerAssumption DEF Receive, Inv, EmptyWhilePending, Ids
    <3> QED
      BY <2>3, <3>2 DEF Receive, Return, Typed, TypeOK
  <2>4. ASSUME NEW c \in Callers, TimerFires(c) PROVE NoLeak'
    BY <2>4 DEF TimerFires, Typed, TypeOK
  <2>5. ASSUME NEW c \in Callers, Expire(c) PROVE NoLeak'
    BY <2>5 DEF Expire, Forget, Return, Typed, TypeOK
  <2>6. ASSUME NEW i \in Isolates, Loop(i) \/ Register(i) \/ Unregister(i) PROVE NoLeak'
    <3>1. pending' \subseteq pending
      BY <2>6 DEF Loop, Dequeue, RunHandler, HandleResponse, Take, Answer, Assign, Register,
                  CleanupPending, Unregister
    <3>2. UNCHANGED <<pc, cur>>
      BY <2>6 DEF Loop, Dequeue, RunHandler, HandleResponse, Answer, Assign, Register, Unregister, callers
    <3> QED
      BY <3>1, <3>2
  <2>7. CASE UNCHANGED vars
    BY <2>7 DEF vars, callers
  <2> QED
    BY <2>1, <2>2, <2>3, <2>4, <2>5, <2>6, <2>7 DEF Next, Go
<1> QED
  BY <1>1, <1>2, TypedInvariant, Invariance, PTL DEF Steps

(* No request outlives its call in the pending map: the response, the      *)
(* timeout and CleanupPending each leave the map without it.               *)
THEOREM NothingLeaks == Spec => []NoLeak
  BY SpecSteps, NoLeakInvariance, PTL

---------------------------------------------------------------------------
(* What becomes of a request: until its call returns no outcome is         *)
(* recorded for it, the callers in a call have requests of their own, and  *)
(* the answer that a call has returned is the last trace of it: nothing on *)
(* the channel, no isolate about to send.                                  *)
Fate ==
  /\ \A id \in Ids : id \in pending \/ id > nextId => outcome[id] = "none"
  /\ \A c \in Callers : pc[c] # "idle" => outcome[cur[c]] = "none"
  /\ \A c, d \in Callers : pc[c] # "idle" /\ pc[d] # "idle" /\ c # d => cur[c] # cur[d]
  /\ \A id \in Ids : outcome[id] \in Answers =>
       chan[id] = "none" /\ \A i \in Isolates : Holds(i) => job[i] # id

LEMMA FatePreserved == Typed /\ Inv /\ Fate /\ [Next]_vars => Fate'
<1> SUFFICES ASSUME Typed, Inv, Fate, [Next]_vars PROVE Fate'
  OBVIOUS
<1>a. Ids = 1..MaxCalls /\ MaxCalls \in Nat /\ nextId \in 0..MaxCalls /\ pending \subseteq Ids
  BY HandlerAssumption DEF Ids, Typed, TypeOK
<1>b. /\ chan \in [Ids -> Answers \cup {"none"}]
      /\ outcome \in [Ids -> Outcomes \cup {"none"}]
      /\ pc \in [Callers -> CallerPC] /\ cur \in [Callers -> 0..nextId]
      /\ ipc \in [Isolates -> IsolatePC] /\ job \in [Isolates -> 0..nextId]
      /\ reply \in [Isolates -> Answers]
  BY DEF Typed, TypeOK
<1>c. "none" \notin Answers /\ "timeout" \notin Answers
  BY DEF Answers
<1>d. \A c \in Callers : pc[c] # "idle" => cur[c] \in 1..nextId /\ cur[c] \in Ids
  BY <1>a DEF Typed, Known
<1> USE DEF Fate, Holds
<1>1. ASSUME NEW c \in Callers, CreateRequest(c) PROVE Fate'
  <2>1. /\ nextId' = nextId + 1 /\ pending' = pending \cup {nextId'}
        /\ cur' = [cur EXCEPT ![c] = nextId'] /\ pc' = [pc EXCEPT ![c] = "post"]
        /\ UNCHANGED <<chan, outcome, ipc, job>> /\ pc[c] = "idle"
    BY <1>1 DEF CreateRequest, RequestId, Goto, At, isolates
  <2>2. nextId' \in Ids /\ outcome[nextId'] = "none"
    BY <1>1, <1>a, <2>1 DEF CreateRequest
  <2>3. \A d \in Callers : d # c => pc'[d] = pc[d] /\ cur'[d] = cur[d]
    BY <2>1, <1>b
  <2>4. pc'[c] = "post" /\ cur'[c] = nextId'
    BY <2>1, <1>b
  <2>5. \A d \in Callers : pc[d] # "idle" => cur[d] # nextId'
    BY <2>1, <1>a, <1>d
  <2> QED
    BY <2>1, <2>2, <2>3, <2>4, <2>5, <1>a
<1>2. ASSUME NEW c \in Callers, Post(c) \/ TimerFires(c) PROVE Fate'
  <2>1. \A d \in Callers : pc'[d] # "idle" => pc[d] # "idle"
    BY <1>2, <1>b DEF Post, TimerFires, Goto, At
  <2>2. UNCHANGED <<nextId, pending, chan, outcome, cur, ipc, job>>
    BY <1>2 DEF Post, TimerFires, isolates
  <2> QED
    BY <2>1, <2>2
<1>3. ASSUME NEW c \in Callers, Receive(c) PROVE Fate'
  <2>1. /\ chan' = [chan EXCEPT ![cur[c]] = "none"]
        /\ outcome' = [outcome EXCEPT ![cur[c]] = chan[cur[c]]]
        /\ pc' = [pc EXCEPT ![c] = "idle"] /\ UNCHANGED <<nextId, pending, cur, ipc, job>>
        /\ pc[c] # "idle" /\ chan[cur[c]] # "none"
    BY <1>3 DEF Receive, Return, Goto, At, isolates
  <2>2. cur[c] \in Ids /\ cur[c] \notin pending /\ ~(cur[c] > nextId)
    BY <2>1, <1>d, <1>a DEF Inv, EmptyWhilePending
  <2>3. \A i \in Isolates : Holds(i) => job[i] # cur[c]
    BY <2>1 DEF Inv, TakenByOne
  <2>4. \A d \in Callers : pc'[d] # "idle" => d # c /\ pc[d] # "idle"
    BY <2>1, <1>b
  <2>5. \A id \in Ids : id # cur[c] => chan'[id] = chan[id] /\ outcome'[id] = outcome[id]
    BY <2>1, <1>b
  <2>6. chan'[cur[c]] = "none"
    BY <2>1, <2>2, <1>b
  <2> QED
    BY <2>1, <2>2, <2>3, <2>4, <2>5, <2>6, <1>d
<1>4. ASSUME NEW c \in Callers, Expire(c) PROVE Fate'
  <2>1. /\ pending' = pending \ {cur[c]} /\ outcome' = [outcome EXCEPT ![cur[c]] = "timeout"]
        /\ pc' = [pc EXCEPT ![c] = "idle"] /\ UNCHANGED <<nextId, chan, cur, ipc, job>>
        /\ pc[c] # "idle"
    BY <1>4 DEF Expire, Forget, Return, Goto, At, isolates
  <2>2. cur[c] \in Ids /\ ~(cur[c] > nextId)
    BY <2>1, <1>d, <1>a
  <2>3. \A d \in Callers : pc'[d] # "idle" => d # c /\ pc[d] # "idle"
    BY <2>1, <1>b
  <2>4. \A id \in Ids : id # cur[c] => outcome'[id] = outcome[id]
    BY <2>1, <1>b
  <2>5. outcome'[cur[c]] = "timeout"
    BY <2>1, <2>2, <1>b
  <2> QED
    BY <2>1, <2>2, <2>3, <2>4, <2>5, <1>c, <1>d
<1>5. ASSUME NEW i \in Isolates, HandleResponse(i) PROVE Fate'
  <2>1. pending' = pending \ {job[i]} /\ UNCHANGED <<nextId, chan, outcome, pc, cur>>
    BY <1>5 DEF HandleResponse, Take, Answered, callers
  <2>2. CASE job[i] \in pending
    <3>1. ipc' = [ipc EXCEPT ![i] = "answer"] /\ job' = job
      BY <1>5, <2>2 DEF HandleResponse, Answered, IGoto
    <3>2. outcome[job[i]] = "none"
      BY <2>2, <1>a
    <3>3. \A k \in Isolates : Holds(k)' => k = i \/ Holds(k)
      BY <3>1, <1>b
    <3> QED
      BY <2>1, <3>1, <3>2, <3>3, <1>c
  <2>3. CASE job[i] \notin pending
    <3>1. ipc' = [ipc EXCEPT ![i] = "idle"] /\ job' = [job EXCEPT ![i] = 0]
      BY <1>5, <2>3 DEF HandleResponse, Answered, IGoto, Done
    <3>2. \A k \in Isolates : Holds(k)' => k # i /\ Holds(k) /\ job'[k] = job[k]
      BY <3>1, <1>b
    <3> QED
      BY <2>1, <3>2
  <2> QED
    BY <2>2, <2>3
<1>6. ASSUME NEW i \in Isolates, Answer(i) PROVE Fate'
  <2>1. /\ chan' = [chan EXCEPT ![job[i]] = reply[i]] /\ Holds(i)
        /\ ipc' = [ipc EXCEPT ![i] = "idle"] /\ job' = [job EXCEPT ![i] = 0]
        /\ UNCHANGED <<nextId, pending, outcome, pc, cur>>
    BY <1>6 DEF Answer, Answered, Done, IGoto, IAt, callers
  <2>2. \A k \in Isolates : Holds(k)' => k # i /\ Holds(k) /\ job'[k] = job[k]
    BY <2>1, <1>b
  <2>3. \A id \in Ids : outcome[id] \in Answers => job[i] # id
    BY <2>1
  <2>4. \A id \in Ids : outcome[id] \in Answers => chan'[id] = chan[id]
    BY <2>1, <2>3, <1>b
  <2> QED
    BY <2>1, <2>2, <2>4
<1>7. ASSUME NEW i \in Isolates, Register(i) PROVE Fate'
  <2>1. /\ chan' = [id \in Ids |-> IF id \in pending /\ chan[id] = "none" THEN "empty" ELSE chan[id]]
        /\ pending' = {} /\ ipc' = [ipc EXCEPT ![i] = "assign"]
        /\ UNCHANGED <<nextId, outcome, pc, cur, job>>
    BY <1>7 DEF Register, CleanupPending, IGoto, callers
  <2>2. \A k \in Isolates : Holds(k)' => Holds(k)
    BY <2>1, <1>b
  <2>3. \A id \in Ids : outcome[id] \in Answers => chan'[id] = chan[id]
    BY <2>1, <1>c
  <2> QED
    BY <2>1, <2>2, <2>3
<1>8. ASSUME NEW i \in Isolates, Dequeue(i) \/ RunHandler(i) \/ Assign(i) \/ Unregister(i) PROVE Fate'
  <2>1. \A k \in Isolates : Holds(k)' => Holds(k) /\ job'[k] = job[k]
    BY <1>8, <1>b DEF Dequeue, RunHandler, Assign, Unregister, IGoto, IAt
  <2>2. UNCHANGED <<nextId, pending, chan, outcome, pc, cur>>
    BY <1>8 DEF Dequeue, RunHandler, Assign, Unregister, callers
  <2> QED
    BY <2>1, <2>2
<1>9. CASE UNCHANGED vars
  BY <1>9 DEF vars, callers, isolates
<1> QED
  BY <1>1, <1>2, <1>3, <1>4, <1>5, <1>6, <1>7, <1>8, <1>9 DEF Next, Go, Loop

LEMMA FateInvariance == Steps => []Fate
<1>1. Init => Fate
  BY DEF Init, Fate, Holds, Answers
<1> QED
  BY <1>1, FatePreserved, TypedInvariant, Invariance, PTL DEF Steps

(* The answer of a request can be read off where it is: on the channel, in *)
(* the hands of the isolate that holds the request, or with the caller.    *)
GivenByCases ==
  \A id \in Ids :
    /\ chan[id] # "none" => Given(id) = chan[id]
    /\ \A i \in Isolates : chan[id] = "none" /\ Holds(i) /\ job[i] = id => Given(id) = reply[i]
    /\ chan[id] = "none" /\ (\A i \in Isolates : ~(Holds(i) /\ job[i] = id)) =>
         Given(id) = IF outcome[id] \in Answers THEN outcome[id] ELSE "none"

LEMMA GivenFacts == Inv => GivenByCases
<1> SUFFICES ASSUME Inv, NEW id \in Ids
             PROVE  /\ chan[id] # "none" => Given(id) = chan[id]
                    /\ \A i \in Isolates : chan[id] = "none" /\ Holds(i) /\ job[i] = id => Given(id) = reply[i]
                    /\ chan[id] = "none" /\ (\A i \in Isolates : ~(Holds(i) /\ job[i] = id)) =>
                         Given(id) = IF outcome[id] \in Answers THEN outcome[id] ELSE "none"
  BY DEF GivenByCases
<1>1. chan[id] # "none" => Given(id) = chan[id]
  BY DEF Given
<1>2. ASSUME NEW i \in Isolates, chan[id] = "none", Holds(i), job[i] = id PROVE Given(id) = reply[i]
  <2> DEFINE It == CHOOSE j \in Isolates : ipc[j] = "answer" /\ job[j] = id
  <2>1. It \in Isolates /\ ipc[It] = "answer" /\ job[It] = id
    BY <1>2 DEF Holds
  <2>2. It = i
    BY <1>2, <2>1 DEF Inv, TakenByOne, Holds
  <2>3. Given(id) = reply[It]
    BY <1>2 DEF Given, Holds
  <2> QED
    BY <2>2, <2>3
<1>3. ASSUME chan[id] = "none", \A i \in Isolates : ~(Holds(i) /\ job[i] = id)
      PROVE  Given(id) = IF outcome[id] \in Answers THEN outcome[id] ELSE "none"
  BY <1>3 DEF Given, Holds
<1> QED
  BY <1>1, <1>2, <1>3

(* A step that gives some pending requests their answer and leaves the     *)
(* others alone is an Answer of DartCall.                                  *)
LEMMA AnswerStep ==
  ASSUME Typed, GivenByCases', Typed', UNCHANGED <<nextId, outcome>>,
         \A id \in Ids : Given(id)' = Given(id) \/ (id \in 1..nextId /\ Given(id) = "none")
  PROVE  Abstract!Next
<1> DEFINE f == [id \in Ids |-> Given(id)]'
<1>1. f = [id \in Ids |-> Given(id)']
  OBVIOUS
<1>2. ASSUME NEW id \in Ids PROVE Given(id)' \in Answers \cup {"none"}
  <2>1. chan'[id] \in Answers \cup {"none"} /\ \A i \in Isolates : reply'[i] \in Answers
    BY DEF Typed, TypeOK
  <2>2. CASE chan'[id] # "none"
    BY <2>1, <2>2 DEF GivenByCases
  <2>3. CASE chan'[id] = "none" /\ \E i \in Isolates : Holds(i)' /\ job'[i] = id
    BY <2>1, <2>3 DEF GivenByCases
  <2>4. CASE chan'[id] = "none" /\ \A i \in Isolates : ~(Holds(i)' /\ job'[i] = id)
    BY <2>4 DEF GivenByCases
  <2> QED
    BY <2>2, <2>3, <2>4
<1>3. f \in [Ids -> Answers \cup {"none"}]
  BY <1>1, <1>2
<1>4. Abstract!Answer(f)
  BY <1>1 DEF Abstract!Answer
<1> QED
  BY <1>3, <1>4 DEF Abstract!Next

(* A step that leaves every answer, the outcomes and the ids alone is no   *)
(* step of DartCall.                                                       *)
LEMMA NoStep ==
  ASSUME UNCHANGED <<nextId, outcome>>, \A id \in Ids : Given(id)' = Given(id)
  PROVE  UNCHANGED Abstract!vars
BY DEF Abstract!vars

LEMMA StepImplements ==
  Typed /\ Typed' /\ Inv /\ Inv' /\ Fate /\ GivenByCases /\ GivenByCases' /\ [Next]_vars => [Abstract!Next]_(Abstract!vars)
<1> SUFFICES ASSUME Typed, Typed', Inv, Inv', Fate, GivenByCases, GivenByCases', [Next]_vars
             PROVE  Abstract!Next \/ UNCHANGED Abstract!vars
  OBVIOUS
<1>a. Ids = 1..MaxCalls /\ MaxCalls \in Nat /\ nextId \in 0..MaxCalls /\ pending \subseteq 1..nextId
      /\ 1..nextId \subseteq Ids
  BY HandlerAssumption DEF Ids, Typed, TypeOK
<1>b. /\ chan \in [Ids -> Answers \cup {"none"}]
      /\ outcome \in [Ids -> Outcomes \cup {"none"}]
      /\ pc \in [Callers -> CallerPC] /\ cur \in [Callers -> 0..nextId]
      /\ ipc \in [Isolates -> IsolatePC] /\ job \in [Isolates -> 0..nextId]
      /\ reply \in [Isolates -> Answers]
  BY DEF Typed, TypeOK
<1>c. "none" \notin Answers /\ "timeout" \notin Answers
  BY DEF Answers
<1>d. \A c \in Callers : pc[c] # "idle" => cur[c] \in 1..nextId
  BY <1>a DEF Typed, Known
(* What a pending request shows: no answer yet. *)
<1>e. \A id \in pending : Given(id) = "none"
  BY <1>a, <1>c DEF GivenByCases, Inv, EmptyWhilePending, TakenByOne, Fate
(* Steps that change no channel and no outcome, and no isolate that holds a request. *)
<1>f. ASSUME UNCHANGED <<chan, outcome>>,
             \A i \in Isolates : Holds(i)' <=> Holds(i),
             \A i \in Isolates : Holds(i) => job'[i] = job[i] /\ reply'[i] = reply[i]
      PROVE  \A id \in Ids : Given(id)' = Given(id)
  BY <1>f DEF GivenByCases
<1>1. ASSUME NEW c \in Callers, CreateRequest(c) PROVE Abstract!Next
  <2>1. nextId' = nextId + 1 /\ nextId < MaxCalls
        /\ UNCHANGED <<chan, outcome, ipc, job, reply>>
    BY <1>1 DEF CreateRequest, RequestId, isolates
  <2>2. \A id \in Ids : Given(id)' = Given(id)
    BY <2>1, <1>f DEF Holds
  <2>3. nextId' \in Ids /\ nextId' \notin 1..nextId /\ 1..nextId' = (1..nextId) \cup {nextId'}
    BY <2>1, <1>a
  <2>4. Abstract!Begin(nextId')
    BY <2>1, <2>2, <2>3 DEF Abstract!Begin
  <2> QED
    BY <2>3, <2>4 DEF Abstract!Next
<1>2. ASSUME NEW c \in Callers, Post(c) \/ TimerFires(c) PROVE UNCHANGED Abstract!vars
  <2>1. UNCHANGED <<nextId, chan, outcome, ipc, job, reply>>
    BY <1>2 DEF Post, TimerFires, isolates
  <2>2. \A id \in Ids : Given(id)' = Given(id)
    BY <2>1, <1>f DEF Holds
  <2> QED
    BY <2>1, <2>2, NoStep
<1>3. ASSUME NEW c \in Callers, Receive(c) PROVE Abstract!Next
  <2>1. /\ chan' = [chan EXCEPT ![cur[c]] = "none"]
        /\ outcome' = [outcome EXCEPT ![cur[c]] = chan[cur[c]]]
        /\ UNCHANGED <<nextId, ipc, job, reply>>
        /\ pc[c] # "idle" /\ chan[cur[c]] # "none"
    BY <1>3 DEF Receive, Return, At, isolates
  <2>2. cur[c] \in Ids /\ cur[c] \in 1..nextId /\ outcome[cur[c]] = "none"
    BY <2>1, <1>d, <1>a DEF Fate
  <2>3. Given(cur[c]) = chan[cur[c]] /\ chan[cur[c]] \in Answers
    BY <2>1, <2>2, <1>b DEF GivenByCases
  <2>4. \A i \in Isolates : ~(Holds(i) /\ job[i] = cur[c])
    BY <2>1 DEF Inv, TakenByOne
  <2>5. chan'[cur[c]] = "none" /\ outcome'[cur[c]] = chan[cur[c]]
    BY <2>1, <2>2, <1>b
  <2>6. \A id \in Ids : id = cur[c] => Given(id)' = Given(id)
    BY <2>1, <2>3, <2>4, <2>5 DEF GivenByCases, Holds
  <2>7. \A id \in Ids : id # cur[c] => chan'[id] = chan[id] /\ outcome'[id] = outcome[id]
    BY <2>1, <1>b
  <2>8. \A id \in Ids : id # cur[c] => Given(id)' = Given(id)
    BY <2>1, <2>7 DEF GivenByCases, Holds
  <2>9. \A id \in Ids : Given(id)' = Given(id)
    BY <2>6, <2>8
  <2>10. Abstract!Return(cur[c])
    BY <2>1, <2>2, <2>3, <2>9, <1>c DEF Abstract!Return
  <2> QED
    BY <2>2, <2>10 DEF Abstract!Next
<1>4. ASSUME NEW c \in Callers, Expire(c) PROVE Abstract!Next
  <2>1. /\ outcome' = [outcome EXCEPT ![cur[c]] = "timeout"]
        /\ UNCHANGED <<nextId, chan, ipc, job, reply>> /\ pc[c] # "idle"
    BY <1>4 DEF Expire, Return, At, isolates
  <2>2. cur[c] \in Ids /\ cur[c] \in 1..nextId /\ outcome[cur[c]] = "none"
    BY <2>1, <1>d, <1>a DEF Fate
  <2>3. \A id \in Ids : IF outcome'[id] \in Answers THEN outcome[id] = outcome'[id] ELSE outcome[id] \notin Answers
    BY <2>1, <2>2, <1>b, <1>c
  <2>4. \A id \in Ids : Given(id)' = Given(id)
    BY <2>1, <2>3 DEF GivenByCases, Holds
  <2>5. Abstract!Return(cur[c])
    BY <2>1, <2>2, <2>4 DEF Abstract!Return
  <2> QED
    BY <2>2, <2>5 DEF Abstract!Next
<1>5. ASSUME NEW i \in Isolates, HandleResponse(i) PROVE Abstract!Next \/ UNCHANGED Abstract!vars
  <2>1. UNCHANGED <<nextId, chan, outcome>> /\ ~Holds(i)
    BY <1>5 DEF HandleResponse, IAt, Holds
  <2>2. CASE job[i] \in pending
    <3>1. ipc' = [ipc EXCEPT ![i] = "answer"] /\ UNCHANGED <<job, reply>>
      BY <1>5, <2>2 DEF HandleResponse, Answered, IGoto
    <3>2. \A id \in Ids : id # job[i] => Given(id)' = Given(id)
      BY <2>1, <3>1, <1>b DEF GivenByCases, Holds
    <3>3. \A id \in Ids : Given(id)' = Given(id) \/ (id \in 1..nextId /\ Given(id) = "none")
      BY <3>2, <2>2, <1>a, <1>e
    <3> QED
      BY <2>1, <3>3, AnswerStep
  <2>3. CASE job[i] \notin pending
    <3>1. /\ ipc' = [ipc EXCEPT ![i] = "idle"] /\ job' = [job EXCEPT ![i] = 0]
          /\ reply' = [reply EXCEPT ![i] = "empty"]
      BY <1>5, <2>3 DEF HandleResponse, Answered, IGoto, Done
    <3>2. \A k \in Isolates : (Holds(k)' <=> Holds(k)) /\ (Holds(k) => job'[k] = job[k] /\ reply'[k] = reply[k])
      BY <2>1, <3>1, <1>b DEF Holds
    <3>3. \A id \in Ids : Given(id)' = Given(id)
      BY <2>1, <3>2, <1>f
    <3> QED
      BY <2>1, <3>3, NoStep
  <2> QED
    BY <2>2, <2>3
<1>6. ASSUME NEW i \in Isolates, Answer(i) PROVE UNCHANGED Abstract!vars
  <2>1. /\ chan' = [chan EXCEPT ![job[i]] = reply[i]] /\ Holds(i) /\ chan[job[i]] = "none"
        /\ ipc' = [ipc EXCEPT ![i] = "idle"] /\ job' = [job EXCEPT ![i] = 0]
        /\ reply' = [reply EXCEPT ![i] = "empty"] /\ UNCHANGED <<nextId, outcome>>
    BY <1>6 DEF Answer, Answered, Done, IGoto, IAt, Holds
  <2>2. job[i] \in Ids /\ reply[i] \in Answers
    BY <2>1, <1>a, <1>b DEF Inv, TakenByOne
  <2>3. \A k \in Isolates : k # i =>
          (Holds(k)' <=> Holds(k)) /\ job'[k] = job[k] /\ reply'[k] = reply[k]
    BY <2>1, <1>b DEF Holds
  <2>4. ~Holds(i)'
    BY <2>1, <1>b DEF Holds
  <2>5. chan'[job[i]] = reply[i] /\ \A id \in Ids : id # job[i] => chan'[id] = chan[id]
    BY <2>1, <2>2, <1>b
  <2>6. \A id \in Ids : id = job[i] => Given(id)' = Given(id)
    BY <2>1, <2>2, <2>5, <1>c DEF GivenByCases
  <2>7. \A id \in Ids : id # job[i] => Given(id)' = Given(id)
    BY <2>1, <2>3, <2>4, <2>5 DEF GivenByCases
  <2> QED
    BY <2>1, <2>6, <2>7, NoStep
<1>7. ASSUME NEW i \in Isolates, Register(i) PROVE Abstract!Next
  <2>1. /\ chan' = [id \in Ids |-> IF id \in pending /\ chan[id] = "none" THEN "empty" ELSE chan[id]]
        /\ ipc' = [ipc EXCEPT ![i] = "assign"] /\ ipc[i] = "idle"
        /\ UNCHANGED <<nextId, outcome, job, reply>>
    BY <1>7 DEF Register, CleanupPending, IGoto, IAt
  <2>2. \A k \in Isolates : Holds(k)' <=> Holds(k)
    BY <2>1, <1>b DEF Holds
  <2>3. \A id \in Ids : id \notin pending => chan'[id] = chan[id]
    BY <2>1
  <2>4. \A id \in Ids : id \notin pending => Given(id)' = Given(id)
    BY <2>1, <2>2, <2>3 DEF GivenByCases
  <2>5. \A id \in Ids : Given(id)' = Given(id) \/ (id \in 1..nextId /\ Given(id) = "none")
    BY <2>4, <1>a, <1>e
  <2> QED
    BY <2>1, <2>5, AnswerStep
<1>8. ASSUME NEW i \in Isolates, Dequeue(i) \/ RunHandler(i) \/ Assign(i) \/ Unregister(i)
      PROVE  UNCHANGED Abstract!vars
  <2>1. UNCHANGED <<nextId, chan, outcome>>
    BY <1>8 DEF Dequeue, RunHandler, Assign, Unregister
  <2>2. \A k \in Isolates : (Holds(k)' <=> Holds(k)) /\ (Holds(k) => job'[k] = job[k] /\ reply'[k] = reply[k])
    BY <1>8, <1>b DEF Dequeue, RunHandler, Assign, Unregister, IGoto, IAt, Holds
  <2>3. \A id \in Ids : Given(id)' = Given(id)
    BY <2>1, <2>2, <1>f
  <2> QED
    BY <2>1, <2>3, NoStep
<1>9. CASE UNCHANGED vars
  <2>1. UNCHANGED <<nextId, chan, outcome, ipc, job, reply>>
    BY <1>9 DEF vars, isolates
  <2>2. \A id \in Ids : Given(id)' = Given(id)
    BY <2>1, <1>f DEF Holds
  <2> QED
    BY <2>1, <2>2, NoStep
<1> QED
  BY <1>1, <1>2, <1>3, <1>4, <1>5, <1>6, <1>7, <1>8, <1>9 DEF Next, Go, Loop

LEMMA StepsImplement == Steps => ImplementsDartCall
<1>1. Init => Abstract!Init
  <2> SUFFICES ASSUME Init PROVE Abstract!Init
    OBVIOUS
  <2>1. 1..nextId = {}
    BY DEF Init
  <2>2. \A id \in Ids : Given(id) = "none"
    BY DEF Init, Given, Answers
  <2> QED
    BY <2>1, <2>2 DEF Init, Abstract!Init
<1>2. Typed /\ Typed' /\ Inv /\ Inv' /\ Fate /\ [Next]_vars => [Abstract!Next]_(Abstract!vars)
  <2>1. Inv => GivenByCases
    BY GivenFacts
  <2>2. Inv' => GivenByCases'
    BY GivenFacts, PTL
  <2> QED
    BY <2>1, <2>2, StepImplements
<1> QED
  BY <1>1, <1>2, TypedInvariant, Invariance, FateInvariance, PTL
  DEF Steps, ImplementsDartCall, Abstract!Spec

(* The handler keeps the promise of DartCall: a call returns once, with a  *)
(* timeout or with the one answer that Dart gave to its own request,       *)
(* however responses, timeouts and registrations interleave                *)
(* (ffi_utils.go:33-106).                                                  *)
THEOREM HandlerImplementsDartCall == Spec => ImplementsDartCall
  BY SpecSteps, StepsImplement, PTL

---------------------------------------------------------------------------
(* The pool.  Its workers call Dart as any caller of RequestHandler may,   *)
(* so what is proved of the calls holds under a pool as well.              *)
USE PoolAssumption

LEMMA PoolUses == [PoolNext]_allVars => [Next]_vars
<1>1. UNCHANGED allVars => UNCHANGED vars
  BY DEF allVars
<1>2. Send \/ MainHandles \/ Collect => UNCHANGED vars
  BY DEF Send, MainHandles, HandleAnswer, Collect
<1>3. ASSUME NEW r \in Id, RequestTimesOut(r) PROVE UNCHANGED vars
  BY <1>3 DEF RequestTimesOut
<1>4. ASSUME NEW w \in Callers, TakeMessage(w) \/ PostAnswer(w) PROVE UNCHANGED vars
  BY <1>4 DEF TakeMessage, PostAnswer
<1>5. ASSUME NEW w \in Callers, CallsDart(w) \/ Goroutine(w) PROVE Next
  BY <1>5 DEF CallsDart, Goroutine, Next
<1>6. ASSUME NEW w \in Callers, Go(w) PROVE Next
  BY <1>6 DEF Next
<1>7. ASSUME NEW i \in Isolates, Loop(i) \/ Listens(i) PROVE Next
  BY <1>7 DEF Listens, Next
<1>8. QED
  BY <1>1, <1>2, <1>3, <1>4, <1>5, <1>6, <1>7 DEF PoolNext, Worker

LEMMA PoolSteps == PoolSpec => Steps
<1>1. PoolInit => Init
  BY DEF PoolInit
<1>2. QED
  BY <1>1, PoolUses, PTL DEF PoolSpec, Steps

(* With a pool, too, the answer of Dart never blocks the isolate that      *)
(* gives it (ffi_utils.go:72).                                             *)
THEOREM PoolAnswersFindRoom == PoolSpec => []AnswerNeverBlocks
<1>1. Inv => AnswerNeverBlocks
  BY DEF Inv, TakenByOne, Holds, AnswerNeverBlocks
<1> QED
  BY <1>1, PoolSteps, Invariance, PTL

(* With a pool, too, no request outlives its call in the pending map.      *)
THEOREM PoolLeaksNothing == PoolSpec => []NoLeak
  BY PoolSteps, NoLeakInvariance, PTL

(* With a pool, too, a call into Dart returns once, with a timeout or with *)
(* the one answer of its own request (ffi_utils.go:33-106).                *)
THEOREM PoolImplementsDartCall == PoolSpec => ImplementsDartCall
  BY PoolSteps, StepsImplement, PTL

(* Somebody has the fewest pending requests, and is the first to.          *)
LEMMA LeastLoadedWorker ==
  ASSUME load \in [Callers -> Nat]
  PROVE  LeastLoaded \in Callers
<1> DEFINE R == OpToRel(<, Nat)
<1>1. IsWellFoundedOn(R, Nat)
  BY NatLessThanWellFounded
<1>2. \A x, y \in Nat : x < y => <<x, y>> \in R
  BY DEF OpToRel
<1> HIDE DEF R
<1>3. Callers \subseteq Nat /\ Callers # {}
  OBVIOUS
<1>4. PICK n \in {load[w] : w \in Callers} :
        \A m \in {load[w] : w \in Callers} : ~ (<<m, n>> \in R)
  <2>1. {load[w] : w \in Callers} \subseteq Nat /\ {load[w] : w \in Callers} # {}
    BY <1>3
  <2>2. QED
    BY <1>1, <2>1, WFMin
<1>5. PICK w \in {v \in Callers : load[v] = n} :
        \A v \in {u \in Callers : load[u] = n} : ~ (<<v, w>> \in R)
  <2>1. {v \in Callers : load[v] = n} \subseteq Nat /\ {v \in Callers : load[v] = n} # {}
    BY <1>3
  <2>2. QED
    BY <1>1, <2>1, WFMin
<1>6. \A v \in Callers : load[w] < load[v] \/ (load[w] = load[v] /\ w <= v)
  <2> SUFFICES ASSUME NEW v \in Callers
               PROVE  load[w] < load[v] \/ (load[w] = load[v] /\ w <= v)
    OBVIOUS
  <2>1. load[w] = n /\ w \in Nat /\ v \in Nat /\ load[v] \in Nat /\ n \in Nat
    BY <1>3, <1>5
  <2>2. ~ (load[v] < n)
    BY <1>2, <1>4, <2>1
  <2>3. load[v] = n => ~ (v < w)
    BY <1>2, <1>5, <2>1
  <2>4. QED
    BY <2>1, <2>2, <2>3
<1>7. QED
  BY <1>5, <1>6 DEF LeastLoaded

(* What an id of a request goes through: the mailbox of one worker, the    *)
(* export of that worker, the answer on its way, and a completed request.  *)
PoolType ==
  /\ next \in 1 .. MaxRequests + 1
  /\ request \in [Id -> {"new", "waiting", "timedOut"} \cup Results]
  /\ answer \in [Id -> Results \cup {"none"}]
  /\ worker \in [Id -> Callers \cup {0}] /\ load \in [Callers -> Int]
  /\ mailbox \in [Callers -> Seq(Id)]
  /\ busy \in [Callers -> Id \cup {0}]
  /\ posted \subseteq [id : Id, result : Results] /\ IsFiniteSet(posted)
  /\ heap \in Int /\ lists \in Int

InMailbox ==
  /\ \A w \in Callers : \A i \in DOMAIN mailbox[w] :
       /\ mailbox[w][i] < next /\ answer[mailbox[w][i]] = "none"
       /\ \A v \in Callers : busy[v] # mailbox[w][i]
  /\ \A w, v \in Callers : \A i \in DOMAIN mailbox[w], j \in DOMAIN mailbox[v] :
       mailbox[w][i] = mailbox[v][j] => w = v /\ i = j

InWorker ==
  \A w \in Callers : busy[w] # 0 =>
    /\ busy[w] < next /\ answer[busy[w]] = "none"
    /\ \A v \in Callers : busy[v] = busy[w] => v = w

OnTheWay ==
  /\ \A a \in posted : /\ a.id < next /\ answer[a.id] = a.result
                       /\ request[a.id] \in {"waiting", "timedOut"}
  /\ \A r \in Id : request[r] = "waiting" /\ answer[r] # "none" =>
       \E a \in posted : a.id = r

Completions ==
  /\ \A r \in Id : r >= next => request[r] = "new" /\ answer[r] = "none" /\ worker[r] = 0
  /\ \A r \in Id : r < next => request[r] # "new"
  /\ \A r \in Id : request[r] \in Results => answer[r] = request[r]

(* The replies that nobody will free came after their request had timed    *)
(* out.                                                                    *)
Lost == {r \in Id : /\ request[r] = "timedOut" /\ answer[r] = "data"
                    /\ \A a \in posted : a.id # r}
HeapCounts == heap = lists + Flying + Cardinality(Lost)

PoolInv == PoolType /\ InMailbox /\ InWorker /\ OnTheWay /\ Completions

LEMMA IdFacts == Id \subseteq Nat /\ IsFiniteSet(Id) /\ 0 \notin Id
<1>1. IsFiniteSet(1 .. MaxRequests)
  BY FS_Interval
<1>2. QED
  BY <1>1 DEF Id

LEMMA PoolInitInv == PoolInit => PoolInv
<1> SUFFICES ASSUME PoolInit PROVE PoolInv
  OBVIOUS
<1>1. IsFiniteSet({})
  BY FS_EmptySet
<1>2. \A r \in Id : r >= 1
  BY DEF Id
<1>3. PoolType
  BY <1>1 DEF PoolInit, PoolType
<1>4. InMailbox /\ InWorker
  BY DEF PoolInit, InMailbox, InWorker
<1>5. OnTheWay /\ Completions
  BY <1>2 DEF PoolInit, OnTheWay, Completions, Results
<1>6. QED
  BY <1>3, <1>4, <1>5 DEF PoolInv

(* Steps of the calls, and those that only call Dart.                      *)
LEMMA PoolQuiet ==
  ASSUME PoolInv, UNCHANGED <<requests, queues, busy, answer, memory>>
  PROVE  PoolInv'
<1>1. UNCHANGED <<next, request, worker, load, mailbox, posted, busy, answer, heap, lists>>
  BY DEF requests, queues, memory
<1>2. PoolType'
  BY <1>1 DEF PoolInv, PoolType
<1>3. InMailbox' /\ InWorker'
  BY <1>1 DEF PoolInv, InMailbox, InWorker
<1>4. OnTheWay' /\ Completions'
  BY <1>1 DEF PoolInv, OnTheWay, Completions
<1>5. QED
  BY <1>2, <1>3, <1>4 DEF PoolInv

LEMMA LoadsAreNatural ==
  ASSUME LoadCounts
  PROVE  \A w \in Callers : load[w] \in Nat /\ IsFiniteSet({r \in Id : worker[r] = w})
<1> SUFFICES ASSUME NEW w \in Callers
             PROVE  load[w] \in Nat /\ IsFiniteSet({r \in Id : worker[r] = w})
  OBVIOUS
<1>1. IsFiniteSet({r \in Id : worker[r] = w})
  BY IdFacts, FS_Subset
<1>2. QED
  BY <1>1, FS_CardinalityType DEF LoadCounts

LEMMA SendKeeps ==
  ASSUME PoolInv, LoadCounts, Send
  PROVE  PoolInv' /\ LoadCounts'
<1> DEFINE w == LeastLoaded
<1>1. w \in Callers
  <2>1. load \in [Callers -> Nat]
    BY LoadsAreNatural DEF PoolInv, PoolType
  <2>2. QED
    BY <2>1, LeastLoadedWorker
<1>2. /\ next \in Id /\ next' = next + 1
      /\ request' = [request EXCEPT ![next] = "waiting"]
      /\ worker' = [worker EXCEPT ![next] = w]
      /\ load' = [load EXCEPT ![w] = @ + 1]
      /\ mailbox' = [mailbox EXCEPT ![w] = Append(@, next)]
      /\ UNCHANGED <<posted, busy, answer, heap, lists>>
  BY DEF Send, exports, memory
<1> HIDE DEF w
<1>3. /\ next \in 1 .. MaxRequests + 1
      /\ request \in [Id -> {"new", "waiting", "timedOut"} \cup Results]
      /\ answer \in [Id -> Results \cup {"none"}]
      /\ worker \in [Id -> Callers \cup {0}] /\ load \in [Callers -> Int]
      /\ mailbox \in [Callers -> Seq(Id)]
      /\ busy \in [Callers -> Id \cup {0}]
      /\ posted \subseteq [id : Id, result : Results] /\ IsFiniteSet(posted)
      /\ heap \in Int /\ lists \in Int
  BY DEF PoolInv, PoolType
<1>4. /\ mailbox[w] \in Seq(Id) /\ mailbox'[w] = Append(mailbox[w], next)
      /\ DOMAIN mailbox[w] = 1 .. Len(mailbox[w]) /\ Len(mailbox[w]) \in Nat
      /\ DOMAIN mailbox'[w] = 1 .. Len(mailbox[w]) + 1
      /\ mailbox'[w][Len(mailbox[w]) + 1] = next
      /\ \A i \in DOMAIN mailbox[w] : mailbox'[w][i] = mailbox[w][i]
      /\ \A v \in Callers : v # w => mailbox'[v] = mailbox[v]
  BY <1>1, <1>2, <1>3
<1>5. PoolType'
  <2>1. mailbox' \in [Callers -> Seq(Id)]
    BY <1>1, <1>2, <1>3, Appended
  <2>2. next' \in 1 .. MaxRequests + 1
    BY <1>2, <1>3 DEF Id
  <2>3. QED
    BY <1>1, <1>2, <1>3, <2>1, <2>2 DEF PoolType
<1>6. /\ \A r \in Id : r >= next => request[r] = "new" /\ answer[r] = "none" /\ worker[r] = 0
      /\ \A r \in Id : r < next => request[r] # "new"
      /\ \A r \in Id : request[r] \in Results => answer[r] = request[r]
  BY DEF PoolInv, Completions
<1>7. answer[next] = "none" /\ worker[next] = 0
  <2>1. next >= next
    BY <1>3
  <2>2. QED
    BY <1>2, <1>6, <2>1
<1>a. next # 0 /\ next \in Nat /\ next < next' /\ \A r \in Id : r < next => r # next /\ r < next'
  BY <1>2, <1>3, IdFacts
<1>8. /\ \A v \in Callers : \A i \in DOMAIN mailbox[v] :
           /\ mailbox[v][i] \in Id
           /\ mailbox[v][i] < next /\ answer[mailbox[v][i]] = "none"
           /\ \A u \in Callers : busy[u] # mailbox[v][i]
      /\ \A u, v \in Callers : \A i \in DOMAIN mailbox[u], j \in DOMAIN mailbox[v] :
           mailbox[u][i] = mailbox[v][j] => u = v /\ i = j
      /\ \A v \in Callers : busy[v] # 0 =>
           /\ busy[v] < next /\ answer[busy[v]] = "none"
           /\ \A u \in Callers : busy[u] = busy[v] => u = v
  BY <1>3 DEF PoolInv, InMailbox, InWorker
<1>9. \A v \in Callers : busy[v] # next /\ (busy[v] # 0 => busy[v] \in Id)
  <2>1. \A v \in Callers : busy[v] # 0 => busy[v] \in Id /\ busy[v] < next
    BY <1>3, <1>8
  <2>2. QED
    BY <1>a, <2>1
<1>10. \A v \in Callers : \A i \in DOMAIN mailbox'[v] :
         \/ i \in DOMAIN mailbox[v] /\ mailbox'[v][i] = mailbox[v][i]
         \/ v = w /\ i = Len(mailbox[w]) + 1 /\ mailbox'[v][i] = next
  <2>1. \A v \in Callers : v # w => mailbox'[v] = mailbox[v]
    BY <1>4
  <2>2. \A i \in DOMAIN mailbox'[w] : i \in DOMAIN mailbox[w] \/ i = Len(mailbox[w]) + 1
    BY <1>4
  <2>3. QED
    BY <1>4, <2>1, <2>2
<1>11. InMailbox'
  <2>1. \A v \in Callers : \A i \in DOMAIN mailbox'[v] :
          /\ mailbox'[v][i] < next' /\ answer'[mailbox'[v][i]] = "none"
          /\ \A u \in Callers : busy'[u] # mailbox'[v][i]
    <3>1. SUFFICES ASSUME NEW v \in Callers, NEW i \in DOMAIN mailbox'[v]
                   PROVE  /\ mailbox'[v][i] < next' /\ answer[mailbox'[v][i]] = "none"
                          /\ \A u \in Callers : busy[u] # mailbox'[v][i]
      BY <1>2
    <3>2. CASE i \in DOMAIN mailbox[v] /\ mailbox'[v][i] = mailbox[v][i]
      BY <1>8, <1>a, <3>2
    <3>3. CASE mailbox'[v][i] = next
      BY <1>7, <1>9, <1>a, <3>3
    <3>4. QED
      BY <1>10, <3>2, <3>3
  <2>2. ASSUME NEW u \in Callers, NEW v \in Callers,
               NEW i \in DOMAIN mailbox'[u], NEW j \in DOMAIN mailbox'[v],
               mailbox'[u][i] = mailbox'[v][j]
        PROVE  u = v /\ i = j
    <3>1. \A x \in Callers : \A k \in DOMAIN mailbox[x] : mailbox[x][k] # next
      BY <1>8, <1>a
    <3>2. QED
      BY <1>8, <1>10, <2>2, <3>1
  <2>3. QED
    BY <2>1, <2>2 DEF InMailbox
<1>12. InWorker'
  BY <1>2, <1>8, <1>9, <1>a DEF InWorker
<1>13. OnTheWay'
  <2>1. /\ \A a \in posted : /\ a.id \in Id /\ a.id < next /\ answer[a.id] = a.result
                             /\ request[a.id] \in {"waiting", "timedOut"}
        /\ \A r \in Id : request[r] = "waiting" /\ answer[r] # "none" =>
             \E a \in posted : a.id = r
    BY <1>3 DEF PoolInv, OnTheWay
  <2>2. \A r \in Id : r # next => request'[r] = request[r]
    BY <1>2, <1>3
  <2>3. \A a \in posted : a.id # next /\ a.id < next'
    BY <1>a, <2>1
  <2>4. QED
    BY <1>2, <1>7, <2>1, <2>2, <2>3 DEF OnTheWay
<1>14. Completions'
  <2>1. request'[next] = "waiting" /\ \A r \in Id : r # next => request'[r] = request[r] /\ worker'[r] = worker[r]
    BY <1>2, <1>3
  <2>2. \A r \in Id : (r >= next' <=> r >= next /\ r # next) /\ (r < next' <=> r < next \/ r = next)
    BY <1>2, <1>a, IdFacts
  <2>3. QED
    BY <1>2, <1>6, <2>1, <2>2 DEF Completions, Results
<1>15. LoadCounts'
  <2>1. ASSUME NEW v \in Callers, v # w
        PROVE  load'[v] = Cardinality({r \in Id : worker'[r] = v})
    <3>1. {r \in Id : worker'[r] = v} = {r \in Id : worker[r] = v}
      BY <1>2, <1>3, <1>7, <2>1
    <3>2. QED
      BY <1>2, <1>3, <2>1, <3>1 DEF LoadCounts
  <2>2. load'[w] = Cardinality({r \in Id : worker'[r] = w})
    <3> DEFINE S == {r \in Id : worker[r] = w}
    <3>1. {r \in Id : worker'[r] = w} = S \cup {next} /\ next \notin S
      BY <1>1, <1>2, <1>3, <1>7
    <3>2. IsFiniteSet(S) /\ load[w] = Cardinality(S) /\ load'[w] = load[w] + 1
      BY <1>1, <1>2, <1>3, LoadsAreNatural DEF LoadCounts
    <3>3. QED
      BY <3>1, <3>2, FS_AddElement
  <2>3. QED
    BY <2>1, <2>2 DEF LoadCounts
<1>16. QED
  BY <1>5, <1>11, <1>12, <1>13, <1>14, <1>15 DEF PoolInv

LEMMA LeavesKeeps ==
  ASSUME PoolType, LoadCounts, NEW r \in Id, Leaves(r)
  PROVE  /\ LoadCounts' /\ load' \in [Callers -> Int]
         /\ worker' \in [Id -> Callers \cup {0}] /\ worker'[r] = 0
         /\ \A q \in Id : q # r => worker'[q] = worker[q]
<1>1. worker \in [Id -> Callers \cup {0}] /\ load \in [Callers -> Int]
  BY DEF PoolType
<1>2. /\ worker' = [worker EXCEPT ![r] = 0]
      /\ load' = [w \in Callers |-> IF w = worker[r] THEN load[w] - 1 ELSE load[w]]
  BY DEF Leaves
<1>3. 0 \notin Callers
  OBVIOUS
<1>4. ASSUME NEW v \in Callers
      PROVE  load'[v] = Cardinality({q \in Id : worker'[q] = v})
  <2> DEFINE S == {q \in Id : worker[q] = v}
  <2>1. {q \in Id : worker'[q] = v} = S \ {r}
    BY <1>1, <1>2, <1>3
  <2>2. IsFiniteSet(S) /\ load[v] = Cardinality(S)
    BY LoadsAreNatural DEF LoadCounts
  <2>3. v = worker[r] <=> r \in S
    OBVIOUS
  <2>4. Cardinality(S \ {r}) = IF r \in S THEN Cardinality(S) - 1 ELSE Cardinality(S)
    BY <2>2, FS_RemoveElement
  <2> HIDE DEF S
  <2>5. QED
    BY <1>2, <2>1, <2>2, <2>3, <2>4
<1>5. QED
  BY <1>1, <1>2, <1>4 DEF LoadCounts

LEMMA TimeoutKeeps ==
  ASSUME PoolInv, LoadCounts, NEW r \in Id, RequestTimesOut(r)
  PROVE  PoolInv' /\ LoadCounts'
<1>1. /\ request[r] = "waiting" /\ request' = [request EXCEPT ![r] = "timedOut"]
      /\ UNCHANGED <<next, mailbox, posted, busy, answer, heap, lists>>
  BY DEF RequestTimesOut, queues, exports, memory
<1>2. /\ LoadCounts' /\ load' \in [Callers -> Int]
      /\ worker' \in [Id -> Callers \cup {0}] /\ worker'[r] = 0
      /\ \A q \in Id : q # r => worker'[q] = worker[q]
  BY LeavesKeeps DEF RequestTimesOut, PoolInv
<1>3. request \in [Id -> {"new", "waiting", "timedOut"} \cup Results]
  BY DEF PoolInv, PoolType
<1>4. request'[r] = "timedOut" /\ \A q \in Id : q # r => request'[q] = request[q]
  BY <1>1, <1>3
<1>5. PoolType'
  BY <1>1, <1>2, <1>3 DEF PoolInv, PoolType
<1>6. InMailbox' /\ InWorker'
  BY <1>1 DEF PoolInv, InMailbox, InWorker
<1>7. OnTheWay'
  <2>1. \A a \in posted : a.id \in Id
    BY DEF PoolInv, PoolType
  <2>2. QED
    BY <1>1, <1>4, <2>1 DEF PoolInv, OnTheWay
<1>8. Completions'
  BY <1>1, <1>2, <1>4 DEF PoolInv, Completions, Results
<1>9. QED
  BY <1>2, <1>5, <1>6, <1>7, <1>8 DEF PoolInv

LEMMA Shifted ==
  ASSUME NEW S, NEW s \in Seq(S), s # <<>>
  PROVE  /\ DOMAIN s = 1 .. Len(s) /\ Len(s) \in Nat /\ Len(s) > 0 /\ Head(s) = s[1]
         /\ DOMAIN Tail(s) = 1 .. Len(s) - 1
         /\ \A i \in DOMAIN Tail(s) : i + 1 \in DOMAIN s /\ i + 1 # 1 /\ Tail(s)[i] = s[i + 1]
  OBVIOUS

LEMMA TakeKeeps ==
  ASSUME PoolInv, LoadCounts, NEW w \in Callers, TakeMessage(w)
  PROVE  PoolInv' /\ LoadCounts'
<1> DEFINE m == mailbox[w]
<1>1. /\ busy[w] = 0 /\ m # <<>> /\ busy' = [busy EXCEPT ![w] = Head(m)]
      /\ mailbox' = [mailbox EXCEPT ![w] = Tail(m)]
      /\ UNCHANGED <<next, request, worker, load, posted, answer, heap, lists>>
  BY DEF TakeMessage, requests, memory
<1>2. mailbox \in [Callers -> Seq(Id)] /\ busy \in [Callers -> Id \cup {0}]
  BY DEF PoolInv, PoolType
<1>3. m \in Seq(Id) /\ Head(m) \in Id /\ Tail(m) \in Seq(Id)
  BY <1>1, <1>2, Taken
<1>4. /\ 1 \in DOMAIN m /\ Head(m) = m[1]
      /\ \A i \in DOMAIN Tail(m) : i + 1 \in DOMAIN m /\ i + 1 # 1 /\ Tail(m)[i] = m[i + 1]
      /\ \A i, j \in DOMAIN Tail(m) : i + 1 = j + 1 => i = j
  BY <1>1, <1>3, Shifted
<1>5. /\ busy'[w] = Head(m) /\ \A v \in Callers : v # w => busy'[v] = busy[v]
      /\ mailbox'[w] = Tail(m) /\ \A v \in Callers : v # w => mailbox'[v] = mailbox[v]
  BY <1>1, <1>2
<1>6. PoolType' /\ LoadCounts'
  BY <1>1, <1>2, <1>3 DEF PoolInv, PoolType, LoadCounts
<1>7. /\ \A v \in Callers : \A i \in DOMAIN mailbox[v] :
           /\ mailbox[v][i] < next /\ answer[mailbox[v][i]] = "none"
           /\ \A u \in Callers : busy[u] # mailbox[v][i]
      /\ \A u, v \in Callers : \A i \in DOMAIN mailbox[u], j \in DOMAIN mailbox[v] :
           mailbox[u][i] = mailbox[v][j] => u = v /\ i = j
  BY DEF PoolInv, InMailbox
<1>8. \A v \in Callers : \A i \in DOMAIN mailbox'[v] :
        \E j \in DOMAIN mailbox[v] :
          mailbox'[v][i] = mailbox[v][j] /\ (IF v = w THEN j = i + 1 /\ j # 1 ELSE j = i)
  <2> SUFFICES ASSUME NEW v \in Callers, NEW i \in DOMAIN mailbox'[v]
               PROVE  \E j \in DOMAIN mailbox[v] :
                        /\ mailbox'[v][i] = mailbox[v][j]
                        /\ IF v = w THEN j = i + 1 /\ j # 1 ELSE j = i
    OBVIOUS
  <2>1. CASE v = w
    <3>1. i \in DOMAIN Tail(m)
      BY <1>5, <2>1
    <3>2. i + 1 \in DOMAIN m /\ i + 1 # 1 /\ mailbox'[v][i] = m[i + 1]
      BY <1>4, <1>5, <2>1, <3>1
    <3>3. QED
      BY <2>1, <3>2
  <2>2. CASE v # w
    BY <1>5, <2>2
  <2>3. QED
    BY <2>1, <2>2
<1> HIDE DEF m
<1>9. /\ answer[Head(m)] = "none" /\ Head(m) < next /\ Head(m) # 0
      /\ \A u \in Callers : busy[u] # Head(m)
  BY <1>3, <1>4, <1>7, IdFacts DEF m
<1>10. InMailbox'
  <2>1. ASSUME NEW v \in Callers, NEW i \in DOMAIN mailbox'[v]
        PROVE  /\ mailbox'[v][i] < next' /\ answer'[mailbox'[v][i]] = "none"
               /\ \A u \in Callers : busy'[u] # mailbox'[v][i]
    <3>1. PICK j \in DOMAIN mailbox[v] : mailbox'[v][i] = mailbox[v][j] /\ (v = w => j # 1)
      BY <1>8, <2>1
    <3>2. mailbox[v][j] # Head(m)
      BY <1>4, <1>7, <3>1 DEF m
    <3>3. QED
      BY <1>1, <1>5, <1>7, <3>1, <3>2
  <2>2. ASSUME NEW u \in Callers, NEW v \in Callers,
               NEW i \in DOMAIN mailbox'[u], NEW j \in DOMAIN mailbox'[v],
               mailbox'[u][i] = mailbox'[v][j]
        PROVE  u = v /\ i = j
    <3>1. PICK k \in DOMAIN mailbox[u] :
            mailbox'[u][i] = mailbox[u][k] /\ (IF u = w THEN k = i + 1 ELSE k = i)
      BY <1>8
    <3>2. PICK l \in DOMAIN mailbox[v] :
            mailbox'[v][j] = mailbox[v][l] /\ (IF v = w THEN l = j + 1 ELSE l = j)
      BY <1>8
    <3>3. u = v /\ k = l
      <4>1. mailbox[u][k] = mailbox[v][l]
        BY <2>2, <3>1, <3>2
      <4>2. QED
        BY <1>7, <4>1
    <3>4. CASE u = w
      BY <1>4, <1>5, <3>1, <3>2, <3>3, <3>4
    <3>5. CASE u # w
      BY <3>1, <3>2, <3>3, <3>5
    <3>6. QED
      BY <3>3, <3>4, <3>5
  <2>3. QED
    BY <2>1, <2>2 DEF InMailbox
<1>11. InWorker'
  BY <1>1, <1>5, <1>9 DEF PoolInv, InWorker
<1>12. OnTheWay' /\ Completions'
  BY <1>1 DEF PoolInv, OnTheWay, Completions
<1>13. QED
  BY <1>6, <1>10, <1>11, <1>12 DEF PoolInv

(* What is on its way is known by its id.                                  *)
LEMMA PostedById ==
  ASSUME PoolInv
  PROVE  /\ \A a \in posted : a.id \in Id /\ a.result \in Results /\ answer[a.id] = a.result
         /\ \A a, b \in posted : a.id = b.id => a = b
<1>1. \A a \in posted : a.id \in Id /\ a.result \in Results /\ a = [id |-> a.id, result |-> a.result]
  BY DEF PoolInv, PoolType
<1>2. \A a \in posted : answer[a.id] = a.result
  BY DEF PoolInv, OnTheWay
<1>3. QED
  BY <1>1, <1>2

LEMMA PostKeeps ==
  ASSUME PoolInv, LoadCounts, HeapCounts, NEW w \in Callers, PostAnswer(w)
  PROVE  PoolInv' /\ LoadCounts' /\ HeapCounts'
<1> DEFINE q == busy[w]
<1>1. PICK r \in Results :
        /\ q # 0 /\ heap' = FreeFfiData(r)
        /\ posted' = posted \cup {[id |-> q, result |-> r]}
        /\ answer' = [answer EXCEPT ![q] = r]
        /\ busy' = [busy EXCEPT ![w] = 0]
        /\ UNCHANGED <<next, request, worker, load, mailbox, lists>>
  BY DEF PostAnswer, InExport, requests
<1>2. /\ busy \in [Callers -> Id \cup {0}] /\ answer \in [Id -> Results \cup {"none"}]
      /\ posted \subseteq [id : Id, result : Results] /\ IsFiniteSet(posted)
      /\ heap \in Int /\ lists \in Int /\ "none" \notin Results
  BY DEF PoolInv, PoolType, Results
<1>3. q \in Id /\ q < next /\ answer[q] = "none" /\ \A v \in Callers : busy[v] = q => v = w
  BY <1>1, <1>2 DEF PoolInv, InWorker
<1>4. /\ answer'[q] = r /\ \A i \in Id : i # q => answer'[i] = answer[i]
      /\ busy'[w] = 0 /\ \A v \in Callers : v # w => busy'[v] = busy[v]
  BY <1>1, <1>2, <1>3
<1> DEFINE a == [id |-> q, result |-> r]
<1>5. a.id = q /\ a.result = r /\ a \in [id : Id, result : Results] /\ posted' = posted \cup {a}
  BY <1>1, <1>3
<1> HIDE DEF q, a
<1>6. a \notin posted
  BY <1>2, <1>3, <1>5, PostedById
<1>7. PoolType'
  <2>1. IsFiniteSet(posted')
    BY <1>2, <1>5, FS_AddElement
  <2>2. heap' \in Int
    BY <1>1, <1>2 DEF FreeFfiData
  <2>3. posted' \subseteq [id : Id, result : Results]
    BY <1>2, <1>5
  <2>4. answer' \in [Id -> Results \cup {"none"}] /\ busy' \in [Callers -> Id \cup {0}]
    BY <1>1, <1>2
  <2>5. QED
    BY <1>1, <2>1, <2>2, <2>3, <2>4 DEF PoolInv, PoolType
<1>8. LoadCounts'
  BY <1>1 DEF LoadCounts
<1>9. InMailbox'
  <2>1. \A v \in Callers : \A i \in DOMAIN mailbox[v] : mailbox[v][i] \in Id
    BY DEF PoolInv, PoolType
  <2>2. ASSUME NEW v \in Callers, NEW i \in DOMAIN mailbox[v]
        PROVE  /\ mailbox[v][i] < next /\ answer'[mailbox[v][i]] = "none"
               /\ \A u \in Callers : busy'[u] # mailbox[v][i]
    <3>1. /\ mailbox[v][i] < next /\ answer[mailbox[v][i]] = "none"
          /\ \A u \in Callers : busy[u] # mailbox[v][i]
      BY DEF PoolInv, InMailbox
    <3>2. mailbox[v][i] # q /\ mailbox[v][i] # 0
      BY <2>1, <3>1, IdFacts DEF q
    <3>3. QED
      BY <1>4, <2>1, <3>1, <3>2
  <2>3. QED
    BY <1>1, <2>2 DEF PoolInv, InMailbox
<1>10. InWorker'
  <2>1. \A v \in Callers : busy'[v] # 0 => v # w /\ busy'[v] = busy[v] /\ busy[v] # q /\ busy[v] \in Id
    BY <1>2, <1>3, <1>4
  <2>2. QED
    BY <1>1, <1>4, <2>1 DEF PoolInv, InWorker
<1>11. Completions'
  <2>1. ~ (q >= next) /\ request[q] \notin Results
    BY <1>2, <1>3, IdFacts DEF PoolInv, PoolType, Completions
  <2>2. QED
    BY <1>1, <1>4, <2>1 DEF PoolInv, Completions
<1>12. OnTheWay'
  <2>1. request[q] \in {"waiting", "timedOut"}
    <3>1. request[q] \in {"new", "waiting", "timedOut"} \cup Results
      BY <1>3 DEF PoolInv, PoolType
    <3>2. request[q] # "new" /\ request[q] \notin Results
      BY <1>2, <1>3 DEF PoolInv, Completions
    <3>3. QED
      BY <3>1, <3>2
  <2>2. \A b \in posted' : /\ b.id < next /\ answer'[b.id] = b.result
                           /\ request[b.id] \in {"waiting", "timedOut"}
    <3>1. \A b \in posted : b.id # q /\ b.id \in Id
      BY <1>2, <1>3, PostedById
    <3>2. \A b \in posted : b.id < next /\ answer[b.id] = b.result
                            /\ request[b.id] \in {"waiting", "timedOut"}
      BY DEF PoolInv, OnTheWay
    <3>3. QED
      BY <1>3, <1>4, <1>5, <2>1, <3>1, <3>2
  <2>3. ASSUME NEW i \in Id, request[i] = "waiting", answer'[i] # "none"
        PROVE  \E b \in posted' : b.id = i
    BY <1>4, <1>5, <2>3 DEF PoolInv, OnTheWay
  <2>4. QED
    BY <1>1, <2>2, <2>3 DEF OnTheWay
<1>13. HeapCounts'
  <2>1. Lost' = Lost
    <3>1. q \notin Lost /\ q \notin Lost'
      BY <1>3, <1>5 DEF Lost
    <3>2. ASSUME NEW i \in Id, i # q PROVE i \in Lost' <=> i \in Lost
      BY <1>1, <1>4, <1>5, <3>2 DEF Lost
    <3>3. Lost \subseteq Id /\ Lost' \subseteq Id
      BY DEF Lost
    <3>4. \A i : i \in Lost' <=> i \in Lost
      BY <3>1, <3>2, <3>3
    <3>5. QED
      BY <3>4, Zenon
  <2> DEFINE D == {b \in posted : b.result = "data"}
  <2>2. IsFiniteSet(D)
    BY <1>2, FS_Subset
  <2>3. Flying' = IF r = "data" THEN Flying + 1 ELSE Flying
    <3>1. {b \in posted' : b.result = "data"} = IF r = "data" THEN D \cup {a} ELSE D
      BY <1>5
    <3>2. Cardinality(D \cup {a}) = Cardinality(D) + 1
      BY <1>6, <2>2, FS_AddElement
    <3>3. Flying = Cardinality(D) /\ Flying' = Cardinality({b \in posted' : b.result = "data"})
      BY DEF Flying
    <3> HIDE DEF D
    <3>4. QED
      BY <3>1, <3>2, <3>3
  <2>4. Flying \in Nat
    BY <2>2, FS_CardinalityType DEF Flying
  <2>5. Lost \subseteq Id
    BY DEF Lost
  <2>6. Cardinality(Lost) \in Nat
    BY <2>5, IdFacts, FS_Subset, FS_CardinalityType
  <2>7. QED
    BY <1>1, <1>2, <2>1, <2>3, <2>4, <2>6 DEF HeapCounts, FreeFfiData
<1>14. QED
  BY <1>7, <1>8, <1>9, <1>10, <1>11, <1>12, <1>13 DEF PoolInv

LEMMA HandleKeeps ==
  ASSUME PoolInv, LoadCounts, HeapCounts, NEW a \in posted, HandleAnswer(a)
  PROVE  PoolInv' /\ LoadCounts' /\ HeapCounts'
<1> DEFINE q == a.id
<1>1. /\ posted' = posted \ {a} /\ Leaves(q) /\ Completes(a)
      /\ lists' = IF a.result = "data" /\ request[q] = "waiting" THEN lists + 1 ELSE lists
      /\ UNCHANGED <<next, mailbox, busy, answer, heap>>
  BY DEF HandleAnswer, exports
<1>2. q \in Id /\ a.result \in Results /\ answer[q] = a.result
  BY PostedById
<1>3. \A b \in posted' : b \in posted /\ b.id # q
  BY <1>1, PostedById
<1>4. /\ LoadCounts' /\ load' \in [Callers -> Int]
      /\ worker' \in [Id -> Callers \cup {0}] /\ worker'[q] = 0
      /\ \A i \in Id : i # q => worker'[i] = worker[i]
  BY <1>1, <1>2, LeavesKeeps DEF PoolInv
<1>5. /\ request \in [Id -> {"new", "waiting", "timedOut"} \cup Results]
      /\ posted \subseteq [id : Id, result : Results] /\ IsFiniteSet(posted)
      /\ heap \in Int /\ lists \in Int
  BY DEF PoolInv, PoolType
<1>6. request[q] \in {"waiting", "timedOut"} /\ q < next
  BY DEF PoolInv, OnTheWay
<1>7. /\ request'[q] = IF request[q] = "waiting" THEN a.result ELSE "timedOut"
      /\ \A i \in Id : i # q => request'[i] = request[i]
  BY <1>1, <1>2, <1>5, <1>6 DEF Completes
<1>8. PoolType'
  <2>1. IsFiniteSet(posted')
    BY <1>1, <1>5, FS_RemoveElement
  <2>2. request' \in [Id -> {"new", "waiting", "timedOut"} \cup Results]
    BY <1>1, <1>2, <1>5 DEF Completes
  <2>3. lists' \in Int
    BY <1>1, <1>5
  <2>4. QED
    BY <1>1, <1>4, <2>1, <2>2, <2>3 DEF PoolInv, PoolType
<1>9. InMailbox' /\ InWorker'
  BY <1>1 DEF PoolInv, InMailbox, InWorker
<1>10. OnTheWay'
  <2>1. \A b \in posted' : /\ b.id < next /\ answer[b.id] = b.result
                           /\ request'[b.id] \in {"waiting", "timedOut"}
    <3>1. \A b \in posted' : b.id \in Id /\ b \in posted /\ b.id # q
      BY <1>3, PostedById
    <3>2. QED
      BY <1>7, <3>1 DEF PoolInv, OnTheWay
  <2>2. ASSUME NEW i \in Id, request'[i] = "waiting", answer[i] # "none"
        PROVE  \E b \in posted' : b.id = i
    <3>1. i # q /\ request[i] = "waiting"
      BY <1>2, <1>7, <2>2 DEF Results
    <3>2. PICK b \in posted : b.id = i
      BY <2>2, <3>1 DEF PoolInv, OnTheWay
    <3>3. QED
      BY <1>1, <3>1, <3>2
  <2>3. QED
    BY <1>1, <2>1, <2>2 DEF OnTheWay
<1>11. Completions'
  <2>1. ~ (q >= next)
    BY <1>2, <1>6, IdFacts DEF PoolInv, PoolType
  <2>2. request'[q] # "new" /\ (request'[q] \in Results => answer[q] = request'[q])
    BY <1>2, <1>7 DEF Results
  <2>3. QED
    BY <1>1, <1>4, <1>7, <2>1, <2>2 DEF PoolInv, Completions
<1>12. HeapCounts'
  <2> DEFINE D == {b \in posted : b.result = "data"}
  <2>1. IsFiniteSet(D)
    BY <1>5, FS_Subset
  <2>2. Lost \subseteq Id /\ IsFiniteSet(Lost) /\ q \notin Lost
    <3>1. Lost \subseteq Id /\ q \notin Lost
      BY DEF Lost
    <3>2. QED
      BY <3>1, IdFacts, FS_Subset
  <2>3. Flying' = IF a.result = "data" THEN Flying - 1 ELSE Flying
    <3>1. {b \in posted' : b.result = "data"} = IF a.result = "data" THEN D \ {a} ELSE D
      BY <1>1
    <3>2. a.result = "data" => Cardinality(D \ {a}) = Cardinality(D) - 1
      <4>1. a.result = "data" => a \in D
        OBVIOUS
      <4>2. QED
        BY <2>1, <4>1, FS_RemoveElement
    <3>3. Flying = Cardinality(D) /\ Flying' = Cardinality({b \in posted' : b.result = "data"})
      BY DEF Flying
    <3> HIDE DEF D
    <3>4. QED
      BY <3>1, <3>2, <3>3
  <2>4. Lost' = IF a.result = "data" /\ request[q] = "timedOut" THEN Lost \cup {q} ELSE Lost
    <3>1. ASSUME NEW i \in Id, i # q PROVE i \in Lost' <=> i \in Lost
      BY <1>1, <1>7, <3>1 DEF Lost
    <3>2. q \in Lost' <=> a.result = "data" /\ request[q] = "timedOut"
      BY <1>1, <1>2, <1>3, <1>6, <1>7 DEF Lost, Results
    <3>3. Lost' \subseteq Id
      BY DEF Lost
    <3> HIDE DEF q
    <3>4. CASE a.result = "data" /\ request[q] = "timedOut"
      <4>1. \A i : i \in Lost' <=> i \in Lost \cup {q}
        BY <1>2, <2>2, <3>1, <3>2, <3>3, <3>4
      <4>2. QED
        BY <3>4, <4>1
    <3>5. CASE ~ (a.result = "data" /\ request[q] = "timedOut")
      <4>1. \A i : i \in Lost' <=> i \in Lost
        BY <1>2, <2>2, <3>1, <3>2, <3>3, <3>5
      <4>2. Lost' = Lost
        BY <4>1, Zenon
      <4>3. QED
        BY <3>5, <4>2
    <3>6. QED
      BY <3>4, <3>5
  <2>5. Cardinality(Lost \cup {q}) = Cardinality(Lost) + 1 /\ Cardinality(Lost) \in Nat
    BY <2>2, FS_AddElement, FS_CardinalityType
  <2>6. Flying \in Nat
    BY <2>1, FS_CardinalityType DEF Flying
  <2>7. QED
    BY <1>1, <1>5, <1>6, <2>3, <2>4, <2>5, <2>6 DEF HeapCounts
<1>13. QED
  BY <1>4, <1>8, <1>9, <1>10, <1>11, <1>12 DEF PoolInv

LEMMA CollectKeeps ==
  ASSUME PoolInv, LoadCounts, HeapCounts, Collect
  PROVE  PoolInv' /\ LoadCounts' /\ HeapCounts'
<1>1. /\ lists' = lists - 1 /\ heap' = heap - 1
      /\ UNCHANGED <<next, request, worker, load, mailbox, posted, busy, answer>>
  BY DEF Collect, requests, queues, exports
<1>2. PoolType' /\ LoadCounts'
  BY <1>1 DEF PoolInv, PoolType, LoadCounts
<1>3. InMailbox' /\ InWorker'
  BY <1>1 DEF PoolInv, InMailbox, InWorker
<1>4. OnTheWay' /\ Completions'
  BY <1>1 DEF PoolInv, OnTheWay, Completions
<1>5. Lost' = Lost /\ Flying' = Flying
  BY <1>1 DEF Lost, Flying
<1>6. Flying \in Int /\ Cardinality(Lost) \in Int /\ heap \in Int /\ lists \in Int
  <2>1. IsFiniteSet({b \in posted : b.result = "data"}) /\ IsFiniteSet(Lost)
    BY IdFacts, FS_Subset DEF PoolInv, PoolType, Lost
  <2>2. QED
    BY <2>1, FS_CardinalityType DEF PoolInv, PoolType, Flying
<1>7. HeapCounts'
  BY <1>1, <1>5, <1>6 DEF HeapCounts
<1>8. QED
  BY <1>2, <1>3, <1>4, <1>7 DEF PoolInv

(* Steps in which no reply is made, moved or lost.                         *)
LEMMA HeapQuiet ==
  ASSUME HeapCounts, UNCHANGED <<posted, answer, heap, lists>>,
         \A r \in Id : request'[r] = "timedOut" =>
           request[r] = "timedOut" \/ answer[r] # "data" \/ \E a \in posted : a.id = r,
         \A r \in Id : request[r] = "timedOut" => request'[r] = "timedOut"
  PROVE  HeapCounts'
<1>1. Lost' = Lost
  BY DEF Lost
<1>2. Flying' = Flying
  BY DEF Flying
<1>3. QED
  BY <1>1, <1>2 DEF HeapCounts

LEMMA PoolNextInv == PoolInv /\ LoadCounts /\ HeapCounts /\ [PoolNext]_allVars
                       => PoolInv' /\ LoadCounts' /\ HeapCounts'
<1> SUFFICES ASSUME PoolInv, LoadCounts, HeapCounts, [PoolNext]_allVars
             PROVE  PoolInv' /\ LoadCounts' /\ HeapCounts'
  OBVIOUS
<1>0. ASSUME UNCHANGED <<requests, queues, busy, answer, memory>>
      PROVE  PoolInv' /\ LoadCounts' /\ HeapCounts'
  <2>1. UNCHANGED <<request, worker, load, posted, answer, heap, lists>>
    BY <1>0 DEF requests, queues, memory
  <2>2. LoadCounts' /\ HeapCounts'
    BY <2>1, HeapQuiet DEF LoadCounts
  <2>3. QED
    BY <1>0, <2>2, PoolQuiet
<1>1. CASE UNCHANGED poolVars
  BY <1>0, <1>1 DEF poolVars, exports
<1>2. CASE Send
  <2>1. /\ request' = [request EXCEPT ![next] = "waiting"] /\ request[next] = "new" /\ next \in Id
        /\ UNCHANGED <<posted, answer, heap, lists>>
    BY <1>2 DEF Send, exports, memory, PoolInv, PoolType, Completions
  <2>2. HeapCounts'
    BY <2>1, HeapQuiet DEF PoolInv, PoolType
  <2>3. QED
    BY <1>2, <2>2, SendKeeps
<1>3. ASSUME NEW r \in Id, RequestTimesOut(r) PROVE PoolInv' /\ LoadCounts' /\ HeapCounts'
  <2>1. /\ request' = [request EXCEPT ![r] = "timedOut"] /\ request[r] = "waiting"
        /\ UNCHANGED <<posted, answer, heap, lists>>
    BY <1>3 DEF RequestTimesOut, queues, exports, memory
  <2>2. answer[r] = "data" => \E a \in posted : a.id = r
    BY <2>1 DEF PoolInv, OnTheWay
  <2>3. HeapCounts'
    BY <2>1, <2>2, HeapQuiet DEF PoolInv, PoolType
  <2>4. QED
    BY <1>3, <2>3, TimeoutKeeps
<1>4. ASSUME NEW w \in Callers, TakeMessage(w) PROVE PoolInv' /\ LoadCounts' /\ HeapCounts'
  <2>1. UNCHANGED <<request, posted, answer, heap, lists>>
    BY <1>4 DEF TakeMessage, requests, memory
  <2>2. HeapCounts'
    BY <2>1, HeapQuiet
  <2>3. QED
    BY <1>4, <2>2, TakeKeeps
<1>5. ASSUME NEW w \in Callers, CallsDart(w) PROVE PoolInv' /\ LoadCounts' /\ HeapCounts'
  BY <1>0, <1>5 DEF CallsDart
<1>6. ASSUME NEW w \in Callers, PostAnswer(w) PROVE PoolInv' /\ LoadCounts' /\ HeapCounts'
  BY <1>6, PostKeeps
<1>7. CASE MainHandles
  BY <1>7, HandleKeeps DEF MainHandles
<1>8. CASE Collect
  BY <1>8, CollectKeeps
<1>9. ASSUME NEW w \in Callers, Goroutine(w) \/ (Go(w) /\ UNCHANGED poolVars)
      PROVE  UNCHANGED poolVars
  BY <1>9 DEF Goroutine
<1>10. ASSUME NEW i \in Isolates, Listens(i) PROVE UNCHANGED poolVars
  BY <1>10 DEF Listens
<1>11. UNCHANGED allVars => UNCHANGED poolVars
  BY DEF allVars
<1>12. QED
  BY <1>1, <1>2, <1>3, <1>4, <1>5, <1>6, <1>7, <1>8, <1>9, <1>10, <1>11 DEF PoolNext, Worker

LEMMA PoolInvariance == PoolSpec => [](PoolInv /\ LoadCounts /\ HeapCounts)
<1>1. PoolInit => LoadCounts /\ HeapCounts
  <2> SUFFICES ASSUME PoolInit PROVE LoadCounts /\ HeapCounts
    OBVIOUS
  <2>1. \A w \in Callers : {r \in Id : worker[r] = w} = {} /\ load[w] = 0
    BY DEF PoolInit
  <2>2. {a \in posted : a.result = "data"} = {} /\ Lost = {} /\ heap = 0 /\ lists = 0
    BY DEF PoolInit, Lost
  <2>3. LoadCounts
    BY <2>1, FS_EmptySet DEF LoadCounts
  <2>4. Flying = 0 /\ Cardinality(Lost) = 0
    BY <2>2, FS_EmptySet DEF Flying
  <2>5. HeapCounts
    BY <2>2, <2>4 DEF HeapCounts
  <2>6. QED
    BY <2>3, <2>5
<1>2. QED
  BY <1>1, PoolInitInv, PoolNextInv, PTL DEF PoolSpec

(* The pending requests of a worker are counted exactly, whatever the      *)
(* order of answers and timers (lib/synurang.dart:721), so that the next   *)
(* request goes to a worker with the fewest.                               *)
THEOREM LoadsAreExact == PoolSpec => []LoadCounts
  BY PoolInvariance, PTL

(* Every reply in C memory is on its way to the main isolate or in a list  *)
(* of Dart, but for at most one of each request that timed out             *)
(* (lib/synurang.dart:886, 1004).                                          *)
THEOREM OnlyLateRepliesAreLost == PoolSpec => []LostOnlyLate
<1>1. PoolInv /\ HeapCounts => LostOnlyLate
  <2> SUFFICES ASSUME PoolInv, HeapCounts PROVE LostOnlyLate
    OBVIOUS
  <2>1. IsFiniteSet({b \in posted : b.result = "data"}) /\ IsFiniteSet(Late) /\ Lost \subseteq Late
    BY IdFacts, FS_Subset DEF PoolInv, PoolType, Lost, Late
  <2>2. IsFiniteSet(Lost) /\ Cardinality(Lost) <= Cardinality(Late)
    BY <2>1, FS_Subset
  <2>3. Flying \in Nat /\ Cardinality(Lost) \in Nat /\ Cardinality(Late) \in Nat
    BY <2>1, <2>2, FS_CardinalityType DEF Flying
  <2>4. QED
    BY <2>2, <2>3 DEF HeapCounts, LostOnlyLate, PoolInv, PoolType
<1>2. QED
  BY <1>1, PoolInvariance, PTL

---------------------------------------------------------------------------
(* A request whose export has not answered is in a mailbox or in a worker. *)
Held == \A r \in Id : r < next /\ answer[r] = "none" => InMail(r) \/ InHand(r)

LEMMA HeldQuiet ==
  ASSUME Held, UNCHANGED <<next, answer, mailbox, busy>>
  PROVE  Held'
BY DEF Held, InMail, InHand

(* A new request goes to the end of one mailbox.                           *)
LEMMA SendHolds ==
  ASSUME PoolInv, LoadCounts, Held, Send
  PROVE  Held'
<1> DEFINE w == LeastLoaded
<1>1. w \in Callers
  <2>1. load \in [Callers -> Nat]
    BY LoadsAreNatural DEF PoolInv, PoolType
  <2>2. QED
    BY <2>1, LeastLoadedWorker
<1>2. /\ next \in Id /\ next' = next + 1
      /\ mailbox' = [mailbox EXCEPT ![w] = Append(@, next)]
      /\ UNCHANGED <<busy, answer>>
  BY DEF Send, exports
<1> HIDE DEF w
<1>3. mailbox \in [Callers -> Seq(Id)]
  BY DEF PoolInv, PoolType
<1>4. /\ DOMAIN mailbox[w] \subseteq DOMAIN mailbox'[w]
      /\ Len(mailbox[w]) + 1 \in DOMAIN mailbox'[w]
      /\ mailbox'[w][Len(mailbox[w]) + 1] = next
      /\ \A i \in DOMAIN mailbox[w] : mailbox'[w][i] = mailbox[w][i]
      /\ \A v \in Callers : v # w => mailbox'[v] = mailbox[v]
  BY <1>1, <1>2, <1>3
<1>5. \A r : r = next => InMail(r)'
  BY <1>1, <1>4 DEF InMail
<1>6. \A r : InMail(r) => InMail(r)'
  BY <1>1, <1>4 DEF InMail
<1>7. \A r : InHand(r) => InHand(r)'
  BY <1>2 DEF InHand
<1>8. \A r \in Id : r < next' => r = next \/ r < next
  BY <1>2, IdFacts
<1>9. QED
  BY <1>2, <1>5, <1>6, <1>7, <1>8 DEF Held

(* The head of a mailbox passes into the hand of its worker.               *)
LEMMA TakeHolds ==
  ASSUME PoolInv, Held, NEW w \in Callers, TakeMessage(w)
  PROVE  Held'
<1> DEFINE m == mailbox[w]
<1>1. /\ busy[w] = 0 /\ m # <<>> /\ busy' = [busy EXCEPT ![w] = Head(m)]
      /\ mailbox' = [mailbox EXCEPT ![w] = Tail(m)]
      /\ UNCHANGED <<next, answer>>
  BY DEF TakeMessage, requests
<1>2. mailbox \in [Callers -> Seq(Id)] /\ busy \in [Callers -> Id \cup {0}]
  BY DEF PoolInv, PoolType
<1>3. \A i \in DOMAIN m : m[i] = Head(m) \/ \E j \in DOMAIN Tail(m) : Tail(m)[j] = m[i]
  <2>1. m \in Seq(Id)
    BY <1>2
  <2> SUFFICES ASSUME NEW i \in DOMAIN m, i # 1
               PROVE  \E j \in DOMAIN Tail(m) : Tail(m)[j] = m[i]
    BY <1>1, <2>1, Shifted
  <2>2. /\ DOMAIN m = 1 .. Len(m) /\ DOMAIN Tail(m) = 1 .. Len(m) - 1 /\ Len(m) \in Nat
        /\ \A j \in DOMAIN Tail(m) : Tail(m)[j] = m[j + 1]
    BY <1>1, <2>1, Shifted
  <2> HIDE DEF m
  <2>3. i \in Nat /\ i - 1 \in DOMAIN Tail(m) /\ (i - 1) + 1 = i
    BY <2>2
  <2>4. Tail(m)[i - 1] = m[(i - 1) + 1]
    BY <2>2, <2>3
  <2>5. QED
    BY <2>3, <2>4
<1>4. /\ busy'[w] = Head(m) /\ \A v \in Callers : v # w => busy'[v] = busy[v]
      /\ mailbox'[w] = Tail(m) /\ \A v \in Callers : v # w => mailbox'[v] = mailbox[v]
  BY <1>1, <1>2
<1>5. ASSUME NEW r \in Id, InMail(r) PROVE InMail(r)' \/ InHand(r)'
  <2>1. PICK v \in Callers : \E i \in DOMAIN mailbox[v] : mailbox[v][i] = r
    BY <1>5 DEF InMail
  <2>2. CASE v # w
    BY <1>4, <2>1, <2>2 DEF InMail
  <2>3. CASE v = w
    <3>1. r = Head(m) \/ \E j \in DOMAIN Tail(m) : Tail(m)[j] = r
      BY <1>3, <2>1, <2>3
    <3>2. r = Head(m) => InHand(r)'
      BY <1>4 DEF InHand
    <3>3. (\E j \in DOMAIN Tail(m) : Tail(m)[j] = r) => InMail(r)'
      BY <1>4 DEF InMail
    <3>4. QED
      BY <3>1, <3>2, <3>3
  <2>4. QED
    BY <2>2, <2>3
<1>6. ASSUME NEW r \in Id, InHand(r) PROVE InHand(r)'
  <2>1. PICK v \in Callers : busy[v] = r
    BY <1>6 DEF InHand
  <2>2. v # w
    BY <1>1, <2>1, IdFacts
  <2>3. QED
    BY <1>4, <2>1, <2>2 DEF InHand
<1>7. QED
  BY <1>1, <1>5, <1>6 DEF Held

(* What leaves the hand of a worker is answered.                           *)
LEMMA PostHolds ==
  ASSUME PoolInv, Held, NEW w \in Callers, PostAnswer(w)
  PROVE  Held'
<1>1. PICK a \in Results :
        /\ busy[w] # 0 /\ answer' = [answer EXCEPT ![busy[w]] = a]
        /\ busy' = [busy EXCEPT ![w] = 0] /\ UNCHANGED <<next, mailbox>>
  BY DEF PostAnswer, InExport, requests
<1>2. /\ busy \in [Callers -> Id \cup {0}] /\ answer \in [Id -> Results \cup {"none"}]
      /\ "none" \notin Results
  BY DEF PoolInv, PoolType, Results
<1>3. ASSUME NEW r \in Id, answer'[r] = "none" PROVE answer[r] = "none" /\ busy[w] # r
  BY <1>1, <1>2, <1>3
<1>4. ASSUME NEW r \in Id, InHand(r), busy[w] # r PROVE InHand(r)'
  BY <1>1, <1>2, <1>4 DEF InHand
<1>5. \A r : InMail(r)' <=> InMail(r)
  BY <1>1 DEF InMail
<1>6. QED
  BY <1>1, <1>3, <1>4, <1>5 DEF Held

LEMMA HeldNext == PoolInv /\ LoadCounts /\ Held /\ [PoolNext]_allVars => Held'
<1> SUFFICES ASSUME PoolInv, LoadCounts, Held, [PoolNext]_allVars PROVE Held'
  OBVIOUS
<1>1. UNCHANGED poolVars => Held'
  BY HeldQuiet DEF poolVars, requests, queues, exports
<1>2. CASE Send
  BY <1>2, SendHolds
<1>3. ASSUME NEW r \in Id, RequestTimesOut(r) PROVE Held'
  BY <1>3, HeldQuiet DEF RequestTimesOut, queues, exports
<1>4. ASSUME NEW w \in Callers, TakeMessage(w) PROVE Held'
  BY <1>4, TakeHolds
<1>5. ASSUME NEW w \in Callers, CallsDart(w) PROVE Held'
  BY <1>5, HeldQuiet DEF CallsDart, requests, queues
<1>6. ASSUME NEW w \in Callers, PostAnswer(w) PROVE Held'
  BY <1>6, PostHolds
<1>7. CASE MainHandles
  BY <1>7, HeldQuiet DEF MainHandles, HandleAnswer, exports
<1>8. CASE Collect
  BY <1>8, HeldQuiet DEF Collect, requests, queues, exports
<1>9. ASSUME NEW w \in Callers, Goroutine(w) \/ (Go(w) /\ UNCHANGED poolVars)
      PROVE  UNCHANGED poolVars
  BY <1>9 DEF Goroutine
<1>10. ASSUME NEW i \in Isolates, Listens(i) PROVE UNCHANGED poolVars
  BY <1>10 DEF Listens
<1>11. UNCHANGED allVars => UNCHANGED poolVars
  BY DEF allVars
<1>12. QED
  BY <1>1, <1>2, <1>3, <1>4, <1>5, <1>6, <1>7, <1>8, <1>9, <1>10, <1>11 DEF PoolNext, Worker

(* A request that the client waits for is at every moment in a mailbox, in *)
(* the export of a worker, or answered and on its way back                 *)
(* (lib/synurang.dart:744): no order of answers, timers and callbacks      *)
(* drops it.                                                               *)
THEOREM NoRequestIsForgotten == PoolSpec => []NoneForgotten
<1>1. PoolInit => Held
  <2> SUFFICES ASSUME PoolInit, NEW r \in Id PROVE ~ (r < next)
    BY DEF Held
  <2>1. QED
    BY DEF PoolInit, Id
<1>2. PoolInv /\ Held => NoneForgotten
  <2> SUFFICES ASSUME PoolInv, Held, NEW r \in Id, request[r] = "waiting"
               PROVE  InMail(r) \/ InHand(r) \/ Returning(r)
    BY DEF NoneForgotten
  <2>1. answer[r] # "none" => Returning(r)
    BY DEF PoolInv, OnTheWay, Returning
  <2>2. r < next
    <3>1. r >= next \/ r < next
      BY IdFacts DEF PoolInv, PoolType
    <3>2. QED
      BY <3>1 DEF PoolInv, Completions
  <2>3. QED
    BY <2>1, <2>2 DEF Held
<1>3. QED
  BY <1>1, <1>2, HeldNext, PoolInvariance, PTL DEF PoolSpec

---------------------------------------------------------------------------
(* The requests of Dart keep the promise of DartCall.                      *)
LEMMA ClientQuiet ==
  ASSUME UNCHANGED <<next, request, answer>>
  PROVE  UNCHANGED Client!vars
<1>1. \A r \in Id : Completed(r)' = Completed(r)
  BY DEF Completed
<1>2. QED
  BY <1>1 DEF Client!vars

(* A request that begins, or ends, ends once.                              *)
LEMMA ClientReturns ==
  ASSUME PoolInv, NEW r \in Id, NEW o \in Results \cup {"timedOut"}, r < next,
         request[r] = "waiting", request' = [request EXCEPT ![r] = o],
         o = "timedOut" \/ o = answer[r], UNCHANGED <<next, answer>>
  PROVE  Client!Next
<1>1. /\ request'[r] = o /\ \A i \in Id : i # r => request'[i] = request[i]
      /\ "waiting" \notin Results /\ "timedOut" \notin Results /\ "none" \notin Results
  BY DEF PoolInv, PoolType, Results
<1>2. /\ Completed(r) = "none" /\ Completed(r)' = IF o = "timedOut" THEN "timeout" ELSE o
      /\ \A i \in Id : i # r => Completed(i)' = Completed(i)
  BY <1>1 DEF Completed
<1>3. [i \in Id |-> Completed(i)]' = [[i \in Id |-> Completed(i)] EXCEPT ![r] = Completed(r)']
  BY <1>2
<1>4. Completed(r)' \in ({answer[r]} \ {"none"}) \cup {"timeout"}
  BY <1>1, <1>2
<1>5. r \in 1 .. next - 1
  BY DEF Id, PoolInv, PoolType
<1>6. Client!Return(r)
  BY <1>2, <1>3, <1>4, <1>5 DEF Client!Return
<1>7. QED
  BY <1>6 DEF Client!Next

LEMMA ClientSends ==
  ASSUME PoolInv, Send
  PROVE  Client!Next
<1>1. /\ next \in Id /\ next' = next + 1 /\ request' = [request EXCEPT ![next] = "waiting"]
      /\ UNCHANGED answer /\ request[next] = "new" /\ next \in Nat
  BY IdFacts DEF Send, exports, PoolInv, PoolType, Completions
<1>2. \A i \in Id : Completed(i)' = Completed(i)
  BY <1>1 DEF Completed, PoolInv, PoolType, Results
<1>3. 1 .. next' - 1 = (1 .. next - 1) \cup {next} /\ next \notin 1 .. next - 1
  BY <1>1 DEF Id
<1>4. Client!Begin(next)
  BY <1>1, <1>2, <1>3 DEF Client!Begin
<1>5. QED
  BY <1>1, <1>4 DEF Client!Next

LEMMA ClientAnswers ==
  ASSUME PoolInv, NEW w \in Callers, PostAnswer(w)
  PROVE  Client!Next
<1>1. PICK r \in Results :
        /\ busy[w] # 0 /\ answer' = [answer EXCEPT ![busy[w]] = r] /\ UNCHANGED <<next, request>>
  BY DEF PostAnswer, InExport, requests
<1>2. /\ busy[w] \in Id /\ busy[w] < next /\ answer[busy[w]] = "none"
      /\ answer \in [Id -> Results \cup {"none"}]
  BY <1>1 DEF PoolInv, PoolType, InWorker
<1>3. busy[w] \in 1 .. next - 1
  BY <1>2 DEF Id, PoolInv, PoolType
<1>4. answer' \in [Id -> Results \cup {"none"}]
  BY <1>1, <1>2
<1>5. \A i \in Id : answer'[i] = answer[i] \/ (i \in 1 .. next - 1 /\ answer[i] = "none")
  BY <1>1, <1>2, <1>3
<1>6. \A i \in Id : Completed(i)' = Completed(i)
  BY <1>1 DEF Completed
<1>7. Client!Answer(answer')
  BY <1>1, <1>5, <1>6 DEF Client!Answer
<1>8. QED
  BY <1>4, <1>7 DEF Client!Next

LEMMA ClientStep == PoolInv /\ [PoolNext]_allVars => [Client!Next]_(Client!vars)
<1> SUFFICES ASSUME PoolInv, [PoolNext]_allVars
             PROVE  Client!Next \/ UNCHANGED Client!vars
  OBVIOUS
<1>1. CASE UNCHANGED poolVars
  BY <1>1, ClientQuiet DEF poolVars, requests, exports
<1>2. CASE Send
  BY <1>2, ClientSends
<1>3. ASSUME NEW r \in Id, RequestTimesOut(r) PROVE Client!Next
  <2>1. /\ request[r] = "waiting" /\ request' = [request EXCEPT ![r] = "timedOut"]
        /\ UNCHANGED <<next, answer>>
    BY <1>3 DEF RequestTimesOut, exports
  <2>2. r < next
    <3>1. ~ (r >= next)
      BY <2>1 DEF PoolInv, Completions
    <3>2. QED
      BY <3>1, IdFacts DEF PoolInv, PoolType
  <2>3. QED
    BY <2>1, <2>2, ClientReturns
<1>4. ASSUME NEW w \in Callers, TakeMessage(w) \/ CallsDart(w) PROVE UNCHANGED Client!vars
  BY <1>4, ClientQuiet DEF TakeMessage, CallsDart, requests
<1>5. ASSUME NEW w \in Callers, PostAnswer(w) PROVE Client!Next
  BY <1>5, ClientAnswers
<1>6. ASSUME NEW a \in posted, HandleAnswer(a) PROVE Client!Next \/ UNCHANGED Client!vars
  <2>1. Completes(a) /\ UNCHANGED <<next, answer>>
    BY <1>6 DEF HandleAnswer, exports
  <2>2. a.id \in Id /\ a.result \in Results /\ answer[a.id] = a.result
    BY PostedById
  <2>3. a.id < next
    BY DEF PoolInv, OnTheWay
  <2>4. CASE request[a.id] = "waiting"
    BY <2>1, <2>2, <2>3, <2>4, ClientReturns DEF Completes
  <2>5. CASE request[a.id] # "waiting"
    BY <2>1, <2>5, ClientQuiet DEF Completes
  <2>6. QED
    BY <2>4, <2>5
<1>7. CASE Collect
  BY <1>7, ClientQuiet DEF Collect, requests, exports
<1>8. ASSUME NEW w \in Callers, Goroutine(w) \/ (Go(w) /\ UNCHANGED poolVars)
      PROVE  UNCHANGED poolVars
  BY <1>8 DEF Goroutine
<1>9. ASSUME NEW i \in Isolates, Listens(i) PROVE UNCHANGED poolVars
  BY <1>9 DEF Listens
<1>10. UNCHANGED allVars => UNCHANGED poolVars
  BY DEF allVars
<1>11. QED
  BY <1>1, <1>2, <1>3, <1>4, <1>5, <1>6, <1>7, <1>8, <1>9, <1>10
  DEF PoolNext, Worker, MainHandles

(* A request of Dart ends once, with the answer of its own export or with  *)
(* a timeout, whatever the workers do and however late they are            *)
(* (lib/synurang.dart:876).                                                *)
THEOREM RequestsImplementDartCall == PoolSpec => ImplementsCall
<1>1. PoolInit => Client!Init
  <2> SUFFICES ASSUME PoolInit PROVE Client!Init
    OBVIOUS
  <2>1. \A r \in Id : Completed(r) = "none"
    BY DEF PoolInit, Completed, Results
  <2>2. 1 .. next - 1 = {}
    BY DEF PoolInit
  <2>3. QED
    BY <2>1, <2>2 DEF PoolInit, Client!Init
<1>2. QED
  BY <1>1, ClientStep, PoolInvariance, PTL DEF PoolSpec, ImplementsCall, Client!Spec
=============================================================================
