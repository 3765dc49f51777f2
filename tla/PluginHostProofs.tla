-------------------------- MODULE PluginHostProofs --------------------------
(***************************************************************************)
(* Proofs about PluginHost, for any number of goroutines and streams: type *)
(* correctness; no call of the host is in the library once it is unloaded; *)
(* the library closes each stream once, and all of them before it goes.    *)
(*                                                                         *)
(* Proofs about PluginLibrary, for any capacity of the channels as well:   *)
(* the library does what PluginHost takes for granted, so that the safety  *)
(* of PluginHost carries over; no message is lost between Send and the     *)
(* handler, and the requests of every stream keep the promise of Pipe; the *)
(* end of a stream is its end.  The step lemmas of PluginHost are stated   *)
(* of Step, which allows what the library does to the host's view by       *)
(* itself, so that they serve for both specifications.                     *)
(***************************************************************************)
EXTENDS PluginLibrary, TLAPS

(* The tokens of wg that a thread holds are fixed by where it is.          *)
Outside == {"idle", "acqSend", "acqHalf", "acqRecv", "recvErr", "swapped", "recvSwapped",
            "collect", "wait"}
Tokens(l) == IF l \in Outside THEN 0 ELSE IF l = "undo" THEN 2 ELSE 1
TokensMatch == \A t \in Threads : wg[t] = Tokens(pc[t])

(* One thread closes the plugin, and none does before closed is set or     *)
(* after the library is unloaded.                                          *)
CloserPC == {"collect", "closing", "wait"}
OneCloser ==
  /\ \A t \in Threads : pc[t] \in CloserPC => closed /\ loaded
  /\ \A t, u \in Threads : pc[t] \in CloserPC /\ pc[u] \in CloserPC => t = u
  /\ \A t \in Threads : pc[t] = "wait" => toClose = {}

(* After the unloading nobody holds a token, and none is handed out.       *)
Unloaded == ~loaded => /\ closed /\ toClose = {}
                       /\ \A t \in Threads : wg[t] = 0

(* A stream that the library knows is in one place: active, to be closed   *)
(* by Close, or in the hands of the one thread that tracks or closes it.   *)
OwnerPC == ClosePC \cup {"track"}
Owner(t, h) == pc[t] \in OwnerPC /\ on[t] = h
Placed ==
  \A h \in registered : \/ h \in activeStreams
                        \/ h \in toClose
                        \/ \E t \in Threads : Owner(t, h)
Disjoint ==
  /\ activeStreams \cup toClose \subseteq registered
  /\ activeStreams \cap toClose = {}
  /\ closed => activeStreams = {}
  /\ ~closed => toClose = {}
  /\ \A t \in Threads : pc[t] \in OwnerPC =>
       on[t] \in Streams /\ on[t] \notin activeStreams /\ on[t] \notin toClose
  /\ \A t \in Threads : pc[t] = "track" => on[t] \in registered
  /\ \A t, u \in Threads : pc[t] \in OwnerPC /\ pc[u] \in OwnerPC /\ on[t] = on[u] => t = u

(* The operations of a PluginStream work on a stream that was opened.      *)
StreamPC == {"acqSend", "acqHalf", "acqRecv", "send", "half", "recv", "recvErr", "swapped",
             "recvSwapped", "sclose", "rclose"}
OnOpened == \A t \in Threads : pc[t] \in StreamPC => on[t] \in opened

IInv == TypeOK /\ TokensMatch /\ OneCloser /\ Unloaded /\ Placed /\ Disjoint /\ OnOpened

USE PluginAssumption

(* A step of the host, or one that the library makes by itself: it forgets *)
(* the stream that a thread is closing, or cancels a context.  A handle    *)
(* that is handed out is not one that somebody is still working on.        *)
Internal ==
  /\ \/ registered' = registered
     \/ \E t \in Threads : pc[t] \in ClosePC /\ registered' = registered \ {on[t]}
  /\ live' \subseteq live
  /\ UNCHANGED <<closed, loaded, symbols, activeStreams, toClose, wg, objects, pc, on, handlers>>
Fresh == \A t \in Threads : pc[t] \in OwnerPC => on[t] \notin handlers' \ handlers
Step == (Next /\ Fresh) \/ Internal

---------------------------------------------------------------------------
(* Initially nothing has happened.                                         *)
LEMMA IInvInit == Init => IInv
<1> SUFFICES ASSUME Init PROVE IInv
  OBVIOUS
<1>1. TypeOK
  <2>1. closed \in BOOLEAN /\ loaded \in BOOLEAN /\ invokers \in BOOLEAN /\ openers \in BOOLEAN
    BY Zenon DEF Init
  <2>2. wg \in [Threads -> 0..2] /\ pc \in [Threads -> PC]
    BY DEF Init, PC
  <2>3. QED
    BY <2>1, <2>2 DEF Init, TypeOK
<1>2. TokensMatch /\ OneCloser /\ Unloaded /\ OnOpened
  BY DEF Init, TokensMatch, Tokens, Outside, OneCloser, CloserPC, Unloaded, OnOpened, StreamPC
<1>3. Placed /\ Disjoint
  BY DEF Init, Placed, Disjoint, OwnerPC, ClosePC
<1>4. QED
  BY <1>1, <1>2, <1>3 DEF IInv

(* What the lemmas below expand in every step: the moves of a thread.      *)
USE DEF At, Goto, Stay, Return, Add, DoneWg, Enter, symbols, objects, library

(* Types.                                                                  *)
LEMMA TypeNext == IInv /\ [Step]_vars => TypeOK'
<1> SUFFICES ASSUME IInv, [Step]_vars PROVE TypeOK'
  OBVIOUS
<1> USE DEF IInv, TypeOK, PC, Inside, ClosePC, StreamPC, OwnerPC, OnOpened,
            Disjoint, TokensMatch, Tokens, Outside
<1>1. ASSUME NEW t \in Threads, Begin(t, "getInvoker") \/ Begin(t, "getStreamOpener")
      PROVE  TypeOK'
  BY <1>1 DEF Begin
<1>2. ASSUME NEW t \in Threads, GetInvoker(t)
      PROVE  TypeOK'
  <2>1. invokers' \in BOOLEAN
    BY <1>2, Zenon DEF GetInvoker
  <2>2. wg' \in [Threads -> 0..2] /\ pc' \in [Threads -> PC]
    BY <1>2 DEF GetInvoker
  <2>3. on' \in [Threads -> Streams \cup {NoStream}]
    BY <1>2 DEF GetInvoker
  <2>4. QED
    BY <1>2, <2>1, <2>2, <2>3 DEF GetInvoker
<1>3. ASSUME NEW t \in Threads, InvokeReturns(t) PROVE TypeOK'
  BY <1>3 DEF InvokeReturns
<1>4. ASSUME NEW t \in Threads, GetStreamOpener(t)
      PROVE  TypeOK'
  <2>1. openers' \in BOOLEAN
    BY <1>4, Zenon DEF GetStreamOpener
  <2>2. wg' \in [Threads -> 0..2] /\ pc' \in [Threads -> PC]
    BY <1>4 DEF GetStreamOpener
  <2>3. on' \in [Threads -> Streams \cup {NoStream}]
    BY <1>4 DEF GetStreamOpener
  <2>4. QED
    BY <1>4, <2>1, <2>2, <2>3 DEF GetStreamOpener
<1>5. ASSUME NEW t \in Threads, OpenReturns(t) PROVE TypeOK'
  BY <1>5 DEF OpenReturns
<1>6. ASSUME NEW t \in Threads, Track(t) PROVE TypeOK'
  BY <1>6 DEF Track, TooLate
<1>7. ASSUME NEW t \in Threads, Undo(t) PROVE TypeOK'
  BY <1>7 DEF Undo, LibraryClose
<1>8. ASSUME NEW t \in Threads, NEW h \in Streams, StartSend(t, h, "acqSend") \/ StartSend(t, h, "acqHalf")
      PROVE  TypeOK'
  BY <1>8 DEF StartSend
<1>9. ASSUME NEW t \in Threads, NEW h \in Streams, StartRecv(t, h) PROVE TypeOK'
  BY <1>9 DEF StartRecv
<1>10. ASSUME NEW t \in Threads, AcquireSend(t, "acqSend", "send") \/ AcquireSend(t, "acqHalf", "half")
      PROVE  TypeOK'
  BY <1>10 DEF AcquireSend
<1>11. ASSUME NEW t \in Threads, AcquireRecv(t) PROVE TypeOK'
  BY <1>11 DEF AcquireRecv
<1>12. ASSUME NEW t \in Threads, SendReturns(t) PROVE TypeOK'
  BY <1>12 DEF SendReturns
<1>13. ASSUME NEW t \in Threads, RecvReturns(t) PROVE TypeOK'
  BY <1>13 DEF RecvReturns
<1>14. ASSUME NEW t \in Threads, NEW h \in Streams, CloseStream(t, h) PROVE TypeOK'
  BY <1>14 DEF CloseStream
<1>15. ASSUME NEW t \in Threads, RecvFails(t) PROVE TypeOK'
  BY <1>15 DEF RecvFails
<1>16. ASSUME NEW t \in Threads, StreamClose(t) PROVE TypeOK'
  BY <1>16 DEF StreamClose, Closable, Release
<1>17. ASSUME NEW t \in Threads, StreamCloseReturns(t) PROVE TypeOK'
  BY <1>17 DEF StreamCloseReturns, LibraryClose, Release
<1>18. ASSUME NEW t \in Threads, ClosePlugin(t) PROVE TypeOK'
  BY <1>18 DEF ClosePlugin, ToClose
<1>19. ASSUME NEW t \in Threads, CloseNext(t) PROVE TypeOK'
  BY <1>19 DEF CloseNext
<1>20. ASSUME NEW t \in Threads, CloseOneReturns(t) PROVE TypeOK'
  BY <1>20 DEF CloseOneReturns, LibraryClose
<1>21. ASSUME NEW t \in Threads, Unload(t) PROVE TypeOK'
  BY <1>21 DEF Unload, AllDone
<1>22. ASSUME NEW h \in Streams, HandlerReturns(h) PROVE TypeOK'
  BY <1>22 DEF HandlerReturns
<1>23. CASE UNCHANGED vars
  BY <1>23 DEF vars
<1>24. CASE Internal
  BY <1>24 DEF Internal
<1>25. QED
  BY <1>1, <1>2, <1>3, <1>4, <1>5, <1>6, <1>7, <1>8, <1>9, <1>10, <1>11, <1>12,
     <1>13, <1>14, <1>15, <1>16, <1>17, <1>18, <1>19, <1>20, <1>21, <1>22, <1>23, <1>24
  DEF Step, Next, Continue, Start

(* Every step that moves a thread moves its tokens.                        *)
LEMMA TokensNext == IInv /\ [Step]_vars => TokensMatch'
<1> SUFFICES ASSUME IInv, [Step]_vars PROVE TokensMatch'
  OBVIOUS
<1> USE DEF IInv, TokensMatch, Tokens, Outside, TypeOK
<1>1. ASSUME NEW t \in Threads, Begin(t, "getInvoker") \/ Begin(t, "getStreamOpener")
      PROVE  TokensMatch'
  BY <1>1 DEF Begin
<1>2. ASSUME NEW t \in Threads, GetInvoker(t) PROVE TokensMatch'
  BY <1>2 DEF GetInvoker, Usable
<1>3. ASSUME NEW t \in Threads, InvokeReturns(t) PROVE TokensMatch'
  BY <1>3 DEF InvokeReturns
<1>4. ASSUME NEW t \in Threads, GetStreamOpener(t) PROVE TokensMatch'
  BY <1>4 DEF GetStreamOpener, Usable
<1>5. ASSUME NEW t \in Threads, OpenReturns(t) PROVE TokensMatch'
  BY <1>5 DEF OpenReturns
<1>6. ASSUME NEW t \in Threads, Track(t) PROVE TokensMatch'
  BY <1>6 DEF Track, TooLate
<1>7. ASSUME NEW t \in Threads, Undo(t) PROVE TokensMatch'
  BY <1>7 DEF Undo, LibraryClose
<1>8. ASSUME NEW t \in Threads, NEW h \in Streams, StartSend(t, h, "acqSend") \/ StartSend(t, h, "acqHalf")
      PROVE  TokensMatch'
  BY <1>8 DEF StartSend
<1>9. ASSUME NEW t \in Threads, NEW h \in Streams, StartRecv(t, h) PROVE TokensMatch'
  BY <1>9 DEF StartRecv
<1>10. ASSUME NEW t \in Threads, AcquireSend(t, "acqSend", "send") \/ AcquireSend(t, "acqHalf", "half")
      PROVE  TokensMatch'
  BY <1>10 DEF AcquireSend
<1>11. ASSUME NEW t \in Threads, AcquireRecv(t) PROVE TokensMatch'
  BY <1>11 DEF AcquireRecv
<1>12. ASSUME NEW t \in Threads, SendReturns(t) PROVE TokensMatch'
  BY <1>12 DEF SendReturns
<1>13. ASSUME NEW t \in Threads, RecvReturns(t) PROVE TokensMatch'
  BY <1>13 DEF RecvReturns
<1>14. ASSUME NEW t \in Threads, NEW h \in Streams, CloseStream(t, h) PROVE TokensMatch'
  BY <1>14 DEF CloseStream
<1>15. ASSUME NEW t \in Threads, RecvFails(t) PROVE TokensMatch'
  BY <1>15 DEF RecvFails
<1>16. ASSUME NEW t \in Threads, StreamClose(t) PROVE TokensMatch'
  BY <1>16 DEF StreamClose, Closable, Release
<1>17. ASSUME NEW t \in Threads, StreamCloseReturns(t) PROVE TokensMatch'
  BY <1>17 DEF StreamCloseReturns, LibraryClose, Release
<1>18. ASSUME NEW t \in Threads, ClosePlugin(t) PROVE TokensMatch'
  BY <1>18 DEF ClosePlugin, ToClose
<1>19. ASSUME NEW t \in Threads, CloseNext(t) PROVE TokensMatch'
  BY <1>19 DEF CloseNext
<1>20. ASSUME NEW t \in Threads, CloseOneReturns(t) PROVE TokensMatch'
  BY <1>20 DEF CloseOneReturns, LibraryClose
<1>21. ASSUME NEW t \in Threads, Unload(t) PROVE TokensMatch'
  BY <1>21 DEF Unload, AllDone
<1>22. ASSUME NEW h \in Streams, HandlerReturns(h) PROVE TokensMatch'
  BY <1>22 DEF HandlerReturns
<1>23. CASE UNCHANGED vars
  BY <1>23 DEF vars
<1>24. CASE Internal
  BY <1>24 DEF Internal
<1>25. QED
  BY <1>1, <1>2, <1>3, <1>4, <1>5, <1>6, <1>7, <1>8, <1>9, <1>10, <1>11, <1>12,
     <1>13, <1>14, <1>15, <1>16, <1>17, <1>18, <1>19, <1>20, <1>21, <1>22, <1>23, <1>24
  DEF Step, Next, Continue, Start

(* Only ClosePlugin makes a closer, and it sets closed.                    *)
LEMMA OneCloserNext == IInv /\ [Step]_vars => OneCloser'
<1> SUFFICES ASSUME IInv, [Step]_vars PROVE OneCloser'
  OBVIOUS
<1> USE DEF IInv, OneCloser, CloserPC, TypeOK, TokensMatch, Tokens, Outside,
            Unloaded
<1>1. ASSUME NEW t \in Threads, Begin(t, "getInvoker") \/ Begin(t, "getStreamOpener")
      PROVE  OneCloser'
  BY <1>1 DEF Begin
<1>2. ASSUME NEW t \in Threads, GetInvoker(t) PROVE OneCloser'
  BY <1>2 DEF GetInvoker, Usable
<1>3. ASSUME NEW t \in Threads, InvokeReturns(t) PROVE OneCloser'
  BY <1>3 DEF InvokeReturns
<1>4. ASSUME NEW t \in Threads, GetStreamOpener(t) PROVE OneCloser'
  BY <1>4 DEF GetStreamOpener, Usable
<1>5. ASSUME NEW t \in Threads, OpenReturns(t) PROVE OneCloser'
  BY <1>5 DEF OpenReturns
<1>6. ASSUME NEW t \in Threads, Track(t) PROVE OneCloser'
  BY <1>6 DEF Track, TooLate
<1>7. ASSUME NEW t \in Threads, Undo(t) PROVE OneCloser'
  BY <1>7 DEF Undo, LibraryClose
<1>8. ASSUME NEW t \in Threads, NEW h \in Streams, StartSend(t, h, "acqSend") \/ StartSend(t, h, "acqHalf")
      PROVE  OneCloser'
  BY <1>8 DEF StartSend
<1>9. ASSUME NEW t \in Threads, NEW h \in Streams, StartRecv(t, h) PROVE OneCloser'
  BY <1>9 DEF StartRecv
<1>10. ASSUME NEW t \in Threads, AcquireSend(t, "acqSend", "send") \/ AcquireSend(t, "acqHalf", "half")
      PROVE  OneCloser'
  BY <1>10 DEF AcquireSend
<1>11. ASSUME NEW t \in Threads, AcquireRecv(t) PROVE OneCloser'
  BY <1>11 DEF AcquireRecv
<1>12. ASSUME NEW t \in Threads, SendReturns(t) PROVE OneCloser'
  BY <1>12 DEF SendReturns
<1>13. ASSUME NEW t \in Threads, RecvReturns(t) PROVE OneCloser'
  BY <1>13 DEF RecvReturns
<1>14. ASSUME NEW t \in Threads, NEW h \in Streams, CloseStream(t, h) PROVE OneCloser'
  BY <1>14 DEF CloseStream
<1>15. ASSUME NEW t \in Threads, RecvFails(t) PROVE OneCloser'
  BY <1>15 DEF RecvFails
<1>16. ASSUME NEW t \in Threads, StreamClose(t) PROVE OneCloser'
  BY <1>16 DEF StreamClose, Closable, Release
<1>17. ASSUME NEW t \in Threads, StreamCloseReturns(t) PROVE OneCloser'
  BY <1>17 DEF StreamCloseReturns, LibraryClose, Release
<1>18. ASSUME NEW t \in Threads, ClosePlugin(t) PROVE OneCloser'
  BY <1>18 DEF ClosePlugin, ToClose
<1>19. ASSUME NEW t \in Threads, CloseNext(t) PROVE OneCloser'
  BY <1>19 DEF CloseNext
<1>20. ASSUME NEW t \in Threads, CloseOneReturns(t) PROVE OneCloser'
  BY <1>20 DEF CloseOneReturns, LibraryClose
<1>21. ASSUME NEW t \in Threads, Unload(t) PROVE OneCloser'
  BY <1>21 DEF Unload, AllDone
<1>22. ASSUME NEW h \in Streams, HandlerReturns(h) PROVE OneCloser'
  BY <1>22 DEF HandlerReturns
<1>23. CASE UNCHANGED vars
  BY <1>23 DEF vars
<1>24. CASE Internal
  BY <1>24 DEF Internal
<1>25. QED
  BY <1>1, <1>2, <1>3, <1>4, <1>5, <1>6, <1>7, <1>8, <1>9, <1>10, <1>11, <1>12,
     <1>13, <1>14, <1>15, <1>16, <1>17, <1>18, <1>19, <1>20, <1>21, <1>22, <1>23, <1>24
  DEF Step, Next, Continue, Start

(* Unload finds all tokens returned; afterwards closed refuses new ones.   *)
LEMMA UnloadedNext == IInv /\ [Step]_vars => Unloaded'
<1> SUFFICES ASSUME IInv, [Step]_vars PROVE Unloaded'
  OBVIOUS
<1> USE DEF IInv, Unloaded, TokensMatch, Tokens, Outside, OneCloser, CloserPC,
            TypeOK
<1>1. ASSUME NEW t \in Threads, Begin(t, "getInvoker") \/ Begin(t, "getStreamOpener")
      PROVE  Unloaded'
  BY <1>1 DEF Begin
<1>2. ASSUME NEW t \in Threads, GetInvoker(t) PROVE Unloaded'
  BY <1>2 DEF GetInvoker, Usable
<1>3. ASSUME NEW t \in Threads, InvokeReturns(t) PROVE Unloaded'
  BY <1>3 DEF InvokeReturns
<1>4. ASSUME NEW t \in Threads, GetStreamOpener(t) PROVE Unloaded'
  BY <1>4 DEF GetStreamOpener, Usable
<1>5. ASSUME NEW t \in Threads, OpenReturns(t) PROVE Unloaded'
  BY <1>5 DEF OpenReturns
<1>6. ASSUME NEW t \in Threads, Track(t) PROVE Unloaded'
  BY <1>6 DEF Track, TooLate
<1>7. ASSUME NEW t \in Threads, Undo(t) PROVE Unloaded'
  BY <1>7 DEF Undo, LibraryClose
<1>8. ASSUME NEW t \in Threads, NEW h \in Streams, StartSend(t, h, "acqSend") \/ StartSend(t, h, "acqHalf")
      PROVE  Unloaded'
  BY <1>8 DEF StartSend
<1>9. ASSUME NEW t \in Threads, NEW h \in Streams, StartRecv(t, h) PROVE Unloaded'
  BY <1>9 DEF StartRecv
<1>10. ASSUME NEW t \in Threads, AcquireSend(t, "acqSend", "send") \/ AcquireSend(t, "acqHalf", "half")
      PROVE  Unloaded'
  BY <1>10 DEF AcquireSend
<1>11. ASSUME NEW t \in Threads, AcquireRecv(t) PROVE Unloaded'
  BY <1>11 DEF AcquireRecv
<1>12. ASSUME NEW t \in Threads, SendReturns(t) PROVE Unloaded'
  BY <1>12 DEF SendReturns
<1>13. ASSUME NEW t \in Threads, RecvReturns(t) PROVE Unloaded'
  BY <1>13 DEF RecvReturns
<1>14. ASSUME NEW t \in Threads, NEW h \in Streams, CloseStream(t, h) PROVE Unloaded'
  BY <1>14 DEF CloseStream
<1>15. ASSUME NEW t \in Threads, RecvFails(t) PROVE Unloaded'
  BY <1>15 DEF RecvFails
<1>16. ASSUME NEW t \in Threads, StreamClose(t) PROVE Unloaded'
  BY <1>16 DEF StreamClose, Closable, Release
<1>17. ASSUME NEW t \in Threads, StreamCloseReturns(t) PROVE Unloaded'
  BY <1>17 DEF StreamCloseReturns, LibraryClose, Release
<1>18. ASSUME NEW t \in Threads, ClosePlugin(t) PROVE Unloaded'
  BY <1>18 DEF ClosePlugin, ToClose
<1>19. ASSUME NEW t \in Threads, CloseNext(t) PROVE Unloaded'
  BY <1>19 DEF CloseNext
<1>20. ASSUME NEW t \in Threads, CloseOneReturns(t) PROVE Unloaded'
  BY <1>20 DEF CloseOneReturns, LibraryClose
<1>21. ASSUME NEW t \in Threads, Unload(t) PROVE Unloaded'
  BY <1>21 DEF Unload, AllDone
<1>22. ASSUME NEW h \in Streams, HandlerReturns(h) PROVE Unloaded'
  BY <1>22 DEF HandlerReturns
<1>23. CASE UNCHANGED vars
  BY <1>23 DEF vars
<1>24. CASE Internal
  BY <1>24 DEF Internal
<1>25. QED
  BY <1>1, <1>2, <1>3, <1>4, <1>5, <1>6, <1>7, <1>8, <1>9, <1>10, <1>11, <1>12,
     <1>13, <1>14, <1>15, <1>16, <1>17, <1>18, <1>19, <1>20, <1>21, <1>22, <1>23, <1>24
  DEF Step, Next, Continue, Start

(* A known stream never falls between two places.                          *)
LEMMA PlacedNext == IInv /\ [Step]_vars => Placed'
<1> SUFFICES ASSUME IInv, [Step]_vars PROVE Placed'
  OBVIOUS
<1> USE DEF IInv, Placed, Owner, OwnerPC, ClosePC, TypeOK, Disjoint, OneCloser,
            CloserPC
<1>1. ASSUME NEW t \in Threads, Begin(t, "getInvoker") \/ Begin(t, "getStreamOpener")
      PROVE  Placed'
  BY <1>1 DEF Begin
<1>2. ASSUME NEW t \in Threads, GetInvoker(t) PROVE Placed'
  BY <1>2 DEF GetInvoker, Usable
<1>3. ASSUME NEW t \in Threads, InvokeReturns(t) PROVE Placed'
  BY <1>3 DEF InvokeReturns
<1>4. ASSUME NEW t \in Threads, GetStreamOpener(t) PROVE Placed'
  BY <1>4 DEF GetStreamOpener, Usable
<1>5. ASSUME NEW t \in Threads, OpenReturns(t) PROVE Placed'
  BY <1>5 DEF OpenReturns
<1>6. ASSUME NEW t \in Threads, Track(t) PROVE Placed'
  BY <1>6 DEF Track, TooLate
<1>7. ASSUME NEW t \in Threads, Undo(t) PROVE Placed'
  BY <1>7 DEF Undo, LibraryClose
<1>8. ASSUME NEW t \in Threads, NEW h \in Streams, StartSend(t, h, "acqSend") \/ StartSend(t, h, "acqHalf")
      PROVE  Placed'
  BY <1>8 DEF StartSend
<1>9. ASSUME NEW t \in Threads, NEW h \in Streams, StartRecv(t, h) PROVE Placed'
  BY <1>9 DEF StartRecv
<1>10. ASSUME NEW t \in Threads, AcquireSend(t, "acqSend", "send") \/ AcquireSend(t, "acqHalf", "half")
      PROVE  Placed'
  BY <1>10 DEF AcquireSend
<1>11. ASSUME NEW t \in Threads, AcquireRecv(t) PROVE Placed'
  BY <1>11 DEF AcquireRecv
<1>12. ASSUME NEW t \in Threads, SendReturns(t) PROVE Placed'
  BY <1>12 DEF SendReturns
<1>13. ASSUME NEW t \in Threads, RecvReturns(t) PROVE Placed'
  BY <1>13 DEF RecvReturns
<1>14. ASSUME NEW t \in Threads, NEW h \in Streams, CloseStream(t, h) PROVE Placed'
  BY <1>14 DEF CloseStream
<1>15. ASSUME NEW t \in Threads, RecvFails(t) PROVE Placed'
  BY <1>15 DEF RecvFails
<1>16. ASSUME NEW t \in Threads, StreamClose(t) PROVE Placed'
  BY <1>16 DEF StreamClose, Closable, Release
<1>17. ASSUME NEW t \in Threads, StreamCloseReturns(t) PROVE Placed'
  BY <1>17 DEF StreamCloseReturns, LibraryClose, Release
<1>18. ASSUME NEW t \in Threads, ClosePlugin(t) PROVE Placed'
  BY <1>18 DEF ClosePlugin, ToClose
<1>19. ASSUME NEW t \in Threads, CloseNext(t) PROVE Placed'
  BY <1>19 DEF CloseNext
<1>20. ASSUME NEW t \in Threads, CloseOneReturns(t) PROVE Placed'
  BY <1>20 DEF CloseOneReturns, LibraryClose
<1>21. ASSUME NEW t \in Threads, Unload(t) PROVE Placed'
  BY <1>21 DEF Unload, AllDone
<1>22. ASSUME NEW h \in Streams, HandlerReturns(h) PROVE Placed'
  BY <1>22 DEF HandlerReturns
<1>23. CASE UNCHANGED vars
  BY <1>23 DEF vars
<1>24. CASE Internal
  BY <1>24 DEF Internal
<1>25. QED
  BY <1>1, <1>2, <1>3, <1>4, <1>5, <1>6, <1>7, <1>8, <1>9, <1>10, <1>11, <1>12,
     <1>13, <1>14, <1>15, <1>16, <1>17, <1>18, <1>19, <1>20, <1>21, <1>22, <1>23, <1>24
  DEF Step, Next, Continue, Start

(* A known stream is never in two places.                                  *)
LEMMA DisjointNext == IInv /\ [Step]_vars => Disjoint'
<1> SUFFICES ASSUME IInv, [Step]_vars PROVE Disjoint'
  OBVIOUS
<1> USE DEF IInv, Disjoint, OwnerPC, ClosePC, TypeOK, OneCloser, CloserPC,
            OnOpened, StreamPC
<1>1. ASSUME NEW t \in Threads, Begin(t, "getInvoker") \/ Begin(t, "getStreamOpener")
      PROVE  Disjoint'
  BY <1>1 DEF Begin
<1>2. ASSUME NEW t \in Threads, GetInvoker(t) PROVE Disjoint'
  BY <1>2 DEF GetInvoker, Usable
<1>3. ASSUME NEW t \in Threads, InvokeReturns(t) PROVE Disjoint'
  BY <1>3 DEF InvokeReturns
<1>4. ASSUME NEW t \in Threads, GetStreamOpener(t) PROVE Disjoint'
  BY <1>4 DEF GetStreamOpener, Usable
<1>5. ASSUME NEW t \in Threads, OpenReturns(t), Fresh PROVE Disjoint'
  BY <1>5 DEF OpenReturns, Fresh
<1>6. ASSUME NEW t \in Threads, Track(t) PROVE Disjoint'
  BY <1>6 DEF Track, TooLate
<1>7. ASSUME NEW t \in Threads, Undo(t) PROVE Disjoint'
  BY <1>7 DEF Undo, LibraryClose
<1>8. ASSUME NEW t \in Threads, NEW h \in Streams, StartSend(t, h, "acqSend") \/ StartSend(t, h, "acqHalf")
      PROVE  Disjoint'
  BY <1>8 DEF StartSend
<1>9. ASSUME NEW t \in Threads, NEW h \in Streams, StartRecv(t, h) PROVE Disjoint'
  BY <1>9 DEF StartRecv
<1>10. ASSUME NEW t \in Threads, AcquireSend(t, "acqSend", "send") \/ AcquireSend(t, "acqHalf", "half")
      PROVE  Disjoint'
  BY <1>10 DEF AcquireSend
<1>11. ASSUME NEW t \in Threads, AcquireRecv(t) PROVE Disjoint'
  BY <1>11 DEF AcquireRecv
<1>12. ASSUME NEW t \in Threads, SendReturns(t) PROVE Disjoint'
  BY <1>12 DEF SendReturns
<1>13. ASSUME NEW t \in Threads, RecvReturns(t) PROVE Disjoint'
  BY <1>13 DEF RecvReturns
<1>14. ASSUME NEW t \in Threads, NEW h \in Streams, CloseStream(t, h) PROVE Disjoint'
  BY <1>14 DEF CloseStream
<1>15. ASSUME NEW t \in Threads, RecvFails(t) PROVE Disjoint'
  BY <1>15 DEF RecvFails
<1>16. ASSUME NEW t \in Threads, StreamClose(t) PROVE Disjoint'
  BY <1>16 DEF StreamClose, Closable, Release
<1>17. ASSUME NEW t \in Threads, StreamCloseReturns(t) PROVE Disjoint'
  BY <1>17 DEF StreamCloseReturns, LibraryClose, Release
<1>18. ASSUME NEW t \in Threads, ClosePlugin(t) PROVE Disjoint'
  BY <1>18 DEF ClosePlugin, ToClose
<1>19. ASSUME NEW t \in Threads, CloseNext(t) PROVE Disjoint'
  BY <1>19 DEF CloseNext
<1>20. ASSUME NEW t \in Threads, CloseOneReturns(t) PROVE Disjoint'
  BY <1>20 DEF CloseOneReturns, LibraryClose
<1>21. ASSUME NEW t \in Threads, Unload(t) PROVE Disjoint'
  BY <1>21 DEF Unload, AllDone
<1>22. ASSUME NEW h \in Streams, HandlerReturns(h) PROVE Disjoint'
  BY <1>22 DEF HandlerReturns
<1>23. CASE UNCHANGED vars
  BY <1>23 DEF vars
<1>24. CASE Internal
  BY <1>24 DEF Internal
<1>25. QED
  BY <1>1, <1>2, <1>3, <1>4, <1>5, <1>6, <1>7, <1>8, <1>9, <1>10, <1>11, <1>12,
     <1>13, <1>14, <1>15, <1>16, <1>17, <1>18, <1>19, <1>20, <1>21, <1>22, <1>23, <1>24
  DEF Step, Next, Continue, Start

(* An operation that works on a stream found it open or stays on it.       *)
LEMMA OnOpenedNext == IInv /\ [Step]_vars => OnOpened'
<1> SUFFICES ASSUME IInv, [Step]_vars PROVE OnOpened'
  OBVIOUS
<1> USE DEF IInv, OnOpened, StreamPC, TypeOK, Disjoint, OwnerPC, ClosePC
<1>1. ASSUME NEW t \in Threads, Begin(t, "getInvoker") \/ Begin(t, "getStreamOpener")
      PROVE  OnOpened'
  BY <1>1 DEF Begin
<1>2. ASSUME NEW t \in Threads, GetInvoker(t) PROVE OnOpened'
  BY <1>2 DEF GetInvoker, Usable
<1>3. ASSUME NEW t \in Threads, InvokeReturns(t) PROVE OnOpened'
  BY <1>3 DEF InvokeReturns
<1>4. ASSUME NEW t \in Threads, GetStreamOpener(t) PROVE OnOpened'
  BY <1>4 DEF GetStreamOpener, Usable
<1>5. ASSUME NEW t \in Threads, OpenReturns(t) PROVE OnOpened'
  BY <1>5 DEF OpenReturns
<1>6. ASSUME NEW t \in Threads, Track(t) PROVE OnOpened'
  BY <1>6 DEF Track, TooLate
<1>7. ASSUME NEW t \in Threads, Undo(t) PROVE OnOpened'
  BY <1>7 DEF Undo, LibraryClose
<1>8. ASSUME NEW t \in Threads, NEW h \in Streams, StartSend(t, h, "acqSend") \/ StartSend(t, h, "acqHalf")
      PROVE  OnOpened'
  BY <1>8 DEF StartSend
<1>9. ASSUME NEW t \in Threads, NEW h \in Streams, StartRecv(t, h) PROVE OnOpened'
  BY <1>9 DEF StartRecv
<1>10. ASSUME NEW t \in Threads, AcquireSend(t, "acqSend", "send") \/ AcquireSend(t, "acqHalf", "half")
      PROVE  OnOpened'
  BY <1>10 DEF AcquireSend
<1>11. ASSUME NEW t \in Threads, AcquireRecv(t) PROVE OnOpened'
  BY <1>11 DEF AcquireRecv
<1>12. ASSUME NEW t \in Threads, SendReturns(t) PROVE OnOpened'
  BY <1>12 DEF SendReturns
<1>13. ASSUME NEW t \in Threads, RecvReturns(t) PROVE OnOpened'
  BY <1>13 DEF RecvReturns
<1>14. ASSUME NEW t \in Threads, NEW h \in Streams, CloseStream(t, h) PROVE OnOpened'
  BY <1>14 DEF CloseStream
<1>15. ASSUME NEW t \in Threads, RecvFails(t) PROVE OnOpened'
  BY <1>15 DEF RecvFails
<1>16. ASSUME NEW t \in Threads, StreamClose(t) PROVE OnOpened'
  BY <1>16 DEF StreamClose, Closable, Release
<1>17. ASSUME NEW t \in Threads, StreamCloseReturns(t) PROVE OnOpened'
  BY <1>17 DEF StreamCloseReturns, LibraryClose, Release
<1>18. ASSUME NEW t \in Threads, ClosePlugin(t) PROVE OnOpened'
  BY <1>18 DEF ClosePlugin, ToClose
<1>19. ASSUME NEW t \in Threads, CloseNext(t) PROVE OnOpened'
  BY <1>19 DEF CloseNext
<1>20. ASSUME NEW t \in Threads, CloseOneReturns(t) PROVE OnOpened'
  BY <1>20 DEF CloseOneReturns, LibraryClose
<1>21. ASSUME NEW t \in Threads, Unload(t) PROVE OnOpened'
  BY <1>21 DEF Unload, AllDone
<1>22. ASSUME NEW h \in Streams, HandlerReturns(h) PROVE OnOpened'
  BY <1>22 DEF HandlerReturns
<1>23. CASE UNCHANGED vars
  BY <1>23 DEF vars
<1>24. CASE Internal
  BY <1>24 DEF Internal
<1>25. QED
  BY <1>1, <1>2, <1>3, <1>4, <1>5, <1>6, <1>7, <1>8, <1>9, <1>10, <1>11, <1>12,
     <1>13, <1>14, <1>15, <1>16, <1>17, <1>18, <1>19, <1>20, <1>21, <1>22, <1>23, <1>24
  DEF Step, Next, Continue, Start

---------------------------------------------------------------------------
LEMMA IInvNext == IInv /\ [Step]_vars => IInv'
  BY TypeNext, TokensNext, OneCloserNext, UnloadedNext, PlacedNext, DisjointNext,
     OnOpenedNext DEF IInv

(* The host alone: a call that closes a stream is one step, so the stream  *)
(* is known to the library until the call returns.                         *)
Held == \A t \in Threads : pc[t] \in ClosePC => on[t] \in registered

LEMMA HeldNext == IInv /\ Held /\ [Next]_vars => Held'
<1> SUFFICES ASSUME IInv, Held, [Next]_vars PROVE Held'
  OBVIOUS
<1> USE DEF IInv, Held, TypeOK, ClosePC
<1>1. ASSUME NEW t \in Threads, Undo(t) \/ StreamCloseReturns(t) \/ CloseOneReturns(t) PROVE Held'
  BY <1>1 DEF Undo, StreamCloseReturns, CloseOneReturns, LibraryClose, Disjoint, OwnerPC
<1>2. ASSUME NEW t \in Threads, Track(t) \/ StreamClose(t) \/ CloseNext(t) PROVE Held'
  <2>1. CASE Track(t)
    BY <2>1 DEF Track, TooLate, Disjoint
  <2>2. CASE StreamClose(t)
    BY <2>2 DEF StreamClose, Closable, Release, Disjoint
  <2>3. CASE CloseNext(t)
    BY <2>3 DEF CloseNext, Disjoint
  <2>4. QED
    BY <1>2, <2>1, <2>2, <2>3
<1>3. ASSUME NEW t \in Threads, OpenReturns(t) PROVE Held'
  BY <1>3 DEF OpenReturns
<1>4. ASSUME NEW t \in Threads, GetInvoker(t) \/ InvokeReturns(t) \/ GetStreamOpener(t)
      PROVE  Held'
  BY <1>4 DEF GetInvoker, InvokeReturns, GetStreamOpener
<1>5. ASSUME NEW t \in Threads,
             AcquireSend(t, "acqSend", "send") \/ AcquireSend(t, "acqHalf", "half") \/ AcquireRecv(t)
      PROVE  Held'
  BY <1>5 DEF AcquireSend, AcquireRecv
<1>6. ASSUME NEW t \in Threads, SendReturns(t) \/ RecvReturns(t) \/ RecvFails(t) \/ Unload(t)
      PROVE  Held'
  BY <1>6 DEF SendReturns, RecvReturns, RecvFails, Unload
<1>7. ASSUME NEW t \in Threads, Start(t) PROVE Held'
  BY <1>7 DEF Start, Begin, StartSend, StartRecv, CloseStream, ClosePlugin
<1>8. ASSUME NEW h \in Streams, HandlerReturns(h) PROVE Held'
  BY <1>8 DEF HandlerReturns
<1>9. CASE UNCHANGED vars
  BY <1>9 DEF vars
<1>10. QED
  BY <1>1, <1>2, <1>3, <1>4, <1>5, <1>6, <1>7, <1>8, <1>9 DEF Next, Continue

(* Opening is the only step that adds a handler.                           *)
LEMMA NewHandlers ==
  ASSUME Next, \A t \in Threads : ~OpenReturns(t)
  PROVE  handlers' \subseteq handlers
<1>1. ASSUME NEW t \in Threads,
             GetInvoker(t) \/ InvokeReturns(t) \/ GetStreamOpener(t) \/ Track(t) \/ Undo(t)
      PROVE  handlers' = handlers
  BY <1>1 DEF GetInvoker, InvokeReturns, GetStreamOpener, Track, Undo, LibraryClose, library
<1>2. ASSUME NEW t \in Threads,
             \/ AcquireSend(t, "acqSend", "send") \/ AcquireSend(t, "acqHalf", "half")
             \/ AcquireRecv(t) \/ SendReturns(t) \/ RecvReturns(t) \/ RecvFails(t)
      PROVE  handlers' = handlers
  BY <1>2 DEF AcquireSend, AcquireRecv, SendReturns, RecvReturns, RecvFails, library
<1>3. ASSUME NEW t \in Threads,
             StreamClose(t) \/ StreamCloseReturns(t) \/ CloseNext(t) \/ CloseOneReturns(t) \/ Unload(t)
      PROVE  handlers' = handlers
  BY <1>3 DEF StreamClose, StreamCloseReturns, CloseNext, CloseOneReturns, Unload, LibraryClose,
              library
<1>4. ASSUME NEW t \in Threads, Start(t) PROVE handlers' = handlers
  BY <1>4 DEF Start, Begin, StartSend, StartRecv, CloseStream, ClosePlugin, library
<1>5. ASSUME NEW h \in Streams, HandlerReturns(h) PROVE handlers' \subseteq handlers
  BY <1>5 DEF HandlerReturns
<1>6. QED
  BY <1>1, <1>2, <1>3, <1>4, <1>5 DEF Next, Continue

LEMMA HostSteps == IInv /\ Held /\ [Next]_vars => [Step]_vars
<1> SUFFICES ASSUME IInv, Held, Next PROVE Fresh
  BY DEF Step
<1>1. CASE \E t \in Threads : OpenReturns(t)
  BY <1>1 DEF OpenReturns, Fresh, OwnerPC, IInv, Disjoint, Held
<1>2. CASE \A t \in Threads : ~OpenReturns(t)
  BY <1>2, NewHandlers DEF Fresh
<1>3. QED
  BY <1>1, <1>2

LEMMA IInvAlways == Spec => [](IInv /\ Held)
<1>1. Init => Held
  BY DEF Init, Held, ClosePC
<1>2. QED
  BY IInvInit, IInvNext, HostSteps, HeldNext, <1>1, PTL DEF Spec

LEMMA OutsideWhenUnloaded == IInv => NoCallAfterUnload
  BY DEF IInv, Unloaded, TokensMatch, Tokens, Outside, NoCallAfterUnload, Inside, ClosePC

LEMMA ClosedWhenUnloaded == IInv => AllStreamsClosed
<1> SUFFICES ASSUME IInv, ~loaded PROVE registered = {}
  BY DEF AllStreamsClosed
<1>1. \A t \in Threads : pc[t] \notin OwnerPC
  BY DEF IInv, Unloaded, TokensMatch, Tokens, Outside, OwnerPC, ClosePC
<1>2. activeStreams = {} /\ toClose = {}
  BY DEF IInv, Unloaded, Disjoint
<1>3. QED
  BY <1>1, <1>2 DEF IInv, Placed, Owner

(* Every variable keeps its type; wg in particular is never negative,      *)
(* which would panic.                                                      *)
THEOREM TypeCorrect == Spec => []TypeOK
  BY IInvAlways, PTL DEF IInv

(* No goroutine of the host executes in the library after Close has        *)
(* unloaded it (Plugin.Close, plugin.go:156-168).                          *)
THEOREM CallsStayInside == Spec => []NoCallAfterUnload
  BY OutsideWhenUnloaded, IInvAlways, PTL

(* The library is asked to close a stream by one thread only, and only     *)
(* while it knows the stream (plugin.go:134).                              *)
THEOREM StreamsClosedOnce == Spec => []ClosedOnce
<1>1. IInv /\ Held => ClosedOnce
  BY DEF IInv, Held, Disjoint, OwnerPC, ClosedOnce
<1>2. QED
  BY <1>1, IInvAlways, PTL

(* When the library is unloaded every stream in it has been closed.        *)
THEOREM NoStreamLeftOpen == Spec => []AllStreamsClosed
  BY ClosedWhenUnloaded, IInvAlways, PTL DEF AllStreamsClosed

---------------------------------------------------------------------------
(* The library.  Where a thread is in the library agrees with where it is  *)
(* in the host, and a stream that is being closed is forgotten first.      *)
SendLPC  == {"sending"}
RecvLPC  == {"second", "third", "last"}
CloseLPC == {"cancel", "closeSend", "closeRecv"}
Running  == {"first", "run", "reply", "cancel", "close"}

LibTypes ==
  /\ lpc \in [Threads -> {"out"} \cup SendLPC \cup RecvLPC \cup CloseLPC]
  /\ hpc \in [Streams -> {"none", "gone"} \cup Running]
  /\ sendCh \in [Streams -> Nat] /\ owed \in [Streams -> Nat]

Calls ==
  \A t \in Threads :
    /\ lpc[t] \in SendLPC => pc[t] = "send"
    /\ lpc[t] \in RecvLPC => pc[t] = "recv"
    /\ lpc[t] \in CloseLPC => pc[t] \in ClosePC /\ on[t] \notin registered
    /\ pc[t] \in ClosePC /\ lpc[t] = "out" => on[t] \in registered

(* A handle that was never given out is unknown to everybody; a handler    *)
(* runs until its goroutine is gone, and a live context has a handler.     *)
Handles ==
  /\ \A h \in Streams : hpc[h] = "none" => h \notin registered \cup opened \cup closeRecv
  /\ \A t \in Threads : pc[t] \in OwnerPC => hpc[on[t]] # "none"
  /\ \A h \in Streams : h \in handlers <=> hpc[h] \in Running
  /\ live \subseteq handlers

(* While the host has not closed a stream, only its handler can have       *)
(* cancelled its context and closed its RecvCh, and it does so at its end. *)
Ended(h) == hpc[h] \in {"close", "gone"}
Endings ==
  /\ \A h \in registered : h \in live \/ Ended(h)
  /\ \A h \in registered : h \in closeRecv => Ended(h)
  /\ \A t \in Threads : lpc[t] = "last" /\ on[t] \in registered => Ended(on[t])

(* What is owed to a handler is in its channel; the end of its messages    *)
(* comes when the channel is closed and empty.                             *)
Owing ==
  /\ owed = sendCh
  /\ seenEof \subseteq closeSend
  /\ \A h \in seenEof : sendCh[h] = 0

LInv == LibTypes /\ Calls /\ Handles /\ Endings /\ Owing

(* What the host may do around the library.                                *)
LEMMA HostFrame ==
  ASSUME IInv, NEW t \in Threads, HostOnly(t)
  PROVE  /\ UNCHANGED <<registered, live, handlers, inside>>
         /\ \A u \in Threads : u # t => pc'[u] = pc[u] /\ on'[u] = on[u]
         /\ pc[t] \notin {"open", "send", "half", "recv"} \cup ClosePC
         /\ pc'[t] \in OwnerPC => on'[t] \in registered
         /\ opened' \subseteq opened \cup registered
<1> USE DEF IInv, TypeOK, ClosePC, OwnerPC
<1>1. CASE Track(t) /\ UNCHANGED inside
  BY <1>1 DEF Track, TooLate, Disjoint
<1>2. CASE StreamClose(t) /\ UNCHANGED inside
  BY <1>2 DEF StreamClose, Closable, Disjoint
<1>3. CASE CloseNext(t) /\ UNCHANGED inside
  BY <1>3 DEF CloseNext, Disjoint
<1>4. CASE (GetInvoker(t) \/ InvokeReturns(t) \/ GetStreamOpener(t)) /\ UNCHANGED inside
  BY <1>4 DEF GetInvoker, InvokeReturns, GetStreamOpener
<1>5. CASE /\ \/ AcquireSend(t, "acqSend", "send") \/ AcquireSend(t, "acqHalf", "half")
              \/ AcquireRecv(t)
           /\ UNCHANGED inside
  BY <1>5 DEF AcquireSend, AcquireRecv
<1>6. CASE (RecvFails(t) \/ Unload(t)) /\ UNCHANGED inside
  BY <1>6 DEF RecvFails, Unload
<1>7. CASE Start(t) /\ UNCHANGED inside
  BY <1>7 DEF Start, Begin, StartSend, StartRecv, CloseStream, ClosePlugin
<1>8. QED
  BY <1>1, <1>2, <1>3, <1>4, <1>5, <1>6, <1>7 DEF HostOnly

LEMMA ReturnFrame ==
  ASSUME IInv, NEW t \in Threads, SendReturns(t) \/ RecvReturns(t)
  PROVE  /\ UNCHANGED <<registered, live, handlers, opened>>
         /\ \A u \in Threads : u # t => pc'[u] = pc[u] /\ on'[u] = on[u]
         /\ pc'[t] \in {"idle", "recvErr"} /\ pc[t] \in {"send", "half", "recv"}
BY DEF SendReturns, RecvReturns, IInv, TypeOK

LEMMA CloseFrame ==
  ASSUME IInv, NEW t \in Threads, Undo(t) \/ StreamCloseReturns(t) \/ CloseOneReturns(t)
  PROVE  /\ registered' = registered \ {on[t]} /\ live' = live \ {on[t]}
         /\ UNCHANGED <<handlers, opened>>
         /\ \A u \in Threads : u # t => pc'[u] = pc[u] /\ on'[u] = on[u]
         /\ pc'[t] \in {"idle", "collect"} /\ pc[t] \in ClosePC
BY DEF Undo, StreamCloseReturns, CloseOneReturns, LibraryClose, IInv, TypeOK, ClosePC

LEMMA OpenFrame ==
  ASSUME IInv, LibTypes, NEW t \in Threads, Open(t)
  PROVE  \/ \E h \in Streams :
              /\ hpc[h] = "none" /\ h \notin handlers
              /\ registered' = registered \cup {h} /\ live' = live \cup {h}
              /\ handlers' = handlers \cup {h}
              /\ hpc' = [hpc EXCEPT ![h] = IF kind[h] = "server" THEN "first" ELSE "run"]
              /\ pc' = [pc EXCEPT ![t] = "track"] /\ on' = [on EXCEPT ![t] = h]
              /\ UNCHANGED <<opened, kind, channels, history, lpc>>
         \/ /\ pc' = [pc EXCEPT ![t] = "idle"] /\ on' = [on EXCEPT ![t] = NoStream]
            /\ UNCHANGED <<registered, live, handlers, opened, kind, channels, history, lpc, hpc>>
<1>1. hpc' = [h \in Streams |-> IF h \in handlers' \ handlers
                                  THEN IF kind[h] = "server" THEN "first" ELSE "run"
                                  ELSE hpc[h]]
  BY DEF Open
<1>2. UNCHANGED <<opened, kind, channels, history, lpc>>
  BY DEF Open, OpenReturns
<1>3. CASE UNCHANGED library
  <2>1. pc' = [pc EXCEPT ![t] = "idle"] /\ on' = [on EXCEPT ![t] = NoStream]
    BY <1>3 DEF Open, OpenReturns
  <2>2. hpc' = hpc
    BY <1>1, <1>3 DEF LibTypes
  <2>3. QED
    BY <1>2, <1>3, <2>1, <2>2
<1>4. CASE ~UNCHANGED library
  <2>1. PICK h \in Streams \ (registered \cup opened \cup handlers) :
          /\ registered' = registered \cup {h} /\ live' = live \cup {h}
          /\ handlers' = handlers \cup {h}
          /\ pc' = [pc EXCEPT ![t] = "track"] /\ on' = [on EXCEPT ![t] = h]
    BY <1>4 DEF Open, OpenReturns
  <2>2. handlers' \ handlers = {h} /\ hpc[h] = "none"
    BY <2>1 DEF Open
  <2>3. hpc' = [hpc EXCEPT ![h] = IF kind[h] = "server" THEN "first" ELSE "run"]
    BY <1>1, <2>2 DEF LibTypes
  <2>4. QED
    BY <1>2, <2>1, <2>2, <2>3
<1>5. QED
  BY <1>3, <1>4

LEMMA LInvNext == IInv /\ LInv /\ [LibNext]_allVars => LInv'
<1> SUFFICES ASSUME IInv, LInv, [LibNext]_allVars PROVE LInv'
  OBVIOUS
<1>t. /\ pc \in [Threads -> PC] /\ on \in [Threads -> Streams \cup {NoStream}]
      /\ lpc \in [Threads -> {"out"} \cup SendLPC \cup RecvLPC \cup CloseLPC]
      /\ hpc \in [Streams -> {"none", "gone"} \cup Running]
      /\ registered \subseteq Streams
  BY DEF IInv, TypeOK, LInv, LibTypes
<1> USE DEF LInv
<1>1. ASSUME NEW t \in Threads, HostOnly(t) PROVE LInv'
  <2>1. /\ UNCHANGED <<registered, live, handlers, kind, sendCh, recvCh, closeSend, closeRecv,
                       errCh, owed, seenEof, hpc, lpc>>
        /\ \A u \in Threads : u # t => pc'[u] = pc[u] /\ on'[u] = on[u]
        /\ pc[t] \notin {"open", "send", "half", "recv"} \cup ClosePC
        /\ pc'[t] \in OwnerPC => on'[t] \in registered
        /\ opened' \subseteq opened \cup registered
    BY <1>1, HostFrame DEF inside, channels, history
  <2>2. lpc[t] = "out"
    BY <2>1, <1>t DEF Calls, SendLPC, RecvLPC, CloseLPC
  <2>c. Calls'
    BY <2>1, <2>2, <1>t DEF Calls, SendLPC, RecvLPC, CloseLPC, OwnerPC
  <2>h. Handles'
    BY <2>1, <1>t DEF Handles
  <2>e. Endings'
    BY <2>1, <2>2, <1>t DEF Endings, Ended
  <2>o. LibTypes' /\ Owing'
    BY <2>1 DEF LibTypes, Owing
  <2>q. QED
    BY <2>c, <2>h, <2>e, <2>o
<1>2. ASSUME NEW t \in Threads, Open(t) PROVE LInv'
  <2>0. pc[t] = "open" /\ lpc[t] = "out"
    BY <1>2, <1>t DEF Open, OpenReturns, Calls, SendLPC, RecvLPC, CloseLPC, ClosePC
  <2>1. CASE UNCHANGED <<registered, live, handlers, opened, kind, channels, history, lpc, hpc>>
             /\ pc' = [pc EXCEPT ![t] = "idle"] /\ on' = [on EXCEPT ![t] = NoStream]
    <3>1. /\ UNCHANGED <<registered, live, handlers, opened, closeSend, closeRecv, sendCh, owed,
                         seenEof, lpc, hpc>>
          /\ pc'[t] = "idle" /\ \A u \in Threads : u # t => pc'[u] = pc[u] /\ on'[u] = on[u]
      BY <2>1, <1>t DEF channels, history
    <3>c. Calls'
      BY <2>0, <3>1, <1>t DEF Calls, SendLPC, RecvLPC, CloseLPC, ClosePC
    <3>h. Handles'
      BY <2>0, <3>1, <1>t DEF Handles, OwnerPC, ClosePC, Running
    <3>e. Endings'
      BY <2>0, <3>1, <1>t DEF Endings, Ended
    <3>o. LibTypes' /\ Owing'
      BY <2>0, <3>1, <1>t DEF LibTypes, Owing
    <3>q. QED
      BY <3>c, <3>h, <3>e, <3>o
  <2>2. ASSUME NEW h \in Streams,
               hpc[h] = "none", h \notin handlers,
               registered' = registered \cup {h}, live' = live \cup {h},
               handlers' = handlers \cup {h},
               hpc' = [hpc EXCEPT ![h] = IF kind[h] = "server" THEN "first" ELSE "run"],
               pc' = [pc EXCEPT ![t] = "track"], on' = [on EXCEPT ![t] = h],
               UNCHANGED <<opened, kind, channels, history, lpc>>
        PROVE  LInv'
    <3>1. /\ UNCHANGED <<opened, closeSend, closeRecv, sendCh, owed, seenEof, lpc>>
          /\ pc'[t] = "track" /\ on'[t] = h
          /\ \A u \in Threads : u # t => pc'[u] = pc[u] /\ on'[u] = on[u]
          /\ hpc'[h] \in {"first", "run"} /\ \A g \in Streams : g # h => hpc'[g] = hpc[g]
      BY <2>2, <1>t DEF channels, history
    <3>c. Calls'
      <4>1. \A u \in Threads : pc[u] \in ClosePC => on[u] # h
        BY <2>2 DEF Handles, OwnerPC
      <4>2. QED
        BY <2>0, <2>2, <3>1, <4>1, <1>t DEF Calls, SendLPC, RecvLPC, CloseLPC, ClosePC
    <3>h. Handles'
      BY <2>2, <3>1, <1>t DEF Handles, OwnerPC, ClosePC, Running
    <3>e. Endings'
      <4>1. \A u \in Threads : lpc[u] = "last" => u # t /\ on[u] # h
        BY <2>0, <2>2, <1>t DEF IInv, OnOpened, StreamPC, Calls, RecvLPC, Handles
      <4>2. h \notin closeRecv
        BY <2>2 DEF Handles
      <4>3. QED
        BY <2>2, <3>1, <4>1, <4>2, <1>t DEF Endings, Ended
    <3>o. LibTypes' /\ Owing'
      BY <2>2, <3>1 DEF LibTypes, Owing, Running
    <3>q. QED
      BY <3>c, <3>h, <3>e, <3>o
  <2>3. QED
    BY <1>2, <2>1, <2>2, OpenFrame
(* A call that returns, and changes nothing but what it takes from or puts *)
(* into a channel; or goes on to another step of its select.               *)
<1>r. ASSUME NEW t \in Threads, SendReturns(t) \/ RecvReturns(t),
             lpc' = [lpc EXCEPT ![t] = "out"], UNCHANGED <<hpc, closeRecv>>
      PROVE  Calls' /\ Handles' /\ Endings'
  <2>1. /\ UNCHANGED <<registered, live, handlers, opened, closeRecv, hpc>>
        /\ lpc'[t] = "out" /\ \A u \in Threads : u # t => lpc'[u] = lpc[u]
        /\ \A u \in Threads : u # t => pc'[u] = pc[u] /\ on'[u] = on[u]
        /\ pc'[t] \in {"idle", "recvErr"}
    BY <1>r, <1>t, ReturnFrame
  <2>c. Calls'
    BY <2>1, <1>t DEF Calls, SendLPC, RecvLPC, CloseLPC, ClosePC
  <2>h. Handles'
    BY <2>1, <1>t DEF Handles, OwnerPC, ClosePC
  <2>e. Endings'
    BY <2>1, <1>t DEF Endings, Ended
  <2>q. QED
    BY <2>c, <2>h, <2>e
<1>s. ASSUME NEW t \in Threads, NEW l \in SendLPC \cup RecvLPC,
             l \in SendLPC => pc[t] = "send", l \in RecvLPC => pc[t] = "recv",
             l = "last" => on[t] \notin live,
             lpc' = [lpc EXCEPT ![t] = l], UNCHANGED <<vars, hpc, closeRecv>>
      PROVE  Calls' /\ Handles' /\ Endings'
  <2>1. /\ UNCHANGED <<registered, live, handlers, opened, closeRecv, hpc, pc, on>>
        /\ lpc'[t] = l /\ \A u \in Threads : u # t => lpc'[u] = lpc[u]
    BY <1>s, <1>t DEF vars, library, objects
  <2>c. Calls'
    BY <2>1, <1>s, <1>t DEF Calls, SendLPC, RecvLPC, CloseLPC, ClosePC
  <2>h. Handles'
    BY <2>1 DEF Handles
  <2>e. Endings'
    BY <2>1, <1>s, <1>t DEF Endings, Ended
  <2>q. QED
    BY <2>c, <2>h, <2>e
<1>k. ASSUME NEW t \in Threads, NEW l \in {"out"} \cup SendLPC \cup RecvLPC \cup CloseLPC,
             lpc' = [lpc EXCEPT ![t] = l], UNCHANGED <<hpc, sendCh, owed, seenEof>>,
             closeSend \subseteq closeSend'
      PROVE  LibTypes' /\ Owing'
  BY <1>k DEF LibTypes, Owing
(* Calls that send. *)
<1>3. ASSUME NEW t \in Threads, SendChecks(t) PROVE LInv'
  <2>1. UNCHANGED <<hpc, sendCh, closeSend, closeRecv, owed, seenEof>> /\ pc[t] = "send" /\ lpc[t] = "out"
    BY <1>3 DEF SendChecks, channels, history, At, In
  <2>2. CASE LGoto(t, "sending") /\ UNCHANGED vars
    BY <2>1, <2>2, <1>s, <1>k DEF LGoto, SendLPC, RecvLPC
  <2>3. CASE SendReturns(t) /\ UNCHANGED lpc
    <3>1. lpc' = [lpc EXCEPT ![t] = "out"]
      BY <2>1, <2>3, <1>t
    <3>2. QED
      BY <2>1, <2>3, <3>1, <1>r, <1>k
  <2>4. QED
    BY <1>3, <2>2, <2>3 DEF SendChecks
<1>4. ASSUME NEW t \in Threads, Sends(t) PROVE LInv'
  <2>1. /\ SendReturns(t) /\ lpc' = [lpc EXCEPT ![t] = "out"] /\ UNCHANGED <<hpc, closeSend, closeRecv, seenEof>>
        /\ on[t] \notin closeSend
        /\ sendCh' = [sendCh EXCEPT ![on[t]] = @ + 1] /\ owed' = [owed EXCEPT ![on[t]] = @ + 1]
    BY <1>4 DEF Sends, Plus, LGoto
  <2>2. Calls' /\ Handles' /\ Endings'
    BY <2>1, <1>r
  <2>3. Owing'
    BY <2>1 DEF LibTypes, Owing
  <2>4. sendCh' \in [Streams -> Nat] /\ owed' \in [Streams -> Nat]
    <3>1. on[t] \in Streams
      BY <2>1 DEF SendReturns, IInv, TypeOK, OnOpened, StreamPC
    <3>2. sendCh[on[t]] + 1 \in Nat /\ owed[on[t]] + 1 \in Nat
      BY <3>1 DEF LibTypes
    <3>3. QED
      BY <2>1, <3>2 DEF LibTypes
  <2>5. LibTypes'
    BY <2>1, <2>4 DEF LibTypes
  <2>6. QED
    BY <2>2, <2>3, <2>5
<1>5. ASSUME NEW t \in Threads, SendPanics(t) \/ SendGivesUp(t) PROVE LInv'
  <2>1. /\ SendReturns(t) /\ lpc' = [lpc EXCEPT ![t] = "out"]
        /\ UNCHANGED <<hpc, sendCh, closeSend, closeRecv, owed, seenEof>>
    BY <1>5 DEF SendPanics, Recovered, SendGivesUp, LGoto, channels, history
  <2>2. QED
    BY <2>1, <1>r, <1>k
<1>6. ASSUME NEW t \in Threads, HalfClose(t) PROVE LInv'
  <2>1. /\ SendReturns(t) /\ pc[t] = "half"
        /\ UNCHANGED <<hpc, lpc, sendCh, closeRecv, owed, seenEof>> /\ closeSend \subseteq closeSend'
    BY <1>6 DEF HalfClose, At, history
  <2>2. lpc[t] = "out"
    BY <2>1, <1>t DEF Calls, SendLPC, RecvLPC, CloseLPC, ClosePC
  <2>3. lpc' = [lpc EXCEPT ![t] = "out"]
    BY <2>1, <2>2, <1>t
  <2>4. QED
    BY <2>1, <2>3, <1>r, <1>k
(* Calls that receive. *)
<1>7. ASSUME NEW t \in Threads, RecvFirst(t) \/ RecvSecond(t) \/ RecvThird(t) \/ RecvAfterDone(t)
      PROVE  LInv'
  <2>1. UNCHANGED <<hpc, owed, seenEof, sendCh, closeSend, closeRecv>>
    BY <1>7 DEF RecvFirst, RecvSecond, RecvThird, RecvAfterDone, TakeData, TakeClosed, TakeError,
                RecvLast, Finish, Pass, channels, history
  <2>2. \/ RecvReturns(t) /\ LGoto(t, "out")
        \/ /\ UNCHANGED vars /\ pc[t] = "recv"
           /\ \/ LGoto(t, "second") \/ LGoto(t, "third")
              \/ LGoto(t, "last") /\ on[t] \notin live
    BY <1>7 DEF RecvFirst, RecvSecond, RecvThird, RecvAfterDone, TakeData, TakeClosed, TakeError,
                RecvLast, Finish, Pass, Calls, RecvLPC, At, In
  <2>3. CASE RecvReturns(t) /\ LGoto(t, "out")
    BY <2>1, <2>3, <1>r, <1>k DEF LGoto
  <2>4. ASSUME NEW l \in RecvLPC, UNCHANGED vars, pc[t] = "recv", LGoto(t, l), l = "last" => on[t] \notin live
        PROVE  LInv'
    <3>1. l \notin SendLPC
      BY <2>4 DEF SendLPC, RecvLPC
    <3>2. QED
      BY <2>1, <2>4, <3>1, <1>s, <1>k DEF LGoto
  <2>5. QED
    BY <2>2, <2>3, <2>4 DEF RecvLPC
(* Calls that close. *)
<1>8. ASSUME NEW t \in Threads, Forget(t) PROVE LInv'
  <2>1. /\ pc[t] \in ClosePC /\ registered' = registered \ {on[t]} /\ lpc' = [lpc EXCEPT ![t] = "cancel"]
        /\ UNCHANGED <<pc, on, opened, live, handlers, sendCh, closeSend, closeRecv, owed, seenEof, hpc>>
    BY <1>8 DEF Forget, Closing, Host, objects, LGoto, channels, history
  <2>2. \A u \in Threads : u # t /\ pc[u] \in ClosePC => on[u] # on[t]
    BY <2>1 DEF IInv, Disjoint, OwnerPC
  <2>3. lpc'[t] = "cancel" /\ \A u \in Threads : u # t => lpc'[u] = lpc[u]
    BY <2>1, <1>t
  <2>4. "cancel" \in CloseLPC
    BY DEF CloseLPC
  <2>c. Calls'
    BY <2>1, <2>2, <2>3 DEF Calls, SendLPC, RecvLPC, CloseLPC
  <2>h. Handles'
    BY <2>1 DEF Handles
  <2>e. Endings'
    BY <2>1, <2>3 DEF Endings, Ended
  <2>q. QED
    BY <2>1, <2>4, <2>c, <2>h, <2>e, <1>k
<1>9. ASSUME NEW t \in Threads, CancelStream(t) PROVE LInv'
  <2>1. /\ lpc[t] = "cancel" /\ live' = live \ {on[t]} /\ lpc' = [lpc EXCEPT ![t] = "closeSend"]
        /\ UNCHANGED <<pc, on, opened, registered, handlers, sendCh, closeSend, closeRecv, owed, seenEof, hpc>>
    BY <1>9 DEF CancelStream, Host, objects, LGoto, In, channels, history
  <2>2. pc[t] \in ClosePC /\ on[t] \notin registered
    BY <2>1 DEF Calls, CloseLPC
  <2>3. lpc'[t] = "closeSend" /\ \A u \in Threads : u # t => lpc'[u] = lpc[u]
    BY <2>1, <1>t
  <2>4. "closeSend" \in CloseLPC
    BY DEF CloseLPC
  <2>c. Calls'
    BY <2>1, <2>2, <2>3 DEF Calls, SendLPC, RecvLPC, CloseLPC
  <2>h. Handles'
    BY <2>1 DEF Handles
  <2>e. Endings'
    BY <2>1, <2>2, <2>3 DEF Endings, Ended
  <2>q. QED
    BY <2>1, <2>4, <2>c, <2>h, <2>e, <1>k
<1>10. ASSUME NEW t \in Threads, CloseSendCh(t) PROVE LInv'
  <2>1. /\ lpc[t] = "closeSend" /\ lpc' = [lpc EXCEPT ![t] = "closeRecv"] /\ closeSend \subseteq closeSend'
        /\ UNCHANGED <<pc, on, opened, registered, live, handlers, sendCh, closeRecv, owed, seenEof, hpc>>
    BY <1>10 DEF CloseSendCh, vars, library, objects, LGoto, In, history
  <2>2. pc[t] \in ClosePC /\ on[t] \notin registered
    BY <2>1 DEF Calls, CloseLPC
  <2>3. lpc'[t] = "closeRecv" /\ \A u \in Threads : u # t => lpc'[u] = lpc[u]
    BY <2>1, <1>t
  <2>4. "closeRecv" \in CloseLPC
    BY DEF CloseLPC
  <2>c. Calls'
    BY <2>1, <2>2, <2>3 DEF Calls, SendLPC, RecvLPC, CloseLPC
  <2>h. Handles'
    BY <2>1 DEF Handles
  <2>e. Endings'
    BY <2>1, <2>3 DEF Endings, Ended
  <2>q. QED
    BY <2>1, <2>4, <2>c, <2>h, <2>e, <1>k
<1>11. ASSUME NEW t \in Threads, CloseRecvCh(t) PROVE LInv'
  <2>1. /\ registered' = registered \ {on[t]} /\ live' = live \ {on[t]}
        /\ closeRecv' = closeRecv \cup {on[t]} /\ lpc' = [lpc EXCEPT ![t] = "out"]
        /\ UNCHANGED <<handlers, opened, sendCh, closeSend, owed, seenEof, hpc>>
        /\ \A u \in Threads : u # t => pc'[u] = pc[u] /\ on'[u] = on[u]
        /\ pc'[t] \in {"idle", "collect"} /\ pc[t] \in ClosePC
    BY <1>11, CloseFrame DEF CloseRecvCh, LGoto, history
  <2>2. lpc[t] = "closeRecv" /\ on[t] \notin registered
    BY <1>11 DEF CloseRecvCh, In, Calls, CloseLPC
  <2>3. lpc'[t] = "out" /\ \A u \in Threads : u # t => lpc'[u] = lpc[u]
    BY <2>1, <1>t
  <2>4. hpc[on[t]] # "none"
    BY <2>1 DEF Handles, OwnerPC
  <2>c. Calls'
    BY <2>1, <2>2, <2>3 DEF Calls, SendLPC, RecvLPC, CloseLPC, ClosePC
  <2>h. Handles'
    BY <2>1, <2>4 DEF Handles, OwnerPC, ClosePC
  <2>e. Endings'
    BY <2>1, <2>2, <2>3 DEF Endings, Ended
  <2>q. QED
    BY <2>1, <2>c, <2>h, <2>e, <1>k
(* The goroutines of the handlers. *)
<1>m. ASSUME NEW h \in Streams, NEW l \in Running, hpc[h] \in Running, ~Ended(h),
             hpc' = [hpc EXCEPT ![h] = l],
             UNCHANGED <<registered, opened, live, handlers, pc, on, lpc, closeRecv>>
      PROVE  Calls' /\ Handles' /\ Endings'
  <2>1. hpc'[h] = l /\ \A g \in Streams : g # h => hpc'[g] = hpc[g]
    BY <1>m, <1>t
  <2>c. Calls'
    BY <1>m DEF Calls
  <2>h. Handles'
    BY <1>m, <2>1, <1>t DEF Handles, Running
  <2>e. Endings'
    BY <1>m, <2>1, <1>t DEF Endings, Ended
  <2>q. QED
    BY <2>c, <2>h, <2>e
<1>12. ASSUME NEW h \in Streams, NEW from \in {"first", "run"}, Receives(h, from) PROVE LInv'
  <2>1. /\ UNCHANGED <<registered, opened, live, handlers, pc, on, lpc, closeRecv, closeSend>>
        /\ hpc[h] = from
        /\ hpc' = [hpc EXCEPT ![h] = "run"] \/ hpc' = [hpc EXCEPT ![h] = "cancel"]
    BY <1>12 DEF Receives, HostVars, Host, objects, HGoto
  <2>2. Calls' /\ Handles' /\ Endings'
    BY <2>1, <1>m DEF Running, Ended
  <2>3. hpc' \in [Streams -> {"none", "gone"} \cup Running]
    BY <2>1, <1>t DEF Running
  <2>4. CASE /\ sendCh[h] > 0
             /\ sendCh' = Minus(sendCh, h) /\ owed' = Minus(owed, h)
             /\ UNCHANGED seenEof
    <3>1. sendCh[h] - 1 \in Nat /\ owed[h] = sendCh[h]
      BY <2>4 DEF LibTypes, Owing
    <3>2. LibTypes'
      BY <2>1, <2>3, <2>4, <3>1 DEF LibTypes, Minus
    <3>3. Owing'
      BY <2>1, <2>4, <3>1 DEF LibTypes, Owing, Minus
    <3>4. QED
      BY <2>2, <3>2, <3>3
  <2>5. CASE /\ sendCh[h] = 0 /\ h \in closeSend /\ seenEof' = seenEof \cup {h}
             /\ UNCHANGED <<sendCh, owed>>
    BY <2>1, <2>2, <2>3, <2>5 DEF LibTypes, Owing
  <2>6. CASE UNCHANGED <<sendCh, owed, seenEof>>
    BY <2>1, <2>2, <2>3, <2>6 DEF LibTypes, Owing
  <2>7. QED
    BY <1>12, <2>4, <2>5, <2>6 DEF Receives
<1>13. ASSUME NEW h \in Streams,
              Produces(h, "run", "run") \/ Produces(h, "reply", "cancel") \/ HandlerEnds(h)
       PROVE  LInv'
  <2>1. /\ UNCHANGED <<registered, opened, live, handlers, pc, on, lpc, closeRecv, closeSend, sendCh,
                       owed, seenEof>>
        /\ hpc[h] \in {"run", "reply"}
        /\ \E l \in {"run", "reply", "cancel"} : hpc' = [hpc EXCEPT ![h] = l]
    BY <1>13 DEF Produces, HandlerEnds, HostVars, Host, objects, HGoto, history
  <2>2. Calls' /\ Handles' /\ Endings'
    BY <2>1, <1>m DEF Running, Ended
  <2>3. LibTypes' /\ Owing'
    BY <2>1, <1>t DEF LibTypes, Owing, Running
  <2>4. QED
    BY <2>2, <2>3
<1>14. ASSUME NEW h \in Streams, HandlerCancels(h) \/ HandlerExits(h) PROVE LInv'
  <2>1. /\ UNCHANGED <<registered, opened, pc, on, lpc, closeSend, sendCh, owed, seenEof>>
        /\ live' = live \ {h} /\ closeRecv' \subseteq closeRecv \cup {h}
        /\ \/ hpc[h] = "cancel" /\ hpc' = [hpc EXCEPT ![h] = "close"] /\ handlers' = handlers
              /\ closeRecv' = closeRecv
           \/ hpc[h] = "close" /\ hpc' = [hpc EXCEPT ![h] = "gone"] /\ handlers' = handlers \ {h}
    BY <1>14 DEF HandlerCancels, HandlerCancel, HandlerExits, HandlerReturns, Host, objects, HGoto,
                 channels, history
  <2>2. /\ hpc'[h] \in {"close", "gone"} /\ \A g \in Streams : g # h => hpc'[g] = hpc[g]
        /\ hpc'[h] \in Running <=> h \in handlers'
    BY <2>1, <1>t DEF Handles, Running
  <2>3. \A u \in Threads : pc[u] \in OwnerPC => on[u] \in Streams /\ hpc'[on[u]] # "none"
    BY <2>2 DEF Handles, IInv, Disjoint
  <2>4. \A g \in Streams : g # h => (g \in handlers' <=> g \in handlers)
    BY <2>1
  <2>5. live' \subseteq handlers'
    BY <2>1 DEF Handles
  <2>c. Calls'
    BY <2>1 DEF Calls
  <2>h. Handles'
    BY <2>1, <2>2, <2>3, <2>4, <2>5 DEF Handles
  <2>e. Endings'
    BY <2>1, <2>2, <1>t DEF Endings, Ended
  <2>o. LibTypes' /\ Owing'
    BY <2>1, <1>t DEF LibTypes, Owing, Running
  <2>q. QED
    BY <2>c, <2>h, <2>e, <2>o
<1>15. CASE UNCHANGED allVars
  BY <1>15 DEF allVars, vars, inside, channels, history, LibTypes, Calls, Handles, Endings, Ended, Owing
<1> QED
  BY <1>1, <1>2, <1>3, <1>4, <1>5, <1>6, <1>7, <1>8, <1>9, <1>10, <1>11, <1>12, <1>13, <1>14, <1>15
     DEF LibNext, InLibrary, Handler, Leaves

(* Every step of the library is a step of the host or internal to it.      *)
LEMMA LibSteps == IInv /\ LInv /\ [LibNext]_allVars => [Step]_vars
<1> SUFFICES ASSUME IInv, LInv, [LibNext]_allVars PROVE Step \/ UNCHANGED vars
  OBVIOUS
<1>1. ASSUME NEW t \in Threads, HostOnly(t) PROVE Step
  <2>1. Next
    BY <1>1 DEF HostOnly, Next, Continue
  <2>2. Fresh
    BY <1>1, HostFrame DEF Fresh
  <2>3. QED
    BY <2>1, <2>2 DEF Step
<1>2. ASSUME NEW t \in Threads, Open(t) PROVE Step
  <2>1. Next
    BY <1>2 DEF Open, Next, Continue
  <2>2. Fresh
    BY <1>2 DEF Open, Fresh, LInv, Handles
  <2>3. QED
    BY <2>1, <2>2 DEF Step
<1>3. ASSUME NEW t \in Threads, SendReturns(t) \/ RecvReturns(t) PROVE Step
  <2>1. Next
    BY <1>3 DEF Next
  <2>2. Fresh
    BY <1>3, ReturnFrame DEF Fresh
  <2>3. QED
    BY <2>1, <2>2 DEF Step
<1>4. ASSUME NEW t \in Threads, SendChecks(t) \/ Sends(t) \/ SendPanics(t) \/ SendGivesUp(t) \/ HalfClose(t)
      PROVE  Step \/ UNCHANGED vars
  BY <1>3, <1>4 DEF SendChecks, Sends, SendPanics, SendGivesUp, HalfClose
<1>5. ASSUME NEW t \in Threads, RecvFirst(t) \/ RecvSecond(t) \/ RecvThird(t) \/ RecvAfterDone(t)
      PROVE  Step \/ UNCHANGED vars
  <2>1. RecvReturns(t) \/ UNCHANGED vars
    BY <1>5 DEF RecvFirst, RecvSecond, RecvThird, RecvAfterDone, TakeData, TakeClosed, TakeError,
                RecvLast, Finish, Pass
  <2>2. QED
    BY <1>3, <2>1
<1>6. ASSUME NEW t \in Threads, Forget(t) \/ CancelStream(t) PROVE Step
  BY <1>6 DEF Forget, CancelStream, Closing, Host, Internal, Step
<1>7. ASSUME NEW t \in Threads, CloseSendCh(t) PROVE UNCHANGED vars
  BY <1>7 DEF CloseSendCh
<1>8. ASSUME NEW t \in Threads, CloseRecvCh(t) PROVE Step
  <2>1. Next
    BY <1>8 DEF CloseRecvCh, Next, Continue
  <2>2. Fresh
    BY <1>8, CloseFrame DEF CloseRecvCh, Fresh
  <2>3. QED
    BY <2>1, <2>2 DEF Step
<1>9. ASSUME NEW h \in Streams,
             \/ Receives(h, "first") \/ Receives(h, "run") \/ Produces(h, "run", "run")
             \/ Produces(h, "reply", "cancel") \/ HandlerEnds(h)
      PROVE  UNCHANGED vars
  BY <1>9 DEF Receives, Produces, HandlerEnds, HostVars, Host, vars, library, objects
<1>10. ASSUME NEW h \in Streams, HandlerCancels(h) PROVE Step
  BY <1>10 DEF HandlerCancels, HandlerCancel, Host, Internal, Step
<1>11. ASSUME NEW h \in Streams, HandlerExits(h) PROVE Step
  BY <1>11 DEF HandlerExits, HandlerReturns, Next, Fresh, Step
<1>12. CASE UNCHANGED allVars
  BY <1>12 DEF allVars
<1> QED
  BY <1>1, <1>2, <1>4, <1>5, <1>6, <1>7, <1>8, <1>9, <1>10, <1>11, <1>12
     DEF LibNext, InLibrary, Handler, Leaves

LEMMA LibInvariance == LibSpec => [](IInv /\ LInv)
<1>1. LibInit => IInv /\ LInv
  <2> SUFFICES ASSUME LibInit PROVE IInv /\ LInv
    OBVIOUS
  <2>1. IInv
    BY IInvInit DEF LibInit
  <2>2. LibTypes /\ Owing
    BY DEF LibInit, LibTypes, Owing
  <2>3. Calls /\ Handles /\ Endings
    BY DEF LibInit, Init, Calls, SendLPC, RecvLPC, CloseLPC, ClosePC, Handles, OwnerPC, Running, Endings
  <2>4. QED
    BY <2>1, <2>2, <2>3 DEF LInv
<1>2. QED
  BY <1>1, IInvNext, LInvNext, LibSteps, PTL DEF LibSpec

(* What the host is promised holds with the library in its real steps: no  *)
(* call is in an unloaded library, and no stream is left open in it.       *)
THEOREM LibraryUnloadsSafely == LibSpec => [](NoCallAfterUnload /\ AllStreamsClosed)
<1>1. IInv => NoCallAfterUnload /\ AllStreamsClosed
  BY OutsideWhenUnloaded, ClosedWhenUnloaded DEF AllStreamsClosed
<1>2. QED
  BY <1>1, LibInvariance, PTL

(* The handler that sees the end of its messages has received all those    *)
(* that the host was told are sent (server.go:88, 208), for any number of  *)
(* streams and goroutines and any capacity.                                *)
THEOREM NothingSentIsLost == LibSpec => []SentIsReceived
<1>1. LInv => SentIsReceived
  BY DEF LInv, Owing, SentIsReceived
<1>2. QED
  BY <1>1, LibInvariance, PTL

(* The requests of a stream are a pipe.  Four steps move one: Send and     *)
(* CloseSend of the host, the closing of SendCh by Close, and the handler. *)
LEMMA RequestsStep ==
  ASSUME IInv, LInv, [LibNext]_allVars, NEW g \in Streams
  PROVE  [Requests(g)!Next]_(Requests(g)!vars)
<1> SUFFICES Requests(g)!Next \/ UNCHANGED Requests(g)!vars
  OBVIOUS
<1>o. /\ owed = sendCh /\ owed \in [Streams -> Nat]
      /\ g \in seenEof => g \in closeSend /\ sendCh[g] = 0
  BY DEF LInv, Owing, LibTypes
<1>1. ASSUME NEW t \in Threads, Sends(t) PROVE Requests(g)!Accept \/ UNCHANGED Requests(g)!vars
  <2>1. on[t] \notin closeSend /\ sendCh[on[t]] < Cap /\ owed' = Plus(owed, on[t])
        /\ UNCHANGED <<closeSend, seenEof>>
    BY <1>1 DEF Sends
  <2> QED
    BY <1>o, <2>1 DEF Plus, Requests!Accept, Requests!vars
<1>2. ASSUME NEW t \in Threads, HalfClose(t) \/ CloseSendCh(t)
      PROVE  Requests(g)!Shut \/ UNCHANGED Requests(g)!vars
  <2>1. closeSend \subseteq closeSend' /\ UNCHANGED <<owed, seenEof>>
    BY <1>2 DEF HalfClose, CloseSendCh, history
  <2> QED
    BY <2>1 DEF Requests!Shut, Requests!vars
<1>3. ASSUME NEW h \in Streams, Receives(h, "first") \/ Receives(h, "run")
      PROVE  Requests(g)!Deliver \/ Requests(g)!End \/ UNCHANGED Requests(g)!vars
  <2>0. UNCHANGED closeSend
    BY <1>3 DEF Receives
  <2>1. CASE sendCh[h] > 0 /\ owed' = Minus(owed, h) /\ UNCHANGED seenEof
    BY <1>o, <2>0, <2>1 DEF Minus, Requests!Deliver, Requests!vars
  <2>2. CASE sendCh[h] = 0 /\ h \in closeSend /\ seenEof' = seenEof \cup {h} /\ UNCHANGED owed
    BY <1>o, <2>0, <2>2 DEF Requests!End, Requests!vars
  <2>3. CASE UNCHANGED <<owed, seenEof>>
    BY <2>0, <2>3 DEF Requests!vars
  <2> QED
    BY <1>3, <2>1, <2>2, <2>3 DEF Receives
<1>4. ASSUME UNCHANGED <<owed, closeSend, seenEof>> PROVE UNCHANGED Requests(g)!vars
  BY <1>4 DEF Requests!vars
<1>5. ASSUME NEW t \in Threads, HostOnly(t) \/ Open(t)
      PROVE  UNCHANGED <<owed, closeSend, seenEof>>
  BY <1>5 DEF HostOnly, Open, inside, channels, history
<1>6. ASSUME NEW t \in Threads, SendChecks(t) \/ SendPanics(t) \/ SendGivesUp(t)
      PROVE  UNCHANGED <<owed, closeSend, seenEof>>
  BY <1>6 DEF SendChecks, SendPanics, SendGivesUp, Recovered, channels, history
<1>7. ASSUME NEW t \in Threads,
             RecvFirst(t) \/ RecvSecond(t) \/ RecvThird(t) \/ RecvAfterDone(t)
      PROVE  UNCHANGED <<owed, closeSend, seenEof>>
  BY <1>7 DEF RecvFirst, RecvSecond, RecvThird, RecvAfterDone, RecvLast, TakeData, TakeError,
              TakeClosed, Pass, channels, history
<1>8. ASSUME NEW t \in Threads, Forget(t) \/ CancelStream(t) \/ CloseRecvCh(t)
      PROVE  UNCHANGED <<owed, closeSend, seenEof>>
  BY <1>8 DEF Forget, CancelStream, CloseRecvCh, channels, history
<1>9. ASSUME NEW h \in Streams,
             \/ Produces(h, "run", "run") \/ Produces(h, "reply", "cancel") \/ HandlerEnds(h)
             \/ HandlerCancels(h) \/ HandlerExits(h)
      PROVE  UNCHANGED <<owed, closeSend, seenEof>>
  BY <1>9 DEF Produces, HandlerEnds, HandlerCancels, HandlerExits, channels, history
<1>10. CASE UNCHANGED allVars
  BY <1>4, <1>10 DEF allVars, inside, channels, history
<1> QED
  BY <1>1, <1>2, <1>3, <1>4, <1>5, <1>6, <1>7, <1>8, <1>9, <1>10
     DEF LibNext, InLibrary, Handler, Leaves, Requests!Next

(* However Send, CloseSend and Close race with each other and with the     *)
(* handler, the host is told of a request that it is sent only when the    *)
(* handler gets it before the end (server.go:88, 208).                     *)
THEOREM LibraryImplementsPipe == LibSpec => ImplementsPipe
<1>1. LibInit => \A h \in Streams : Requests(h)!Init
  BY DEF LibInit, Requests!Init
<1>2. IInv /\ LInv /\ [LibNext]_allVars =>
        [\A h \in Streams : [Requests(h)!Next]_(Requests(h)!vars)]_allVars
  BY RequestsStep
<1> QED
  BY <1>1, <1>2, LibInvariance, PTL DEF LibSpec, ImplementsPipe

(* A thread leaves its receive with the end of the stream only by what it  *)
(* finds in the library.                                                   *)
LEMMA EndOfReceive ==
  ASSUME IInv, LInv, [LibNext]_allVars, NEW t \in Threads, pc[t] = "recv", pc'[t] = "recvErr"
  PROVE  RecvFirst(t) \/ RecvSecond(t) \/ RecvThird(t) \/ RecvAfterDone(t)
<1>t. pc \in [Threads -> PC]
  BY DEF IInv, TypeOK
<1>1. ASSUME NEW u \in Threads, HostOnly(u) PROVE FALSE
  BY <1>1, HostFrame
<1>2. ASSUME NEW u \in Threads, Open(u) PROVE FALSE
  BY <1>2, <1>t DEF Open, OpenReturns
<1>3. ASSUME NEW u \in Threads, SendReturns(u) PROVE FALSE
  BY <1>3, <1>t DEF SendReturns
<1>4. ASSUME NEW u \in Threads, SendChecks(u) \/ Sends(u) \/ SendPanics(u) \/ SendGivesUp(u) \/ HalfClose(u)
      PROVE  FALSE
  BY <1>3, <1>4 DEF SendChecks, Sends, SendPanics, SendGivesUp, HalfClose, vars
<1>5. ASSUME NEW u \in Threads, u # t,
             RecvFirst(u) \/ RecvSecond(u) \/ RecvThird(u) \/ RecvAfterDone(u)
      PROVE  FALSE
  <2>1. RecvReturns(u) \/ UNCHANGED vars
    BY <1>5 DEF RecvFirst, RecvSecond, RecvThird, RecvAfterDone, TakeData, TakeClosed, TakeError,
                RecvLast, Finish, Pass
  <2>2. QED
    BY <1>5, <2>1, ReturnFrame DEF vars
<1>6. ASSUME NEW u \in Threads, Forget(u) \/ CancelStream(u) \/ CloseSendCh(u) PROVE FALSE
  BY <1>6 DEF Forget, CancelStream, CloseSendCh, Host, vars
<1>7. ASSUME NEW u \in Threads, CloseRecvCh(u) PROVE FALSE
  BY <1>7, CloseFrame DEF CloseRecvCh
<1>8. ASSUME NEW h \in Streams, Handler(h) PROVE FALSE
  BY <1>8 DEF Handler, Leaves, Receives, Produces, HandlerEnds, HandlerCancels, HandlerExits,
              HandlerReturns, HostVars, Host
<1>9. CASE UNCHANGED allVars
  BY <1>9 DEF allVars, vars
<1> QED
  BY <1>1, <1>2, <1>4, <1>5, <1>6, <1>7, <1>8, <1>9 DEF LibNext, InLibrary

(* When Recv reports the end of a stream that the host has not closed, the *)
(* handler has returned and all it sent has been received                  *)
(* (server.go:116, 191): the deferred Cancel of the handler and the data   *)
(* that is still in RecvCh race for the select of Recv, and the data wins. *)
THEOREM EndOfStream == LibSpec => EofIsTheEnd
<1>1. ASSUME IInv, LInv, [LibNext]_allVars, NEW t \in Threads,
             At(t, "recv"), pc'[t] = "recvErr", errCh' = errCh, on[t] \in registered
      PROVE  recvCh[on[t]] = 0 /\ hpc[on[t]] \in {"close", "gone"}
  <2>1. ~TakeData(t)
    <3>1. pc \in [Threads -> PC]
      BY <1>1 DEF IInv, TypeOK
    <3>2. QED
      BY <1>1, <3>1 DEF TakeData, GotData, RecvReturns
  <2>2. ~TakeError(t)
    BY <1>1 DEF TakeError
  <2>3. ASSUME TakeClosed(t) PROVE recvCh[on[t]] = 0 /\ Ended(on[t])
    BY <1>1, <2>2, <2>3 DEF TakeClosed, LInv, Endings
  <2>4. ~Pass(t, "second") /\ ~Pass(t, "third") /\ ~Pass(t, "last")
    BY <1>1 DEF Pass, vars
  <2>5. CASE RecvFirst(t) \/ RecvSecond(t) \/ RecvThird(t)
    BY <1>1, <2>1, <2>2, <2>3, <2>4, <2>5 DEF RecvFirst, RecvSecond, RecvThird, Ended
  <2>6. CASE RecvAfterDone(t)
    BY <1>1, <2>1, <2>6 DEF RecvAfterDone, RecvLast, In, LInv, Endings, Ended
  <2>7. QED
    BY <1>1, <2>5, <2>6, EndOfReceive
<1>2. IInv /\ LInv /\ [LibNext]_allVars =>
        [\A t \in Threads :
           At(t, "recv") /\ pc'[t] = "recvErr" /\ errCh' = errCh /\ on[t] \in registered
             => recvCh[on[t]] = 0 /\ hpc[on[t]] \in {"close", "gone"}]_allVars
  BY <1>1
<1>3. QED
  BY <1>2, LibInvariance, PTL DEF LibSpec, EofIsTheEnd

---------------------------------------------------------------------------
(* What the host sees of the library.  A step of the library that leaves   *)
(* alone the streams it knows is, to the host, the step that it takes.     *)
Same == UNCHANGED <<Known, handlers>>

LEMMA SameLibrary == Same => UNCHANGED <<Known, handlers \cap Known, handlers>>
  BY DEF Same

LEMMA SeenStart ==
  ASSUME NEW t \in Threads, Start(t), Same
  PROVE  HostView!Start(t)
<1> USE SameLibrary
<1>1. ASSUME NEW l, Begin(t, l) PROVE HostView!Begin(t, l)
  BY <1>1 DEF Begin, HostView!Begin, At, HostView!At, Enter, HostView!Enter, Stay, HostView!Stay,
              Goto, HostView!Goto, Add, HostView!Add, HostView!library, HostView!symbols,
              HostView!objects, symbols, objects
<1>2. ASSUME NEW h, NEW l, StartSend(t, h, l) PROVE HostView!StartSend(t, h, l)
  BY <1>2 DEF StartSend, HostView!StartSend, At, HostView!At, Goto, HostView!Goto,
              HostView!library, HostView!symbols, symbols
<1>3. ASSUME NEW h, StartRecv(t, h) PROVE HostView!StartRecv(t, h)
  BY <1>3 DEF StartRecv, HostView!StartRecv, At, HostView!At, Goto, HostView!Goto,
              HostView!library, HostView!symbols, symbols
<1>4. ASSUME NEW h, CloseStream(t, h) PROVE HostView!CloseStream(t, h)
  BY <1>4 DEF CloseStream, HostView!CloseStream, At, HostView!At, Goto, HostView!Goto,
              HostView!library, HostView!symbols, symbols
<1>5. ASSUME ClosePlugin(t) PROVE HostView!ClosePlugin(t)
  BY <1>5 DEF ClosePlugin, HostView!ClosePlugin, ToClose, HostView!ToClose, At, HostView!At,
              Stay, HostView!Stay, Goto, HostView!Goto, HostView!library, HostView!symbols,
              HostView!objects, symbols, objects
<1>6. QED
  BY <1>1, <1>2, <1>3, <1>4, <1>5 DEF Start, HostView!Start

LEMMA SeenHostOnly ==
  ASSUME NEW t \in Threads, HostOnly(t), Same
  PROVE  HostView!Next
<1> USE SameLibrary DEF At, HostView!At, Goto, HostView!Goto, Stay, HostView!Stay,
                        Return, HostView!Return, Add, HostView!Add, DoneWg, HostView!DoneWg,
                        HostView!library, HostView!symbols, HostView!objects, symbols, objects
<1>1. CASE Start(t)
  BY <1>1, SeenStart DEF HostView!Next
<1>2. ASSUME GetInvoker(t) PROVE HostView!GetInvoker(t)
  BY <1>2 DEF GetInvoker, HostView!GetInvoker, Usable, HostView!Usable
<1>3. ASSUME InvokeReturns(t) PROVE HostView!InvokeReturns(t)
  BY <1>3 DEF InvokeReturns, HostView!InvokeReturns
<1>4. ASSUME GetStreamOpener(t) PROVE HostView!GetStreamOpener(t)
  BY <1>4 DEF GetStreamOpener, HostView!GetStreamOpener, Usable, HostView!Usable
<1>5. ASSUME Track(t) PROVE HostView!Track(t)
  BY <1>5 DEF Track, HostView!Track, TooLate, HostView!TooLate
<1>6. ASSUME NEW from, NEW to, AcquireSend(t, from, to) PROVE HostView!AcquireSend(t, from, to)
  BY <1>6 DEF AcquireSend, HostView!AcquireSend, Enter, HostView!Enter
<1>7. ASSUME AcquireRecv(t) PROVE HostView!AcquireRecv(t)
  BY <1>7 DEF AcquireRecv, HostView!AcquireRecv, Enter, HostView!Enter
<1>8. ASSUME RecvFails(t) PROVE HostView!RecvFails(t)
  BY <1>8 DEF RecvFails, HostView!RecvFails
<1>9. ASSUME StreamClose(t) PROVE HostView!StreamClose(t)
  BY <1>9 DEF StreamClose, HostView!StreamClose, Closable, HostView!Closable, Release,
              HostView!Release, Enter, HostView!Enter
<1>10. ASSUME CloseNext(t) PROVE HostView!CloseNext(t)
  BY <1>10 DEF CloseNext, HostView!CloseNext
<1>11. ASSUME Unload(t) PROVE HostView!Unload(t)
  BY <1>11 DEF Unload, HostView!Unload, AllDone, HostView!AllDone
<1>12. CASE Start(t) \/ HostView!Continue(t)
  BY <1>1, <1>12 DEF HostView!Next
<1>13. QED
  BY <1>2, <1>3, <1>4, <1>5, <1>6, <1>7, <1>8, <1>9, <1>10, <1>11, <1>12
     DEF HostOnly, HostView!Continue

LEMMA SeenReturn ==
  ASSUME NEW t \in Threads, SendReturns(t) \/ RecvReturns(t), Same
  PROVE  HostView!Next
<1> USE SameLibrary DEF At, HostView!At, Goto, HostView!Goto, Stay, HostView!Stay,
                        Return, HostView!Return, DoneWg, HostView!DoneWg,
                        HostView!library, HostView!symbols, symbols
<1>1. SendReturns(t) => HostView!SendReturns(t)
  BY DEF SendReturns, HostView!SendReturns
<1>2. RecvReturns(t) => HostView!RecvReturns(t)
  BY DEF RecvReturns, HostView!RecvReturns
<1>3. QED
  BY <1>1, <1>2 DEF HostView!Next

(* Closing a stream takes effect for the host when the call returns.       *)
LEMMA SeenClose ==
  ASSUME NEW t \in Threads, Undo(t) \/ StreamCloseReturns(t) \/ CloseOneReturns(t),
         Known' = Known \ {on[t]}, UNCHANGED handlers
  PROVE  HostView!Next
<1> USE DEF At, HostView!At, Goto, HostView!Goto, Return, HostView!Return, DoneWg, HostView!DoneWg,
            HostView!symbols, HostView!objects, symbols, objects
<1>1. HostView!LibraryClose(on[t])
  BY DEF HostView!LibraryClose
<1>2. Undo(t) => HostView!Undo(t)
  BY <1>1 DEF Undo, HostView!Undo
<1>3. StreamCloseReturns(t) => HostView!StreamCloseReturns(t)
  BY <1>1 DEF StreamCloseReturns, HostView!StreamCloseReturns, Release, HostView!Release
<1>4. CloseOneReturns(t) => HostView!CloseOneReturns(t)
  BY <1>1 DEF CloseOneReturns, HostView!CloseOneReturns
<1>5. QED
  BY <1>2, <1>3, <1>4 DEF HostView!Next, HostView!Continue

LEMMA KnownSame ==
  ASSUME NEW t \in Threads, UNCHANGED registered,
         \A u \in Threads : u # t => pc'[u] = pc[u] /\ on'[u] = on[u],
         pc[t] \notin ClosePC, pc'[t] \in ClosePC => on'[t] \in registered
  PROVE  Known' = Known
<1>1. ASSUME NEW h PROVE h \in Known' <=> h \in Known
  <2>1. h \in Known <=> h \in registered \/ \E u \in Threads : pc[u] \in ClosePC /\ on[u] = h
    BY DEF Known
  <2>2. h \in Known' <=> h \in registered' \/ \E u \in Threads : pc'[u] \in ClosePC /\ on'[u] = h
    BY DEF Known
  <2>3. QED
    BY <2>1, <2>2
<1>2. QED
  BY <1>1

LEMMA OpenSeen ==
  ASSUME IInv, LInv, NEW t \in Threads, Open(t)
  PROVE  HostView!Next
<1>t. pc \in [Threads -> PC] /\ on \in [Threads -> Streams \cup {NoStream}] /\ registered \subseteq Streams
  BY DEF IInv, TypeOK
<1>0. pc[t] = "open"
  BY DEF Open, OpenReturns, At
<1> USE DEF At, HostView!At, Goto, HostView!Goto, Return, HostView!Return, DoneWg, HostView!DoneWg,
            HostView!symbols, HostView!objects, symbols, objects
<1>1. ASSUME NEW h \in Streams, hpc[h] = "none", h \notin handlers,
             registered' = registered \cup {h}, handlers' = handlers \cup {h},
             pc' = [pc EXCEPT ![t] = "track"], on' = [on EXCEPT ![t] = h]
      PROVE  HostView!OpenReturns(t)
  <2>1. h \notin opened /\ h \notin Known
    BY <1>1 DEF LInv, Handles, Known, OwnerPC
  <2>2. ASSUME NEW g PROVE g \in Known' <=> g \in Known \/ g = h
    <3>1. g \in Known <=> g \in registered \/ \E u \in Threads : pc[u] \in ClosePC /\ on[u] = g
      BY DEF Known
    <3>2. g \in Known' <=> g \in registered' \/ \E u \in Threads : pc'[u] \in ClosePC /\ on'[u] = g
      BY DEF Known
    <3>3. /\ pc[t] \notin ClosePC /\ pc'[t] \notin ClosePC
          /\ \A u \in Threads : u # t => pc'[u] = pc[u] /\ on'[u] = on[u]
      BY <1>0, <1>1, <1>t DEF ClosePC
    <3>4. QED
      BY <1>1, <3>1, <3>2, <3>3
  <2>3. Known' = Known \cup {h} /\ (handlers \cap Known)' = (handlers \cap Known) \cup {h}
    BY <1>1, <2>2
  <2>4. UNCHANGED <<wg, closed, loaded, symbols, activeStreams, toClose, objects>>
    BY <1>1 DEF Open, OpenReturns
  <2>5. QED
    BY <1>0, <1>1, <2>1, <2>3, <2>4 DEF HostView!OpenReturns
<1>2. CASE UNCHANGED <<registered, handlers>> /\ pc' = [pc EXCEPT ![t] = "idle"]
  <2>1. Known' = Known
    <3>1. pc[t] \notin ClosePC /\ pc'[t] \notin ClosePC
      BY <1>0, <1>2, <1>t DEF ClosePC
    <3>2. \A u \in Threads : u # t => pc'[u] = pc[u] /\ on'[u] = on[u]
      BY <1>2, <1>t DEF Open, OpenReturns
    <3>3. QED
      BY <1>2, <3>1, <3>2, KnownSame
  <2>2. UNCHANGED <<Known, handlers \cap Known, handlers>>
    BY <1>2, <2>1
  <2>3. HostView!OpenReturns(t)
    BY <1>2, <2>2 DEF Open, OpenReturns, HostView!OpenReturns, HostView!library
  <2>4. QED
    BY <2>3 DEF HostView!Next, HostView!Continue
<1>3. QED
  BY <1>1, <1>2, OpenFrame DEF LInv, HostView!Next, HostView!Continue

LEMMA CloseSeen ==
  ASSUME IInv, LInv, NEW t \in Threads, CloseRecvCh(t)
  PROVE  HostView!Next
<1>1. /\ Undo(t) \/ StreamCloseReturns(t) \/ CloseOneReturns(t)
      /\ lpc[t] \in CloseLPC
  BY DEF CloseRecvCh, In, CloseLPC
<1>2. /\ registered' = registered \ {on[t]} /\ handlers' = handlers
      /\ \A u \in Threads : u # t => pc'[u] = pc[u] /\ on'[u] = on[u]
      /\ pc'[t] \in {"idle", "collect"} /\ pc[t] \in ClosePC
  BY <1>1, CloseFrame
<1>3. on[t] \notin registered /\ pc'[t] \notin ClosePC
  BY <1>1, <1>2 DEF LInv, Calls, ClosePC
<1>4. \A u \in Threads : u # t /\ pc[u] \in ClosePC => on[u] # on[t]
  BY <1>2 DEF IInv, Disjoint, OwnerPC
<1>5. ASSUME NEW g PROVE g \in Known' <=> g \in Known /\ g # on[t]
  <2>1. g \in Known <=> g \in registered \/ \E u \in Threads : pc[u] \in ClosePC /\ on[u] = g
    BY DEF Known
  <2>2. g \in Known' <=> g \in registered' \/ \E u \in Threads : pc'[u] \in ClosePC /\ on'[u] = g
    BY DEF Known
  <2>3. QED
    BY <1>2, <1>3, <1>4, <2>1, <2>2
<1>6. Known' = Known \ {on[t]}
  BY <1>5
<1>7. QED
  BY <1>1, <1>2, <1>6, SeenClose

(* The steps that the host does not see.                                   *)
LEMMA Unseen ==
  ASSUME UNCHANGED <<Host, Known, handlers>>
  PROVE  UNCHANGED HostView!vars
BY DEF Host, HostView!vars, HostView!library, HostView!symbols, HostView!objects, symbols, objects

LEMMA ForgetSeen ==
  ASSUME IInv, NEW t \in Threads, Forget(t)
  PROVE  UNCHANGED HostView!vars
<1>1. /\ pc[t] \in ClosePC /\ registered' = registered \ {on[t]}
      /\ UNCHANGED <<Host, handlers>> /\ pc' = pc /\ on' = on
  BY DEF Forget, Closing, Host
<1>2. Known' = Known
  BY <1>1 DEF Known
<1>3. QED
  BY <1>1, <1>2, Unseen

LEMMA ExitSeen ==
  ASSUME NEW h \in Streams, HandlerExits(h)
  PROVE  HostView!Next
<1>1. HandlerReturns(h) /\ UNCHANGED <<registered, pc, on>>
  BY DEF HandlerExits, HandlerReturns
<1>2. Known' = Known
  BY <1>1 DEF Known
<1>3. HostView!HandlerReturns(h)
  BY <1>1, <1>2 DEF HandlerReturns, HostView!HandlerReturns, HostView!symbols,
                    HostView!objects, symbols, objects
<1>4. QED
  BY <1>3 DEF HostView!Next

LEMMA StepSeen == IInv /\ LInv /\ [LibNext]_allVars => [HostView!Next]_HostView!vars
<1> SUFFICES ASSUME IInv, LInv, [LibNext]_allVars
             PROVE  HostView!Next \/ UNCHANGED HostView!vars
  OBVIOUS
<1>1. ASSUME NEW t \in Threads, HostOnly(t) PROVE HostView!Next
  <2>1. Same
    <3>1. /\ UNCHANGED <<registered, handlers>>
          /\ \A u \in Threads : u # t => pc'[u] = pc[u] /\ on'[u] = on[u]
          /\ pc[t] \notin ClosePC /\ (pc'[t] \in ClosePC => on'[t] \in registered)
      BY <1>1, HostFrame DEF OwnerPC
    <3>2. QED
      BY <3>1, KnownSame DEF Same
  <2>2. QED
    BY <1>1, <2>1, SeenHostOnly
<1>2. ASSUME UNCHANGED vars PROVE UNCHANGED HostView!vars
  <2>1. UNCHANGED <<Host, registered, handlers, pc, on>>
    BY <1>2 DEF vars, Host, library, symbols, objects
  <2>2. QED
    BY <2>1, Unseen DEF Known
<1>3. ASSUME NEW t \in Threads, SendReturns(t) \/ RecvReturns(t) PROVE HostView!Next
  <2>1. Same
    <3>1. /\ UNCHANGED <<registered, handlers>>
          /\ \A u \in Threads : u # t => pc'[u] = pc[u] /\ on'[u] = on[u]
          /\ pc[t] \notin ClosePC /\ pc'[t] \notin ClosePC
      BY <1>3, ReturnFrame DEF ClosePC
    <3>2. QED
      BY <3>1, KnownSame DEF Same
  <2>2. QED
    BY <1>3, <2>1, SeenReturn
<1>4. ASSUME NEW t \in Threads,
             SendChecks(t) \/ Sends(t) \/ SendPanics(t) \/ SendGivesUp(t) \/ HalfClose(t)
      PROVE  SendReturns(t) \/ UNCHANGED vars
  BY <1>4 DEF SendChecks, Sends, SendPanics, SendGivesUp, HalfClose
<1>5. ASSUME NEW t \in Threads,
             RecvFirst(t) \/ RecvSecond(t) \/ RecvThird(t) \/ RecvAfterDone(t)
      PROVE  RecvReturns(t) \/ UNCHANGED vars
  BY <1>5 DEF RecvFirst, RecvSecond, RecvThird, RecvAfterDone, TakeData, TakeClosed, TakeError,
              RecvLast, Finish, Pass
<1>6. ASSUME NEW t \in Threads, CancelStream(t) \/ CloseSendCh(t) PROVE UNCHANGED HostView!vars
  <2>1. UNCHANGED <<Host, registered, handlers, pc, on>>
    BY <1>6 DEF CancelStream, CloseSendCh, Host, vars, library, symbols, objects
  <2>2. QED
    BY <2>1, Unseen DEF Known
<1>7. ASSUME NEW h \in Streams, Handler(h) PROVE HandlerExits(h) \/ UNCHANGED <<Host, registered, handlers, pc, on>>
  BY <1>7 DEF Handler, Leaves, Receives, Produces, HandlerEnds, HandlerCancels, HandlerCancel,
              HostVars, Host
<1>8. ASSUME NEW h \in Streams, Handler(h) PROVE HostView!Next \/ UNCHANGED HostView!vars
  <2>1. CASE UNCHANGED <<Host, registered, handlers, pc, on>>
    BY <2>1, Unseen DEF Known
  <2>2. QED
    BY <1>7, <1>8, <2>1, ExitSeen
<1>9. CASE UNCHANGED allVars
  BY <1>2, <1>9 DEF allVars
<1>10. ASSUME NEW t \in Threads, InLibrary(t) PROVE HostView!Next \/ UNCHANGED HostView!vars
  BY <1>10, <1>2, <1>3, <1>4, <1>5, <1>6, OpenSeen, CloseSeen, ForgetSeen DEF InLibrary
<1>11. QED
  BY <1>1, <1>8, <1>9, <1>10 DEF LibNext

(* The library does what the model of the host takes for granted of it: a  *)
(* handle is new, a stream that Close is at work on is closed when Close   *)
(* returns, a context that has ended stays so (server.go:41, 116, 242).    *)
THEOREM LibraryImplementsHost == LibSpec => ImplementsHost
<1>1. LibInit => HostView!Init
  <2>1. LibInit => Known = {} /\ handlers \cap Known = {}
    BY DEF LibInit, Init, Known, ClosePC
  <2>2. QED
    BY <2>1 DEF LibInit, Init, HostView!Init
<1>2. QED
  BY <1>1, StepSeen, LibInvariance, PTL DEF LibSpec, ImplementsHost
=============================================================================
