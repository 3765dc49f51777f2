---------------------------- MODULE CacheService ----------------------------
(***************************************************************************)
(* The cache of pkg/service/cache.go: one store of the SQLite table, the   *)
(* calls that clients make, the goroutine that expires and evicts rows     *)
(* (cleanupLoop), the goroutine that writes access times in batches        *)
(* (accessUpdateLoop), and Close.  Pausing is in CachePause.               *)
(*                                                                         *)
(* A step is one SQL statement, one operation on accessChan or on          *)
(* maintenanceMu, or one case of a select.  A statement is atomic, succeeds *)
(* while the database is open and fails once Close has closed it; most of  *)
(* the code ignores the failure.  One clock, now, stands for the seconds   *)
(* of expires_at and the nanoseconds of accessed_at.                       *)
(***************************************************************************)
EXTENDS Naturals, Sequences, FiniteSetsExt, Functions

CONSTANTS
  Clients,     \* goroutines that call Put and Get
  Keys,        \* keys of the store
  Sizes,       \* what len(Value) or Cost of a Put may be
  Ttls,        \* TtlSeconds of a Put, 0 for none
  EntryLimits, \* what SetMaxEntries may set
  ByteLimits,  \* what SetMaxBytes may set
  Throttle,    \* age from which Get refreshes accessed_at (a minute)
  ChanCap,     \* capacity of accessChan (4096)
  FlushAt,     \* pending updates that force a flush (250)
  Batch,       \* rows that one step of the byte eviction deletes (50)
  MaxTime      \* bound: the clock stops there

ASSUME CacheAssumption ==
  /\ Sizes \subseteq Nat /\ Ttls \subseteq Nat
  /\ EntryLimits \subseteq Nat /\ ByteLimits \subseteq Nat
  /\ Throttle \in Nat /\ MaxTime \in Nat
  /\ ChanCap \in Nat \ {0} /\ FlushAt \in Nat \ {0} /\ Batch \in Nat \ {0}

VARIABLES
  now,
  rows,         \* the table: a record for each key that has a row
  maxEntries, maxBytes,  \* limits of the store, 0 for none
  accessChan,   \* <<key, accessedAt>> updates on the channel
  pending,      \* accessedAt by key, what accessUpdateLoop has collected
  armed,        \* timerCh # nil: its timer runs
  aloc,         \* where accessUpdateLoop is
  cloc,         \* where cleanupLoop is
  excess, total, ids,  \* locals of evictOverCapacity
  maintenanceMu,  \* who holds it: "cleanup", "compact" or "nobody"
  op,           \* the call of each client: how far it is, and its arguments
  closed,       \* closed is set and ctx is cancelled
  dbOpen, timedOut,  \* the database is open; Close ran into its timeout
  disturbed     \* a Put or a new limit arrived since the last Tick

limits  == <<maxEntries, maxBytes>>
updates == <<accessChan, pending, armed, aloc>>
evict   == <<excess, total, ids>>
life    == <<closed, dbOpen, timedOut>>
vars == <<now, rows, limits, updates, cloc, evict, maintenanceMu, op, life, disturbed>>

Empty == [k \in {} |-> 0]
Idle  == [kind |-> "idle"]

Init ==
  /\ now = 0 /\ rows = Empty /\ maxEntries = 0 /\ maxBytes = 0
  /\ accessChan = <<>> /\ pending = Empty /\ armed = FALSE /\ aloc = "run"
  /\ cloc = "wait" /\ excess = 0 /\ total = 0 /\ ids = Empty
  /\ maintenanceMu = "nobody"
  /\ op = [c \in Clients |-> Idle]
  /\ closed = FALSE /\ dbOpen = TRUE /\ timedOut = FALSE /\ disturbed = FALSE

Clock ==
  /\ now < MaxTime
  /\ now' = now + 1
  /\ UNCHANGED <<rows, limits, updates, cloc, evict, maintenanceMu, op, life, disturbed>>

At(c, l)   == op[c].kind = l
Goto(c, o) == op' = [op EXCEPT ![c] = o]
Return(c)  == Goto(c, Idle)
Without(S) == Restrict(rows, DOMAIN rows \ S)
With(f, k, v) == [j \in DOMAIN f \cup {k} |-> IF j = k THEN v ELSE f[j]]

(***************************************************************************)
(* Calls of a client.  A call that has found closed not set may reach the  *)
(* statement at any time until the database is closed.                     *)
(***************************************************************************)
Row(size, ttl) == [size |-> size, expires |-> IF ttl > 0 THEN now + ttl ELSE 0, accessed |-> now]

PreparePut(c) ==
  /\ At(c, "idle") /\ ~closed
  /\ \E k \in Keys, size \in Sizes, ttl \in Ttls :
       Goto(c, [kind |-> "put", key |-> k, row |-> Row(size, ttl)])
  /\ UNCHANGED <<now, rows, limits, updates, cloc, evict, maintenanceMu, life, disturbed>>

Put(c) ==
  /\ At(c, "put")
  /\ rows' = IF dbOpen THEN With(rows, op[c].key, op[c].row) ELSE rows
  /\ disturbed' = TRUE
  /\ Return(c)
  /\ UNCHANGED <<now, limits, updates, cloc, evict, maintenanceMu, life>>

Remove(S) ==
  /\ dbOpen
  /\ rows' = Without(S)
  /\ UNCHANGED <<now, limits, updates, cloc, evict, maintenanceMu, op, life, disturbed>>

Delete == \E k \in DOMAIN rows : Remove({k})
Clear  == Remove(DOMAIN rows)

(* Get reads the row, then looks at the time and may refresh the access.   *)
GetRow(c) ==
  /\ At(c, "idle") /\ dbOpen
  /\ \E k \in DOMAIN rows : Goto(c, [kind |-> "got", key |-> k, row |-> rows[k]])
  /\ UNCHANGED <<now, rows, limits, updates, cloc, evict, maintenanceMu, life, disturbed>>

Expired(r) == r.expires > 0 /\ r.expires < now

HasRoom == Len(accessChan) < ChanCap

Got(c) ==
  /\ At(c, "got")
  /\ accessChan' = IF /\ ~Expired(op[c].row)
                      /\ now - op[c].row.accessed > Throttle
                      /\ HasRoom
                   THEN Append(accessChan, <<op[c].key, now>>) ELSE accessChan
  /\ Return(c)
  /\ UNCHANGED <<now, rows, limits, pending, armed, aloc, cloc, evict, maintenanceMu, life, disturbed>>

SetLimits ==
  /\ \/ maxEntries' \in EntryLimits /\ maxBytes' = maxBytes
     \/ maxBytes' \in ByteLimits /\ maxEntries' = maxEntries
  /\ disturbed' = TRUE
  /\ UNCHANGED <<now, rows, updates, cloc, evict, maintenanceMu, op, life>>

(* Compact holds maintenanceMu while SQLite rewrites the file.             *)
Compact ==
  /\ maintenanceMu = "nobody"
  /\ maintenanceMu' = "compact"
  /\ UNCHANGED <<now, rows, limits, updates, cloc, evict, op, life, disturbed>>

CompactReturns ==
  /\ maintenanceMu = "compact"
  /\ maintenanceMu' = "nobody"
  /\ UNCHANGED <<now, rows, limits, updates, cloc, evict, op, life, disturbed>>

(* Close waits for both goroutines, but no longer than five seconds, and   *)
(* then closes the database.  A second call returns at once.               *)
Close ==
  /\ ~closed
  /\ closed' = TRUE
  /\ UNCHANGED <<now, rows, limits, updates, cloc, evict, maintenanceMu, op, dbOpen, timedOut,
                 disturbed>>

BugJoined == cloc = "exit"
Joined == cloc = "exit" /\ aloc = "exit"

CloseDb ==
  /\ closed /\ dbOpen
  /\ timedOut' = ~Joined
  /\ dbOpen' = FALSE
  /\ UNCHANGED <<now, rows, limits, updates, cloc, evict, maintenanceMu, op, closed, disturbed>>

(***************************************************************************)
(* accessUpdateLoop: a select over the end, the channel and the timer.  A  *)
(* flush writes the pending updates one by one, in no order.               *)
(***************************************************************************)
BugArm == armed
Arm == TRUE

TakeUpdate ==
  /\ aloc = "run" /\ accessChan # <<>>
  /\ accessChan' = Tail(accessChan)
  /\ pending' = With(pending, Head(accessChan)[1], Head(accessChan)[2])
  /\ IF Cardinality(DOMAIN pending') >= FlushAt
       THEN aloc' = "flush" /\ armed' = FALSE
       ELSE aloc' = "run" /\ armed' = Arm
  /\ UNCHANGED <<now, rows, limits, cloc, evict, maintenanceMu, op, life, disturbed>>

FlushTimer ==
  /\ aloc = "run" /\ armed
  /\ aloc' = "flush" /\ armed' = FALSE
  /\ UNCHANGED <<now, rows, limits, accessChan, pending, cloc, evict, maintenanceMu, op, life,
                 disturbed>>

StopUpdates ==
  /\ aloc = "run" /\ closed
  /\ aloc' = "final"
  /\ UNCHANGED <<now, rows, limits, accessChan, pending, armed, cloc, evict, maintenanceMu, op,
                 life, disturbed>>

(* UPDATE ... SET accessed_at: a key without a row stays without.          *)
BugTouch(k) == rows' = With(rows, k, [size |-> 0, expires |-> 0, accessed |-> pending[k]])
Touch(k) ==
  rows' = IF dbOpen /\ k \in DOMAIN rows THEN [rows EXCEPT ![k].accessed = pending[k]] ELSE rows

FlushOne ==
  /\ aloc \in {"flush", "final"}
  /\ \E k \in DOMAIN pending :
       /\ Touch(k)
       /\ pending' = Restrict(pending, DOMAIN pending \ {k})
  /\ UNCHANGED <<now, limits, accessChan, armed, aloc, cloc, evict, maintenanceMu, op, life,
                 disturbed>>

FlushDone ==
  /\ aloc \in {"flush", "final"} /\ pending = Empty
  /\ aloc' = IF aloc = "final" THEN "exit" ELSE "run"
  /\ UNCHANGED <<now, rows, limits, accessChan, pending, armed, cloc, evict, maintenanceMu, op,
                 life, disturbed>>

(***************************************************************************)
(* cleanupLoop: the ticker, maintenanceMu, cleanupExpired, the two parts   *)
(* of evictOverCapacity, and the incremental vacuum before the unlock.     *)
(***************************************************************************)
CleanTo(l) == cloc' = l
CFrame == UNCHANGED <<now, limits, updates, op, life>>

Tick ==
  /\ cloc = "wait"
  /\ CleanTo("lock")
  /\ UNCHANGED <<rows, evict, maintenanceMu, disturbed>> /\ CFrame

StopCleanup ==
  /\ cloc = "wait" /\ closed
  /\ CleanTo("exit")
  /\ UNCHANGED <<rows, evict, maintenanceMu, disturbed>> /\ CFrame

LockMaintenance ==
  /\ cloc = "lock" /\ maintenanceMu = "nobody"
  /\ maintenanceMu' = "cleanup" /\ disturbed' = FALSE
  /\ CleanTo("expire")
  /\ UNCHANGED <<rows, evict>> /\ CFrame

CleanupExpired ==
  /\ cloc = "expire"
  /\ rows' = IF dbOpen THEN Without({k \in DOMAIN rows : Expired(rows[k])}) ELSE rows
  /\ CleanTo("count")
  /\ UNCHANGED <<evict, maintenanceMu, disturbed>> /\ CFrame

Count == Cardinality(DOMAIN rows)
Bytes == SumFunction([k \in DOMAIN rows |-> rows[k].size])

BugExcess == Count - maxEntries - 1
Excess == Count - maxEntries

CountRows ==
  /\ cloc = "count"
  /\ IF dbOpen /\ 0 < maxEntries /\ maxEntries < Count
       THEN CleanTo("evict") /\ excess' = Excess
       ELSE CleanTo("sum") /\ excess' = 0
  /\ UNCHANGED <<rows, total, ids, maintenanceMu, disturbed>> /\ CFrame

(* ORDER BY accessed_at ASC LIMIT n; rows of the same age in any order.    *)
Oldest(n) ==
  {S \in SUBSET DOMAIN rows :
     /\ Cardinality(S) = IF n < Count THEN n ELSE Count
     /\ \A k \in S, j \in DOMAIN rows \ S : rows[k].accessed <= rows[j].accessed}

EvictCount ==
  /\ cloc = "evict"
  /\ \E S \in Oldest(excess) : rows' = IF dbOpen THEN Without(S) ELSE rows
  /\ CleanTo("sum") /\ excess' = 0
  /\ UNCHANGED <<total, ids, maintenanceMu, disturbed>> /\ CFrame

SumSize ==
  /\ cloc = "sum"
  /\ IF dbOpen /\ 0 < maxBytes /\ maxBytes < Bytes
       THEN CleanTo("batch") /\ total' = Bytes
       ELSE CleanTo("vacuum") /\ total' = 0
  /\ UNCHANGED <<rows, excess, ids, maintenanceMu, disturbed>> /\ CFrame

OldestRows ==
  /\ cloc = "batch"
  /\ IF dbOpen /\ rows # Empty
       THEN /\ \E S \in Oldest(Batch) : ids' = [k \in S |-> rows[k].size]
            /\ CleanTo("delete") /\ total' = total
       ELSE ids' = Empty /\ CleanTo("vacuum") /\ total' = 0
  /\ UNCHANGED <<rows, excess, maintenanceMu, disturbed>> /\ CFrame

(* The loop goes by its own account of the bytes that are left.            *)
DeleteBatch ==
  /\ cloc = "delete"
  /\ LET left == total - SumFunction(ids) IN
       IF dbOpen
         THEN /\ rows' = Without(DOMAIN ids)
              /\ IF left > maxBytes THEN CleanTo("batch") /\ total' = left
                                    ELSE CleanTo("vacuum") /\ total' = 0
         ELSE rows' = rows /\ CleanTo("vacuum") /\ total' = 0
  /\ ids' = Empty
  /\ UNCHANGED <<excess, maintenanceMu, disturbed>> /\ CFrame

UnlockMaintenance ==
  /\ cloc = "vacuum"
  /\ maintenanceMu' = "nobody"
  /\ CleanTo("wait")
  /\ UNCHANGED <<rows, evict, disturbed>> /\ CFrame

---------------------------------------------------------------------------
Client(c) == PreparePut(c) \/ Put(c) \/ GetRow(c) \/ Got(c)
Caller == Delete \/ Clear \/ SetLimits \/ Compact \/ CompactReturns \/ Close \/ CloseDb
Updater == TakeUpdate \/ FlushTimer \/ FlushOne \/ FlushDone
Cleanup == \/ Tick \/ LockMaintenance \/ CleanupExpired \/ CountRows \/ EvictCount
           \/ SumSize \/ OldestRows \/ DeleteBatch \/ UnlockMaintenance

Next == \/ Clock \/ Caller \/ Updater \/ StopUpdates \/ Cleanup \/ StopCleanup
        \/ \E c \in Clients : Client(c)

Spec == Init /\ [][Next]_vars

(* "removes least-recently-used entries when stores exceed their limits"   *)
(* (cache.go:374): when a maintenance ends during which nothing was put    *)
(* and no limit changed, the store is within both limits, whatever was     *)
(* read, deleted and flushed meanwhile.                                    *)
LimitEnforced ==
  cloc = "vacuum" /\ ~disturbed /\ dbOpen =>
    (maxEntries > 0 => Count <= maxEntries) /\ (maxBytes > 0 => Bytes <= maxBytes)

(* "Graceful shutdown" (cache.go:42): unless Close ran into its timeout,   *)
(* the database is closed after both goroutines have ended, the access     *)
(* times that were collected being written.                                *)
CleanClose == ~dbOpen /\ ~timedOut => cloc = "exit" /\ aloc = "exit" /\ pending = Empty

(* A deleted, expired or evicted key comes back by a Put only, however     *)
(* late its access time is written.                                        *)
NoResurrection ==
  [][\A k \in DOMAIN rows' \ DOMAIN rows :
       \E c \in Clients : At(c, "put") /\ op[c].key = k]_vars

(* A collected access time never waits for another access in order to be   *)
(* written: the lazily started timer runs as long as anything is pending   *)
(* ("Start timer if not running", cache.go:323).                           *)
FlushArmed == aloc = "run" /\ pending # Empty => armed
=============================================================================
