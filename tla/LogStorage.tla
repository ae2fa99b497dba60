---------------------------- MODULE LogStorage ----------------------------
(***************************************************************************)
(* The time-sharded store (storage/storage.go) with the handlers that use  *)
(* it: ingestion, delete by id, clear, search, the cached statistics of    *)
(* handlers/info.go, and the retention goroutine of server/server.go.      *)
(*                                                                         *)
(* A shard is one Bleve index per day.  Storage.mu guards the map of open  *)
(* indexes, not what is done with an index taken from it, so an index can  *)
(* be closed under an operation that holds it.  The critical sections of   *)
(* mu are single actions here; a row stands for its document, and its      *)
(* timestamp decides the shard.                                            *)
(***************************************************************************)
EXTENDS Integers, FiniteSets

CONSTANTS
    Row,           \* rows, each stored by one call at most
    Worker,        \* requests in flight
    RowTime,       \* timestamps rows may have: the instant, in clock ticks, and
                   \* what their zone is ahead of UTC
    DayTicks,      \* clock ticks in a day
    RetentionDays, \* -retention-days, 0 keeps everything
    MaxTime,       \* bound: last tick of the clock
    MaxRestarts    \* bound: restarts of the server

ASSUME RowTimeAssumption == RowTime \subseteq [at : Nat, zone : Int] /\ RowTime # {}
ASSUME DayTicksAssumption == DayTicks \in Nat \ {0}
ASSUME RetentionDaysAssumption == RetentionDays \in Nat
ASSUME MaxTimeAssumption == MaxTime \in Nat
ASSUME MaxRestartsAssumption == MaxRestarts \in Nat

Time == 0 .. MaxTime

(* The date a timestamp formats to, in its own zone.                       *)
DateOf(t) == (t.at + t.zone) \div DayTicks
Day == {DateOf(t) : t \in RowTime}

VARIABLES
    time,      \* timestamp of each row
    now,       \* the clock
    shards,    \* logs-<day>.bleve directories on disk
    docs,      \* rows in them
    index,     \* days in Storage.indices
    handles,   \* live Bleve handles on each day's directory
    worker,    \* what each request is doing
    cache,     \* storageInfoCache: rows counted, and cacheValid
    restarts,  \* restarts so far
    sent,      \* history: rows handed to a Store call
    acked,     \* history: rows of answered Store calls
    dropped,   \* history: rows of answered deletes and clears
    removed,   \* history: rows that were in the store and no longer are
    pruned,    \* history: <<row, tick>> of the rows retention removed
    overtaken, \* history: a fill of the cache was running at an invalidation
    uncounted, \* history: days the last fill of the cache could not count
    halfRemoved \* history: days a failing removal closed and left on disk

diskVars == <<shards, docs>>
memoryVars == <<index, handles, worker, cache>>
historyVars == <<sent, acked, dropped, removed, pruned, overtaken, uncounted,
                halfRemoved>>
vars == <<time, now, diskVars, memoryVars, restarts, historyVars>>

DayOf(r) == DateOf(time[r])
RowsOf(days) == {r \in docs : DayOf(r) \in days}

(* op: what the request does; pc: where it is; todo: days left; day,       *)
(* handle: the index in hand; rows: its argument; seen: what it has        *)
(* counted, removed or found; skipped: days it could not count.            *)
Request ==
    [op : {"none", "store", "delete", "info", "search", "clear"},
     pc : {"idle", "next", "open", "use", "answered"},
     todo : SUBSET Day, day : Day, handle : {"none", "open", "closed"},
     rows : SUBSET Row, seen : SUBSET (Row \union Day), skipped : SUBSET Day]

Idle == [op |-> "none", pc |-> "idle", todo |-> {}, day |-> CHOOSE d \in Day : TRUE,
         handle |-> "none", rows |-> {}, seen |-> {}, skipped |-> {}]
BackToWalk(request) == [request EXCEPT !.pc = "next", !.handle = "none", !.day = Idle.day]

NoCache == [valid |-> FALSE, rows |-> {}]

Init ==
    /\ time \in [Row -> RowTime]
    /\ now \in Time
    /\ shards = {}
    /\ docs = {}
    /\ index = {}
    /\ handles = [d \in Day |-> 0]
    /\ worker = [w \in Worker |-> Idle]
    /\ cache = NoCache
    /\ restarts = 0
    /\ sent = {}
    /\ acked = {}
    /\ dropped = {}
    /\ removed = {}
    /\ pruned = {}
    /\ overtaken = FALSE
    /\ uncounted = {}
    /\ halfRemoved = {}

-----------------------------------------------------------------------------
(* Requests.  Everything but a Store call walks the days List finds on     *)
(* disk; a Store call walks the days of its rows, in map order.            *)

Begin(w, op, rows, days) ==
    /\ worker[w].op = "none"
    /\ worker' = [worker EXCEPT ![w] =
          [Idle EXCEPT !.op = op, !.pc = "next", !.rows = rows, !.todo = days]]

BeginStore(w, rows) ==
    /\ rows # {}
    /\ rows \cap sent = {}
    /\ Begin(w, "store", rows, {DayOf(r) : r \in rows})
    /\ sent' = sent \union rows
    /\ UNCHANGED <<time, now, diskVars, index, handles, cache, restarts, acked, dropped,
                   removed, pruned, overtaken, uncounted, halfRemoved>>

BeginDelete(w, rows) ==
    /\ rows # {}
    /\ Begin(w, "delete", rows, shards)
    /\ UNCHANGED <<time, now, diskVars, index, handles, cache, restarts, historyVars>>

(* SearchPage; rows remembers what it has to find.                         *)
BeginSearch(w) ==
    /\ Begin(w, "search", acked \ removed, shards)
    /\ UNCHANGED <<time, now, diskVars, index, handles, cache, restarts, historyVars>>

Filling(w) == worker[w].op = "info"

(* Faulty variant: nobody invalidates.                                     *)
KeepInfoCache == UNCHANGED <<cache, overtaken>>

InvalidateInfoCache ==
    /\ cache' = NoCache
    /\ overtaken' = \E w \in Worker : Filling(w)

(* HandleInfo past a cache miss, which ?refresh=true forces.               *)
BeginInfo(w, refresh) ==
    /\ IF refresh
       THEN InvalidateInfoCache
       ELSE ~cache.valid /\ UNCHANGED <<cache, overtaken>>
    /\ Begin(w, "info", {}, shards)
    /\ UNCHANGED <<time, now, diskVars, index, handles, restarts, sent, acked, dropped,
                   removed, pruned, uncounted, halfRemoved>>

(* Faulty variant of LookUpIndex: a search skips the days that are not open. *)
LookUpOpenIndex(w, d) ==
    /\ worker[w].pc = "next"
    /\ d \in worker[w].todo
    /\ LET pc == IF d \in index THEN "use" ELSE IF worker[w].op = "search" THEN "next" ELSE "open"
       IN  worker' = [worker EXCEPT ![w].todo = @ \ {d}, ![w].day = d, ![w].pc = pc,
                                    ![w].handle = IF d \in index THEN "open" ELSE "none"]
    /\ UNCHANGED <<time, now, diskVars, index, handles, cache, restarts, historyVars>>

(* The fast path of getOrCreateIndex, under the read lock.                 *)
LookUpIndex(w, d) ==
    /\ worker[w].pc = "next"
    /\ d \in worker[w].todo
    /\ worker' = [worker EXCEPT ![w].todo = @ \ {d}, ![w].day = d,
                                ![w].handle = IF d \in index THEN "open" ELSE "none",
                                ![w].pc = IF d \in index THEN "use" ELSE "open"]
    /\ UNCHANGED <<time, now, diskVars, index, handles, cache, restarts, historyVars>>

(* Faulty variant of Fail: every request skips the day that failed.        *)
SkipDay(w) == worker' = [worker EXCEPT ![w] = BackToWalk(@)]

(* An error ends the request, except that statistics skip the day.         *)
Fail(w) ==
    worker' = [worker EXCEPT ![w] =
        IF worker[w].op = "info"
        THEN [BackToWalk(worker[w]) EXCEPT !.skipped = worker[w].skipped \union {worker[w].day}]
        ELSE Idle]

(* Faulty variant of OpenIndex: it does not look again.                    *)
OpenUnchecked(w) ==
    LET d == worker[w].day
    IN  /\ worker[w].pc = "open"
        /\ index' = index \union {d}
        /\ shards' = shards \union {d}
        /\ handles' = [handles EXCEPT ![d] = @ + 1]
        /\ worker' = [worker EXCEPT ![w].pc = "use", ![w].handle = "open"]
        /\ UNCHANGED <<time, now, docs, cache, restarts, historyVars>>

(* Its slow path, under the write lock: look again, then open or create.   *)
OpenIndex(w) ==
    LET d == worker[w].day
    IN  /\ worker[w].pc = "open"
        /\ index' = index \union {d}
        /\ shards' = shards \union {d}
        /\ handles' = [handles EXCEPT ![d] = IF d \in index THEN @ ELSE @ + 1]
        /\ worker' = [worker EXCEPT ![w].pc = "use", ![w].handle = "open"]
        /\ UNCHANGED <<time, now, docs, cache, restarts, historyVars>>

OpenFails(w) ==
    /\ worker[w].pc = "open"
    /\ worker[w].day \notin index
    /\ Fail(w)
    /\ UNCHANGED <<time, now, diskVars, index, handles, cache, restarts, historyVars>>

Using(w, op) ==
    worker[w].pc = "use" /\ worker[w].op = op /\ worker[w].handle = "open"

(* Bleve refuses a closed index; an open one may fail too.                 *)
UseFails(w) ==
    /\ worker[w].pc = "use"
    /\ worker[w].op # "search"
    /\ Fail(w)
    /\ UNCHANGED <<time, now, diskVars, index, handles, cache, restarts, historyVars>>

StoreDay(w) ==
    /\ Using(w, "store")
    /\ docs' = docs \union {r \in worker[w].rows : DayOf(r) = worker[w].day}
    /\ worker' = [worker EXCEPT ![w] = BackToWalk(@)]
    /\ UNCHANGED <<time, now, shards, index, handles, cache, restarts, historyVars>>

DeleteDay(w) ==
    /\ Using(w, "delete")
    /\ LET found == RowsOf({worker[w].day}) \cap worker[w].rows
       IN  /\ docs' = docs \ found
           /\ removed' = removed \union found
           /\ worker' = [worker EXCEPT ![w] =
                 [BackToWalk(worker[w]) EXCEPT !.seen = worker[w].seen \union found]]
    /\ UNCHANGED <<time, now, shards, index, handles, cache, restarts, sent, acked,
                   dropped, pruned, overtaken, uncounted, halfRemoved>>

CountDay(w) ==
    /\ Using(w, "info")
    /\ worker' = [worker EXCEPT ![w] =
          [BackToWalk(worker[w]) EXCEPT
              !.seen = worker[w].seen \union RowsOf({worker[w].day})]]
    /\ UNCHANGED <<time, now, diskVars, index, handles, cache, restarts, historyVars>>

WalkEnds(w, op) ==
    worker[w].pc = "next" /\ worker[w].op = op /\ worker[w].todo = {}

(* The last thing a successful change does before it is answered.          *)
AnswerChange(w) ==
    /\ \E op \in {"store", "delete", "clear"} : WalkEnds(w, op)
    /\ InvalidateInfoCache
    /\ worker' = [worker EXCEPT ![w] = Idle]
    /\ acked' = IF worker[w].op = "store" THEN acked \union worker[w].rows ELSE acked
    /\ dropped' = IF worker[w].op = "store" THEN dropped ELSE dropped \union worker[w].seen
    /\ UNCHANGED <<time, now, diskVars, index, handles, restarts, sent, removed, pruned,
                   uncounted, halfRemoved>>

(* The filled cache is valid whatever happened since it was found invalid. *)
FillCache(w) ==
    /\ WalkEnds(w, "info")
    /\ cache' = [valid |-> TRUE, rows |-> worker[w].seen]
    /\ worker' = [worker EXCEPT ![w] = Idle]
    /\ uncounted' = worker[w].skipped
    /\ UNCHANGED <<time, now, diskVars, index, handles, restarts, sent, acked, dropped,
                   removed, pruned, overtaken, halfRemoved>>

(* GetSourceNames runs a search that may fail: the cache is not filled.    *)
InfoFails(w) ==
    /\ Filling(w)
    /\ worker[w].pc = "next"
    /\ worker[w].seen = {}
    /\ worker' = [worker EXCEPT ![w] = Idle]
    /\ UNCHANGED <<time, now, diskVars, index, handles, cache, restarts, historyVars>>

(* An index SearchPage has opened is used under one lease of the read lock *)
(* at the end: it searches those of the days that are open by then.        *)
SearchOpens(w) ==
    /\ worker[w].pc = "use" /\ worker[w].op = "search"
    /\ worker' = [worker EXCEPT ![w] =
          [BackToWalk(worker[w]) EXCEPT !.seen = worker[w].seen \union {worker[w].day}]]
    /\ UNCHANGED <<time, now, diskVars, index, handles, cache, restarts, historyVars>>

SearchReads(w) ==
    /\ WalkEnds(w, "search")
    /\ worker' = [worker EXCEPT ![w].pc = "answered",
                                ![w].seen = RowsOf(index \cap worker[w].seen)]
    /\ UNCHANGED <<time, now, diskVars, index, handles, cache, restarts, historyVars>>

AnswerSearch(w) ==
    /\ worker[w].pc = "answered"
    /\ worker' = [worker EXCEPT ![w] = Idle]
    /\ UNCHANGED <<time, now, diskVars, index, handles, cache, restarts, historyVars>>

-----------------------------------------------------------------------------
(* Removal of whole shards, under the write lock.                          *)

(* Close the indexes of days and delete the directories gone of them.      *)
CloseAndRemove(days, gone) ==
    /\ index' = index \ days
    /\ handles' = [d \in Day |-> IF d \in days THEN 0 ELSE handles[d]]
    /\ shards' = shards \ gone
    /\ docs' = docs \ RowsOf(gone)
    /\ removed' = removed \union RowsOf(gone)
    /\ halfRemoved' = halfRemoved \union (days \ gone)

\* The workers once the indexes of days are closed.
Closed(days) ==
    [w \in Worker |-> IF worker[w].handle = "open" /\ worker[w].day \in days
                      THEN [worker[w] EXCEPT !.handle = "closed"] ELSE worker[w]]

(* HandleClear.  Every index is closed before the first directory goes; a  *)
(* failure leaves some closed, or some gone, and skips the invalidation.   *)
Clear(w, days, gone) ==
    /\ worker[w].op = "none"
    /\ gone # {} => days = index
    /\ CloseAndRemove(days, gone)
    /\ worker' = [Closed(days) EXCEPT ![w] =
          IF days = index /\ gone = shards
          THEN [Idle EXCEPT !.op = "clear", !.pc = "next", !.seen = docs] ELSE Idle]
    /\ UNCHANGED <<time, now, cache, restarts, sent, acked, dropped, pruned, overtaken,
                   uncounted>>

(* Faulty variant of Expired: a day too early.                             *)
ExpiredEarly(d) == d * DayTicks + RetentionDays * DayTicks < now + DayTicks

(* A shard expires when the start of its day, in UTC whatever the zone of  *)
(* the rows that named it, is before the cutoff.                           *)
Expired(d) == d * DayTicks + RetentionDays * DayTicks < now

(* PruneOlderThan goes from shard to shard until one of them fails, closed *)
(* or not.  Nothing invalidates the cache.                                 *)
PruneOlderThan(days, gone) ==
    /\ RetentionDays > 0
    /\ gone \subseteq days
    /\ \A d \in days : Expired(d)
    /\ Cardinality(days \ gone) <= 1
    /\ CloseAndRemove(days, gone)
    /\ worker' = Closed(days)
    /\ pruned' = pruned \union {<<r, now>> : r \in RowsOf(gone)}
    /\ UNCHANGED <<time, now, cache, restarts, sent, acked, dropped, overtaken, uncounted>>

(* A crash or restart: the requests are gone, and NewStorage skips a shard *)
(* it cannot open.                                                         *)
Restart(opened) ==
    /\ restarts < MaxRestarts
    /\ restarts' = restarts + 1
    /\ index' = opened
    /\ handles' = [d \in Day |-> IF d \in opened THEN 1 ELSE 0]
    /\ worker' = [w \in Worker |-> Idle]
    /\ cache' = NoCache
    /\ overtaken' = FALSE
    /\ UNCHANGED <<time, now, diskVars, sent, acked, dropped, removed, pruned, uncounted,
                   halfRemoved>>

Tick ==
    /\ now < MaxTime
    /\ now' = now + 1
    /\ UNCHANGED <<time, diskVars, memoryVars, restarts, historyVars>>

-----------------------------------------------------------------------------
WorkerNext(w) ==
    \/ \E rows \in SUBSET Row : BeginStore(w, rows) \/ BeginDelete(w, rows)
    \/ \E refresh \in BOOLEAN : BeginInfo(w, refresh)
    \/ BeginSearch(w)
    \/ \E d \in Day : LookUpIndex(w, d)
    \/ OpenIndex(w) \/ OpenFails(w) \/ UseFails(w)
    \/ StoreDay(w) \/ DeleteDay(w) \/ CountDay(w) \/ SearchOpens(w)
    \/ AnswerChange(w)
    \/ FillCache(w) \/ InfoFails(w)
    \/ SearchReads(w) \/ AnswerSearch(w)
    \/ \E days \in SUBSET index, gone \in SUBSET shards : Clear(w, days, gone)

Next ==
    \/ \E w \in Worker : WorkerNext(w)
    \/ \E days, gone \in SUBSET shards : PruneOlderThan(days, gone)
    \/ \E opened \in SUBSET shards : Restart(opened)
    \/ Tick

Spec == Init /\ [][Next]_vars

-----------------------------------------------------------------------------
(* Correctness.                                                            *)

(* The variables keep their types; an open index has its directory.        *)
TypeOK ==
    /\ time \in [Row -> RowTime]
    /\ now \in Time
    /\ shards \subseteq Day
    /\ docs \subseteq Row
    /\ index \subseteq shards
    /\ handles \in [Day -> Nat]
    /\ worker \in [Worker -> Request]
    /\ cache \in [valid : BOOLEAN, rows : SUBSET Row]
    /\ restarts \in 0 .. MaxRestarts
    /\ sent \subseteq Row
    /\ acked \subseteq Row
    /\ dropped \subseteq Row
    /\ removed \subseteq Row
    /\ pruned \subseteq Row \X Time
    /\ overtaken \in BOOLEAN
    /\ uncounted \subseteq Day
    /\ halfRemoved \subseteq Day

(* A shard is never opened twice at a time, however many requests find it  *)
(* missing from the map at once (the second open of a Bleve directory      *)
(* would wait for its file lock for ever), and the map knows of each.      *)
OneHandlePerShard ==
    \A d \in Day : handles[d] = IF d \in index THEN 1 ELSE 0

(* The map of indexes, the directories and the handles agree.              *)
Consistent == TypeOK /\ OneHandlePerShard

(* A row whose Store call was answered with success is in the store until  *)
(* a delete, a clear or retention removes it, also when clear or retention *)
(* closed an index the call was still using, and across restarts.          *)
AckedIsStored == acked \subseteq docs \union removed

(* A search finds every row that was answered for before it began and that *)
(* nobody has removed since: it opens what List found and the restart      *)
(* skipped, and nothing is closed during the lease.  It misses, without an *)
(* error, a day closed before the lease by a removal that then failed.     *)
SearchFindsAcked ==
    \A w \in Worker : worker[w].pc = "answered" =>
        {r \in worker[w].rows \ removed : DayOf(r) \notin halfRemoved} \subseteq worker[w].seen

(* The statistics a client gets from the cache count every row it was told *)
(* is stored and none it was told is deleted, unless a fill was already    *)
(* running at the invalidation and is cached as valid after it, or could   *)
(* not count a day, which HandleInfo caches all the same.                  *)
CacheIsFresh ==
    cache.valid /\ ~overtaken =>
        /\ {r \in acked \ removed : DayOf(r) \notin uncounted} \subseteq cache.rows
        /\ cache.rows \cap dropped = {}

(* The age of row r at a tick, as far as retention can tell: the name of a *)
(* shard is a date in the zone of its rows, and retention reads it as one  *)
(* of UTC.  A row of a zone behind UTC is younger than that.               *)
AgeByName(r, tick) == tick - (time[r].at + time[r].zone)

(* Retention takes no row younger than the day before the window, plus     *)
(* what the row's zone is ahead of UTC: none is lost earlier than by the   *)
(* hours its own zone is behind.                                           *)
PrunedIsOld ==
    \A p \in pruned : AgeByName(p[1], p[2]) > (RetentionDays - 1) * DayTicks

=============================================================================
