------------------------------ MODULE LiveHub ------------------------------
(***************************************************************************)
(* The live-tail hub of handlers/live.go: TailManager with its sources and *)
(* its SSE subscribers.  A source is tailed by one goroutine that stores a *)
(* batch and then fans it out; the request that registered the source      *)
(* announces it from another goroutine; every browser connection is a      *)
(* subscriber with a bounded channel, a paused flag and skipped counters.  *)
(*                                                                         *)
(* The unit of data is the batch <<source, k>>: one "rows" event, which    *)
(* enqueue either sends or counts as a whole.  skipped[s] is the set of    *)
(* batches the code's counters have counted; the code keeps their number   *)
(* of rows per source.  The channel of a subscriber is its log of accepted *)
(* events and the cursor up to which the SSE handler has written them, so  *)
(* its occupancy is Len(log) - cursor.                                     *)
(***************************************************************************)
EXTENDS Naturals, Sequences, FiniteSets

CONSTANTS
    Source,         \* ids of the tail sources
    Subscriber,     \* ids of the SSE connections, each used once
    Filters,        \* source_id filters the connections are opened with
    BufferCapacity, \* liveSubscriberBuffer: slots of a subscriber's channel
    MaxBatches      \* bound: batches a source reads before it is out of input

AnySource == "any"  \* an empty source_id filter

ASSUME FiltersAssumption == Filters \subseteq Source \union {AnySource}
ASSUME BufferCapacityAssumption == BufferCapacity \in Nat \ {0}
ASSUME MaxBatchesAssumption == MaxBatches \in Nat

Batch == Source \X (1 .. MaxBatches)

\* One goroutine tails the source, another one announces it.
Thread == {"tail", "starter"}
Publisher == Source \X Thread

TerminalStatus == {"stopped", "error"}

Event == [name: {"rows", "skipped", "source_status"}, source: Source,
          batches: SUBSET Batch, status: {"", "started"} \union TerminalStatus]

VARIABLES
    active,      \* TailManager.sources
    tail,        \* program counter of the goroutine of a source
    next,        \* next batch number of a source
    stored,      \* batches StoreWithIDs has accepted
    announced,   \* sources whose "started" publication has begun
    pubEvent,    \* event each publisher is fanning out
    pubTodo,     \* subscribers of its snapshot it has not reached yet
    registered,  \* TailManager.subscribers
    stream,      \* program counter of the SSE handler of a subscriber
    filter,      \* liveSubscriber.sourceFilter
    hello,       \* source ids the hello event listed
    log,         \* events the subscriber's channel has accepted, in order
    cursor,      \* number of them written to the client
    paused,      \* liveSubscriber.paused
    skipped,     \* liveSubscriber.skipped
    reports,     \* skipped events ResumeSubscriber still has to enqueue
    offered,     \* history: batches enqueue was called with
    unreported,  \* history: batches whose skipped event was not accepted
    statusLost   \* history: sources whose status event was not accepted

sourceVars == <<active, tail, next, stored, announced>>
publishVars == <<pubEvent, pubTodo>>
streamVars == <<registered, stream, filter, hello>>
channelVars == <<log, cursor, paused, skipped, reports>>
historyVars == <<offered, unreported, statusLost>>
vars == <<sourceVars, publishVars, streamVars, channelVars, historyVars>>

RowsEvent(b) == [name |-> "rows", source |-> b[1], batches |-> {b}, status |-> ""]

(* Faulty variant: a resume replays the skipped rows themselves.           *)
ReplayEvent(src, bs) ==
    [name |-> "rows", source |-> src, batches |-> bs, status |-> ""]

SkippedEvent(src, bs) ==
    [name |-> "skipped", source |-> src, batches |-> bs, status |-> ""]

StatusEvent(src, st) ==
    [name |-> "source_status", source |-> src, batches |-> {}, status |-> st]

NoEvent(src) == StatusEvent(src, "")

Init ==
    /\ active = {}
    /\ tail = [src \in Source |-> "absent"]
    /\ next = [src \in Source |-> 1]
    /\ stored = {}
    /\ announced = {}
    /\ pubEvent = [p \in Publisher |-> NoEvent(p[1])]
    /\ pubTodo = [p \in Publisher |-> {}]
    /\ registered = {}
    /\ stream = [s \in Subscriber |-> "new"]
    /\ filter = [s \in Subscriber |-> AnySource]
    /\ hello = [s \in Subscriber |-> {}]
    /\ log = [s \in Subscriber |-> << >>]
    /\ cursor = [s \in Subscriber |-> 0]
    /\ paused = [s \in Subscriber |-> FALSE]
    /\ skipped = [s \in Subscriber |-> {}]
    /\ reports = [s \in Subscriber |-> {}]
    /\ offered = [s \in Subscriber |-> {}]
    /\ unreported = [s \in Subscriber |-> {}]
    /\ statusLost = [s \in Subscriber |-> {}]

-----------------------------------------------------------------------------
(* Publication: publishRows and publishStatus.                             *)

(* The subscriber list is copied under the read lock, which is released    *)
(* before the first enqueue.                                               *)
Snapshot(p, event) ==
    /\ pubTodo[p] = {}
    /\ pubEvent' = [pubEvent EXCEPT ![p] = event]
    /\ pubTodo' = [pubTodo EXCEPT ![p] =
                     {s \in registered : filter[s] \in {AnySource, event.source}}]

HasRoom(s) == Len(log[s]) - cursor[s] < BufferCapacity

(* enqueue: a non-blocking send under sub.mu.                              *)
Accepts(s) == ~paused[s] /\ HasRoom(s)

(* Faulty variant of Enqueue: a blocking send for a client that reads.     *)
EnqueueWaiting(p, s) ==
    /\ s \in pubTodo[p]
    /\ paused[s] \/ HasRoom(s)
    /\ pubTodo' = [pubTodo EXCEPT ![p] = @ \ {s}]
    /\ offered' = [offered EXCEPT ![s] = @ \union pubEvent[p].batches]
    /\ IF paused[s]
       THEN /\ skipped' = [skipped EXCEPT ![s] = @ \union pubEvent[p].batches]
            /\ UNCHANGED log
       ELSE /\ log' = [log EXCEPT ![s] = Append(@, pubEvent[p])]
            /\ UNCHANGED skipped
    /\ UNCHANGED <<sourceVars, pubEvent, streamVars, cursor, paused, reports,
                   unreported, statusLost>>

(* The fan-out reaches one subscriber of the snapshot, in any order: it is *)
(* the iteration order of a map.                                           *)
Enqueue(p, s) ==
    /\ s \in pubTodo[p]
    /\ pubTodo' = [pubTodo EXCEPT ![p] = @ \ {s}]
    /\ offered' = [offered EXCEPT ![s] = @ \union pubEvent[p].batches]
    /\ IF Accepts(s)
       THEN /\ log' = [log EXCEPT ![s] = Append(@, pubEvent[p])]
            /\ UNCHANGED <<skipped, statusLost>>
       ELSE /\ skipped' = [skipped EXCEPT ![s] = @ \union pubEvent[p].batches]
            /\ statusLost' = [statusLost EXCEPT ![s] =
                                IF pubEvent[p].name = "source_status"
                                THEN @ \union {pubEvent[p].source} ELSE @]
            /\ UNCHANGED log
    /\ UNCHANGED <<sourceVars, pubEvent, streamVars, cursor, paused, reports,
                   unreported>>

-----------------------------------------------------------------------------
(* Sources: StartFile / StartStdin, the tailing goroutine, finish.         *)

AddSource(src) ==
    /\ tail[src] = "absent"
    /\ tail' = [tail EXCEPT ![src] = "reading"]
    /\ active' = active \union {src}
    /\ UNCHANGED <<next, stored, announced, publishVars, streamVars, channelVars,
                   historyVars>>

(* The goroutine is already running when the starter publishes "started".  *)
AnnounceSource(src) ==
    /\ tail[src] # "absent"
    /\ src \notin announced
    /\ announced' = announced \union {src}
    /\ Snapshot(<<src, "starter">>, StatusEvent(src, "started"))
    /\ UNCHANGED <<active, tail, next, stored, streamVars, channelVars, historyVars>>

Reading(src) == tail[src] = "reading" /\ pubTodo[<<src, "tail">>] = {}

(* Faulty variant of StoreBatch: a store error does not stop the fan-out.  *)
StoreBatchOrNot(src) ==
    /\ Reading(src)
    /\ next[src] <= MaxBatches
    /\ tail' = [tail EXCEPT ![src] = "stored"]
    /\ stored' \in {stored, stored \union {<<src, next[src]>>}}
    /\ UNCHANGED <<active, next, announced, publishVars, streamVars, channelVars,
                   historyVars>>

(* processFoldedLines up to the successful StoreWithIDs.                   *)
StoreBatch(src) ==
    /\ Reading(src)
    /\ next[src] <= MaxBatches
    /\ tail' = [tail EXCEPT ![src] = "stored"]
    /\ stored' = stored \union {<<src, next[src]>>}
    /\ UNCHANGED <<active, next, announced, publishVars, streamVars, channelVars,
                   historyVars>>

PublishBatch(src) ==
    /\ tail[src] = "stored"
    /\ tail' = [tail EXCEPT ![src] = "reading"]
    /\ next' = [next EXCEPT ![src] = @ + 1]
    /\ Snapshot(<<src, "tail">>, RowsEvent(<<src, next[src]>>))
    /\ UNCHANGED <<active, stored, announced, streamVars, channelVars, historyVars>>

(* Faulty variant of RemoveSource: a failed store leaves the source listed. *)
RemoveUnlessFailed(src, failedStore) ==
    /\ Reading(src)
    /\ failedStore => next[src] <= MaxBatches
    /\ active' = IF failedStore THEN active ELSE active \ {src}
    /\ tail' = [tail EXCEPT ![src] = IF failedStore THEN "failed" ELSE "removed"]
    /\ next' = [next EXCEPT ![src] = IF failedStore THEN @ + 1 ELSE @]
    /\ UNCHANGED <<stored, announced, publishVars, streamVars, channelVars,
                   historyVars>>

(* A store error, a read error, the end of the input or a stop: the first  *)
(* thing finish does is to remove the source.  The batch of a failed store *)
(* is never published.                                                     *)
RemoveSource(src, failedStore) ==
    /\ Reading(src)
    /\ failedStore => next[src] <= MaxBatches
    /\ active' = active \ {src}
    /\ tail' = [tail EXCEPT ![src] = IF failedStore THEN "failed" ELSE "removed"]
    /\ next' = [next EXCEPT ![src] = IF failedStore THEN @ + 1 ELSE @]
    /\ UNCHANGED <<stored, announced, publishVars, streamVars, channelVars,
                   historyVars>>

PublishTerminal(src) ==
    /\ tail[src] \in {"failed", "removed"}
    /\ tail' = [tail EXCEPT ![src] = "finished"]
    /\ \E status \in IF tail[src] = "failed" THEN {"error"} ELSE TerminalStatus :
          Snapshot(<<src, "tail">>, StatusEvent(src, status))
    /\ UNCHANGED <<active, next, stored, announced, streamVars, channelVars,
                   historyVars>>

-----------------------------------------------------------------------------
(* Subscribers: HandleLiveEvents, HandleLivePause, HandleLiveResume.       *)

Subscribe(s, f) ==
    /\ stream[s] = "new"
    /\ stream' = [stream EXCEPT ![s] = "subscribed"]
    /\ filter' = [filter EXCEPT ![s] = f]
    /\ registered' = registered \union {s}
    /\ UNCHANGED <<hello, sourceVars, publishVars, channelVars, historyVars>>

(* hello is written straight to the client, not through the channel.       *)
SendHello(s) ==
    /\ stream[s] = "subscribed"
    /\ stream' = [stream EXCEPT ![s] = "streaming"]
    /\ hello' = [hello EXCEPT ![s] = active]
    /\ UNCHANGED <<registered, filter, sourceVars, publishVars, channelVars,
                   historyVars>>

Deliver(s) ==
    /\ stream[s] = "streaming"
    /\ cursor[s] < Len(log[s])
    /\ cursor' = [cursor EXCEPT ![s] = @ + 1]
    /\ UNCHANGED <<sourceVars, publishVars, streamVars, log, paused, skipped,
                   reports, historyVars>>

(* The client leaves, a write fails or the manager is shut down: the       *)
(* deferred Unsubscribe.  A publisher may still hold the subscriber.       *)
Unsubscribe(s) ==
    /\ stream[s] \in {"subscribed", "streaming"}
    /\ stream' = [stream EXCEPT ![s] = "closed"]
    /\ registered' = registered \ {s}
    /\ UNCHANGED <<filter, hello, sourceVars, publishVars, channelVars, historyVars>>

PauseSubscriber(s) ==
    /\ s \in registered
    /\ paused' = [paused EXCEPT ![s] = TRUE]
    /\ UNCHANGED <<sourceVars, publishVars, streamVars, log, cursor, skipped,
                   reports, historyVars>>

(* Faulty variant of ResumeSubscriber: the counters are not reset.         *)
ResumeKeepingCounters(s) ==
    /\ s \in registered
    /\ paused' = [paused EXCEPT ![s] = FALSE]
    /\ reports' = [reports EXCEPT ![s] =
         @ \union {SkippedEvent(b[1], {c \in skipped[s] : c[1] = b[1]}) : b \in skipped[s]}]
    /\ UNCHANGED <<sourceVars, publishVars, streamVars, log, cursor, skipped, historyVars>>

(* The counters are taken and reset under sub.mu ...                       *)
ResumeSubscriber(s) ==
    /\ s \in registered
    /\ paused' = [paused EXCEPT ![s] = FALSE]
    /\ skipped' = [skipped EXCEPT ![s] = {}]
    /\ reports' = [reports EXCEPT ![s] =
         @ \union {SkippedEvent(b[1], {c \in skipped[s] : c[1] = b[1]}) : b \in skipped[s]}]
    /\ UNCHANGED <<sourceVars, publishVars, streamVars, log, cursor, historyVars>>

(* ... and reported after it is released, with the non-blocking enqueue    *)
(* whose rowCount is 0: a report that is not accepted is counted nowhere.  *)
ReportSkipped(s, r) ==
    /\ r \in reports[s]
    /\ reports' = [reports EXCEPT ![s] = @ \ {r}]
    /\ IF Accepts(s)
       THEN /\ log' = [log EXCEPT ![s] = Append(@, r)]
            /\ UNCHANGED unreported
       ELSE /\ unreported' = [unreported EXCEPT ![s] = @ \union r.batches]
            /\ UNCHANGED log
    /\ UNCHANGED <<sourceVars, publishVars, streamVars, cursor, paused, skipped,
                   offered, statusLost>>

-----------------------------------------------------------------------------
SourceNext(src) ==
    \/ AddSource(src)
    \/ AnnounceSource(src)
    \/ StoreBatch(src)
    \/ PublishBatch(src)
    \/ \E failedStore \in BOOLEAN : RemoveSource(src, failedStore)
    \/ PublishTerminal(src)

SubscriberNext(s) ==
    \/ \E f \in Filters : Subscribe(s, f)
    \/ SendHello(s)
    \/ Deliver(s)
    \/ Unsubscribe(s)
    \/ PauseSubscriber(s)
    \/ ResumeSubscriber(s)
    \/ \E r \in reports[s] : ReportSkipped(s, r)

Next ==
    \/ \E src \in Source : SourceNext(src)
    \/ \E p \in Publisher, s \in Subscriber : Enqueue(p, s)
    \/ \E s \in Subscriber : SubscriberNext(s)

Spec == Init /\ [][Next]_vars

(* Goroutines are scheduled: a publication that has begun goes on as long  *)
(* as its next step is possible.  Nothing is assumed of the browsers, so   *)
(* Deliver is not fair here.                                               *)
PublisherFairness ==
    /\ \A p \in Publisher : WF_vars(\E s \in Subscriber : Enqueue(p, s))
    /\ \A src \in Source : WF_vars(PublishBatch(src)) /\ WF_vars(PublishTerminal(src))

FairSpec == Spec /\ PublisherFairness

-----------------------------------------------------------------------------
(* Correctness.                                                            *)

(* The variables keep their types and a channel never holds more than its  *)
(* capacity (make(chan liveEvent, liveSubscriberBuffer)).                  *)
TypeOK ==
    /\ active \subseteq Source
    /\ tail \in [Source -> {"absent", "reading", "stored", "failed", "removed", "finished"}]
    /\ next \in [Source -> 1 .. MaxBatches + 1]
    /\ stored \subseteq Batch
    /\ announced \subseteq Source
    /\ pubEvent \in [Publisher -> Event]
    /\ pubTodo \in [Publisher -> SUBSET Subscriber]
    /\ registered \subseteq Subscriber
    /\ stream \in [Subscriber -> {"new", "subscribed", "streaming", "closed"}]
    /\ filter \in [Subscriber -> Source \union {AnySource}]
    /\ hello \in [Subscriber -> SUBSET Source]
    /\ log \in [Subscriber -> Seq(Event)]
    /\ cursor \in [Subscriber -> Nat]
    /\ \A s \in Subscriber : cursor[s] <= Len(log[s]) /\ Len(log[s]) - cursor[s] <= BufferCapacity
    /\ paused \in [Subscriber -> BOOLEAN]
    /\ skipped \in [Subscriber -> SUBSET Batch]
    /\ reports \in [Subscriber -> SUBSET Event]
    /\ offered \in [Subscriber -> SUBSET Batch]
    /\ unreported \in [Subscriber -> SUBSET Batch]
    /\ statusLost \in [Subscriber -> SUBSET Source]

Sent(s) == UNION {log[s][i].batches : i \in DOMAIN log[s]}
Reporting(s) == UNION {r.batches : r \in reports[s]}

(* Every batch offered to a subscriber is in exactly one place: its log    *)
(* (as rows or inside one skipped event), its skipped counters, a report a *)
(* resume has taken and not sent yet, or a report that was dropped.        *)
(* Counting a row twice, or losing it between the unlock of                *)
(* ResumeSubscriber and its enqueue, would break it.                       *)
Accounted(s) ==
    /\ offered[s] = Sent(s) \union skipped[s] \union Reporting(s) \union unreported[s]
    /\ Sent(s) \cap skipped[s] = {}
    /\ (Sent(s) \union skipped[s]) \cap Reporting(s) = {}
    /\ (Sent(s) \union skipped[s] \union Reporting(s)) \cap unreported[s] = {}
    /\ \A i, j \in DOMAIN log[s] : i # j => log[s][i].batches \cap log[s][j].batches = {}
    /\ \A r, q \in reports[s] : r # q => r.batches \cap q.batches = {}

RowAccounting == \A s \in Subscriber : Accounted(s)

(* A client sees the batches of a source in the order the source read      *)
(* them, whatever is paused, dropped or resumed in between.                *)
RowsInSourceOrder ==
    \A s \in Subscriber : \A i, j \in DOMAIN log[s] :
        /\ i < j
        /\ log[s][i].name = "rows" /\ log[s][j].name = "rows"
        /\ log[s][i].source = log[s][j].source
        => \A b \in log[s][i].batches, c \in log[s][j].batches : b[2] < c[2]

(* Rows reach a browser only after they were stored, so what is shown live *)
(* or counted as skipped can be found by a search.                         *)
ShownIsStored == \A s \in Subscriber : offered[s] \subseteq stored

(* The hub keeps its books: no channel exceeds its capacity, each batch    *)
(* is counted in one place, and what is sent or counted was stored.        *)
Consistent == TypeOK /\ RowAccounting /\ ShownIsStored

(* The end of a source is the last thing its goroutine says: no rows of a  *)
(* source follow its terminal status, which would make the client show a   *)
(* finished source as receiving again.                                     *)
NoRowsAfterTerminal ==
    \A s \in Subscriber : \A i, j \in DOMAIN log[s] :
        /\ i < j
        /\ log[s][i].status \in TerminalStatus
        /\ log[s][i].source = log[s][j].source
        => log[s][j].name # "rows"

(* A client whose hello listed a source learns of the end of that source:  *)
(* it subscribes before the list is taken, and a source leaves the list    *)
(* before its end is published.  The event is missed only by a filter, by  *)
(* a full or paused channel, or once the client has left.                  *)
NoGhostSource ==
    \A s \in Subscriber : \A src \in hello[s] :
        /\ tail[src] = "finished"
        /\ s \notin pubTodo[<<src, "tail">>]
        /\ filter[s] \in {AnySource, src}
        /\ stream[s] = "streaming"
        => \/ src \in statusLost[s]
           \/ \E i \in DOMAIN log[s] :
                 log[s][i].source = src /\ log[s][i].status \in TerminalStatus

(* A browser shows a source as live no longer than it is: it hears of the  *)
(* end of every source it was told of, and of nothing after that end.      *)
EndIsSeen == NoRowsAfterTerminal /\ NoGhostSource

(* The fate of a batch at a subscriber, as LiveFeed sees it.               *)
Fate(s, b) ==
    LET Within(name, lo, hi) ==
            \E i \in DOMAIN log[s] :
                lo <= i /\ i <= hi /\ log[s][i].name = name /\ b \in log[s][i].batches
    IN  CASE Within("rows", 1, cursor[s]) -> "shown"
          [] Within("rows", cursor[s] + 1, Len(log[s])) -> "queued"
          [] Within("skipped", 1, Len(log[s])) -> "told"
          [] b \in skipped[s] -> "counted"
          [] b \in Reporting(s) -> "reporting"
          [] b \in unreported[s] -> "unreported"
          [] OTHER -> "unseen"

Feed == INSTANCE LiveFeed
            WITH fate <- [s \in Subscriber |-> [b \in Batch |-> Fate(s, b)]]

(* The hub implements the subscription LiveFeed describes.                 *)
ImplementsLiveFeed == Feed!Spec

(* The hub never blocks ingestion: with nothing assumed of the readers,    *)
(* every publication of a tailing goroutine comes to its end.              *)
PublishNeverBlocks ==
    \A p \in Publisher : pubTodo[p] # {} ~> pubTodo[p] = {}

=============================================================================
