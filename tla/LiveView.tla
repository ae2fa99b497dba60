------------------------------ MODULE LiveView ------------------------------
(***************************************************************************)
(* The browser's end of a live subscription: useLogStream.ts, which takes  *)
(* the events of an EventSource, useLiveLogStore.ts, the ring buffer it    *)
(* fills, and the pause button of LogViewerHeader.tsx.  Of the hub it has  *)
(* what a browser can tell: the subscription of the open connection, which *)
(* LiveHub models in full.                                                 *)
(*                                                                         *)
(* A row is the number under which the browser received it.  A source that *)
(* failed is "stopped" too, and a resume reports one count in all.         *)
(* The statuses of more than LIVE_SOURCE_STATUS_LIMIT sources are not      *)
(* trimmed here.                                                           *)
(***************************************************************************)
EXTENDS Naturals, SequencesExt

CONSTANTS
    Source,         \* ids of the tail sources
    RowLimit,       \* LIVE_ROW_LIMIT
    WireCapacity,   \* bound: events on their way to the browser
    MaxRows,        \* bound: rows received, counted or on their way
    MaxConnections  \* bound: connections the browser opens

ASSUME RowLimitAssumption == RowLimit \in Nat \ {0}
ASSUME WireCapacityAssumption == WireCapacity \in Nat \ {0}
ASSUME MaxRowsAssumption == MaxRows \in Nat
ASSUME MaxConnectionsAssumption == MaxConnections \in Nat

Event == [name : {"hello", "rows", "skipped", "source_status"}, sources : SUBSET Source,
          count : Nat, status : {"", "started", "stopped"}]

RowsEvent(src, n) == [name |-> "rows", sources |-> {src}, count |-> n, status |-> ""]
SkippedEvent(n) == [name |-> "skipped", sources |-> {}, count |-> n, status |-> ""]
StatusEvent(src, st) ==
    [name |-> "source_status", sources |-> {src}, count |-> 0, status |-> st]

VARIABLES
    \* The hub, and the connection.
    active,       \* sources it has
    unannounced,  \* sources whose "started" it has still to publish
    over,         \* sources that have ended
    opened,       \* connections opened so far
    conn,         \* the open connection, whose subscriber has the same number, or 0
    hubPaused,    \* liveSubscriber.paused
    hubSkipped,   \* liveSubscriber.skipped
    wire,         \* events on their way
    \* useLogStream.
    mounted,      \* the log viewer is on the page
    pendingRows,  \* pendingRows
    timer,        \* timer: "null", "armed", or "fired" and not null
    raf,          \* a frame is requested
    \* useLiveLogStore.
    connected,    \* connected
    subscriber,   \* subscriberId
    paused,       \* paused
    rows,         \* rows, newest first
    skippedCount, \* skippedCount
    statuses,     \* sourceStatuses: "none" when it has no such key
    \* The pause button.
    requests,     \* pause and resume requests in flight
    received,     \* history: rows received so far
    told,         \* history: rows the hub has reported as skipped
    unsure        \* history: the hub's flag may differ from paused

sourceVars == <<active, unannounced, over>>
connectionVars == <<opened, conn, hubPaused, hubSkipped, wire>>
streamVars == <<mounted, pendingRows, timer, raf>>
storeVars == <<connected, subscriber, paused, rows, skippedCount, statuses>>
historyVars == <<received, told, unsure>>
vars == <<sourceVars, connectionVars, streamVars, storeVars, requests, historyVars>>

Init ==
    /\ active = {}
    /\ unannounced = {}
    /\ over = {}
    /\ opened = 0
    /\ conn = 0
    /\ hubPaused = FALSE
    /\ hubSkipped = 0
    /\ wire = << >>
    /\ mounted = TRUE
    /\ pendingRows = << >>
    /\ timer = "null"
    /\ raf = FALSE
    /\ connected = FALSE
    /\ subscriber = 0
    /\ paused = FALSE
    /\ rows = << >>
    /\ skippedCount = 0
    /\ statuses = [src \in Source |-> "none"]
    /\ requests = {}
    /\ received = 0
    /\ told = 0
    /\ unsure = FALSE

-----------------------------------------------------------------------------
(* The hub.  An event for a paused subscriber, or for one whose channel is *)
(* full, is dropped; of rows the number is kept.                           *)

Takes == conn # 0 /\ ~hubPaused /\ Len(wire) < WireCapacity
RowsOnTheWay == FoldLeft(LAMBDA n, event : n + event.count, 0, wire)
Send(event) == wire' = IF Takes THEN Append(wire, event) ELSE wire

AddSource(src) ==
    /\ src \notin active \union over
    /\ active' = active \union {src}
    /\ unannounced' = unannounced \union {src}
    /\ UNCHANGED <<over, connectionVars, streamVars, storeVars, requests, historyVars>>

AnnounceSource(src) ==
    /\ src \in unannounced
    /\ unannounced' = unannounced \ {src}
    /\ Send(StatusEvent(src, "started"))
    /\ UNCHANGED <<active, over, opened, conn, hubPaused, hubSkipped, streamVars,
                   storeVars, requests, historyVars>>

PublishRows(src, n) ==
    /\ src \in active
    /\ conn # 0
    /\ received + told + hubSkipped + RowsOnTheWay + n <= MaxRows
    /\ Send(RowsEvent(src, n))
    /\ hubSkipped' = IF Takes THEN hubSkipped ELSE hubSkipped + n
    /\ UNCHANGED <<sourceVars, opened, conn, hubPaused, streamVars, storeVars, requests,
                   historyVars>>

EndSource(src) ==
    /\ src \in active
    /\ active' = active \ {src}
    /\ over' = over \union {src}
    /\ Send(StatusEvent(src, "stopped"))
    /\ UNCHANGED <<unannounced, opened, conn, hubPaused, hubSkipped, streamVars,
                   storeVars, requests, historyVars>>

-----------------------------------------------------------------------------
(* useLiveLogStore.                                                        *)

(* Faulty variant of AppendRows: the rows that fall out are not counted.   *)
AppendUncounted(new) ==
    LET all == Reverse(new) \o rows
    IN  /\ rows' = SubSeq(all, 1, IF Len(all) < RowLimit THEN Len(all) ELSE RowLimit)
        /\ UNCHANGED skippedCount

AppendRows(new) ==
    LET newestFirst == Reverse(new)
        all == newestFirst \o rows
    IN  /\ rows' = SubSeq(all, 1, IF Len(all) < RowLimit THEN Len(all) ELSE RowLimit)
        /\ skippedCount' = IF Len(all) > RowLimit
                           THEN skippedCount + (Len(all) - RowLimit) ELSE skippedCount

SetSourceStatus(sources, st) ==
    statuses' = [src \in Source |-> IF src \in sources THEN st ELSE statuses[src]]

LiveActiveSourceCount == Cardinality({src \in Source : statuses[src] = "started"})

-----------------------------------------------------------------------------
(* The events of the stream.                                               *)

HandleHello(event) ==
    /\ subscriber' = conn
    /\ connected' = TRUE
    /\ SetSourceStatus(event.sources, "started")
    /\ UNCHANGED <<pendingRows, timer, skippedCount, received, told>>

(* Faulty variant of AppendPendingRows: the oldest rows are kept.          *)
AppendPendingOldest(new) ==
    LET all == pendingRows \o new
        overflow == IF Len(all) > RowLimit THEN Len(all) - RowLimit ELSE 0
    IN  /\ pendingRows' = SubSeq(all, 1, Len(all) - overflow)
        /\ skippedCount' = skippedCount + overflow

(* appendPendingRows: rows wait for the next frame, the latest RowLimit of *)
(* them; those that fall out are counted.                                  *)
AppendPendingRows(new) ==
    LET all == pendingRows \o new
        overflow == IF Len(all) > RowLimit THEN Len(all) - RowLimit ELSE 0
    IN  /\ pendingRows' = SubSeq(all, overflow + 1, Len(all))
        /\ skippedCount' = skippedCount + overflow

HandleRows(event) ==
    /\ SetSourceStatus(event.sources, "started")
    /\ AppendPendingRows([i \in 1 .. event.count |-> received + i])
    /\ received' = received + event.count
    /\ timer' = IF timer = "null" THEN "armed" ELSE timer
    /\ UNCHANGED <<connected, subscriber, told>>

HandleSkipped(event) ==
    /\ skippedCount' = skippedCount + event.count
    /\ told' = told + event.count
    /\ UNCHANGED <<pendingRows, timer, connected, subscriber, statuses, received>>

HandleSourceStatus(event) ==
    /\ SetSourceStatus(event.sources, event.status)
    /\ UNCHANGED <<pendingRows, timer, connected, subscriber, skippedCount, received, told>>

Receive ==
    /\ wire # << >>
    /\ LET event == Head(wire)
       IN  \/ event.name = "hello" /\ HandleHello(event)
           \/ event.name = "rows" /\ HandleRows(event)
           \/ event.name = "skipped" /\ HandleSkipped(event)
           \/ event.name = "source_status" /\ HandleSourceStatus(event)
    /\ wire' = Tail(wire)
    /\ UNCHANGED <<sourceVars, opened, conn, hubPaused, hubSkipped, mounted, raf, paused, rows,
                   requests, unsure>>

(* Faulty variant of Flush: timer stays what it was.                       *)
FlushKeepingTimer ==
    /\ timer = "armed"
    /\ timer' = "fired"
    /\ raf' = TRUE
    /\ UNCHANGED <<sourceVars, connectionVars, mounted, pendingRows, storeVars, requests,
                   historyVars>>

(* flush: the timer asks for a frame, in place of one it asked for before. *)
Flush ==
    /\ timer = "armed"
    /\ timer' = "null"
    /\ raf' = TRUE
    /\ UNCHANGED <<sourceVars, connectionVars, mounted, pendingRows, storeVars, requests,
                   historyVars>>

Frame ==
    /\ raf
    /\ raf' = FALSE
    /\ pendingRows' = << >>
    /\ AppendRows(pendingRows)
    /\ UNCHANGED <<sourceVars, connectionVars, mounted, timer, connected, subscriber, paused,
                   statuses, requests, historyVars>>

-----------------------------------------------------------------------------
(* Connections.                                                            *)

(* HandleLiveEvents subscribes and says hello; onopen.  The EventSource of *)
(* a mounted viewer does this again after a disconnect.                    *)
Connect ==
    /\ mounted
    /\ conn = 0
    /\ opened < MaxConnections
    /\ opened' = opened + 1
    /\ conn' = opened + 1
    /\ hubPaused' = FALSE
    /\ hubSkipped' = 0
    /\ wire' = <<[name |-> "hello", sources |-> active, count |-> 0, status |-> ""]>>
    /\ connected' = TRUE
    /\ unsure' = (unsure \/ paused \/ requests # {})
    /\ UNCHANGED <<sourceVars, streamVars, subscriber, paused, rows, skippedCount, statuses,
                   requests, received, told>>

(* onerror; the hub unsubscribes.                                          *)
Disconnect ==
    /\ conn # 0
    /\ conn' = 0
    /\ wire' = << >>
    /\ connected' = FALSE
    /\ UNCHANGED <<sourceVars, opened, hubPaused, hubSkipped, streamVars, subscriber, paused,
                   rows, skippedCount, statuses, requests, historyVars>>

Mount ==
    /\ ~mounted
    /\ mounted' = TRUE
    /\ UNCHANGED <<sourceVars, connectionVars, pendingRows, timer, raf, storeVars, requests,
                   historyVars>>

(* The cleanup of the effect.                                              *)
Unmount ==
    /\ mounted
    /\ mounted' = FALSE
    /\ conn' = 0
    /\ wire' = << >>
    /\ timer' = "null"
    /\ raf' = FALSE
    /\ AppendRows(pendingRows)
    /\ pendingRows' = << >>
    /\ connected' = FALSE
    /\ subscriber' = 0
    /\ SetSourceStatus({src \in Source : statuses[src] = "started"}, "stopped")
    /\ UNCHANGED <<sourceVars, opened, hubPaused, hubSkipped, paused, requests, historyVars>>

-----------------------------------------------------------------------------
(* The pause button.                                                       *)

(* Its requests may overlap: nothing disables it while one is in flight.   *)
TogglePause ==
    /\ mounted
    /\ subscriber # 0
    /\ LiveActiveSourceCount > 0
    /\ Cardinality(requests) < 2
    /\ requests' = {[r EXCEPT !.alone = FALSE] : r \in requests}
                   \union {[op |-> IF paused THEN "resume" ELSE "pause", of |-> subscriber,
                            at |-> "sent", alone |-> requests = {}]}
    /\ unsure' = (unsure \/ requests # {})
    /\ UNCHANGED <<sourceVars, connectionVars, streamVars, storeVars, received, told>>

(* PauseSubscriber.                                                        *)
HubPauses(r) ==
    /\ r.op = "pause"
    /\ hubPaused' = TRUE
    /\ UNCHANGED <<hubSkipped, wire>>

(* ResumeSubscriber: the count goes to the channel, if that takes it.      *)
HubResumes(r) ==
    /\ r.op = "resume"
    /\ hubPaused' = FALSE
    /\ hubSkipped' = 0
    /\ \/ hubSkipped > 0 /\ Len(wire) < WireCapacity /\ wire' = Append(wire, SkippedEvent(hubSkipped))
       \/ (hubSkipped = 0 \/ Len(wire) >= WireCapacity) /\ UNCHANGED wire

(* The hub knows the subscriber of the open connection only.               *)
HandleControl(r) ==
    /\ r.at = "sent"
    /\ r.of = conn
    /\ HubPauses(r) \/ HubResumes(r)
    /\ requests' = (requests \ {r}) \union {[r EXCEPT !.at = "done"]}
    /\ UNCHANGED <<sourceVars, opened, conn, streamVars, storeVars, historyVars>>

(* The flag follows the answer.                                            *)
ControlAnswered(r) ==
    /\ r.at = "done"
    /\ requests' = requests \ {r}
    /\ paused' = (r.op = "pause")
    /\ unsure' = (unsure /\ ~(r.alone /\ r.of = conn))
    /\ UNCHANGED <<sourceVars, connectionVars, streamVars, connected, subscriber, rows,
                   skippedCount, statuses, received, told>>

(* Faulty variant of ControlFails: the flag is set all the same.           *)
ControlAssumed(r) ==
    /\ requests' = requests \ {r}
    /\ paused' = (r.op = "pause")
    /\ unsure' = (unsure \/ r.at = "done")
    /\ UNCHANGED <<sourceVars, connectionVars, streamVars, connected, subscriber, rows,
                   skippedCount, statuses, received, told>>

(* The hub does not know the subscriber, or the request or its answer is   *)
(* lost: the flag stays.                                                   *)
ControlFails(r) ==
    /\ requests' = requests \ {r}
    /\ unsure' = (unsure \/ r.at = "done")
    /\ UNCHANGED <<sourceVars, connectionVars, streamVars, storeVars, received, told>>

-----------------------------------------------------------------------------
Hub ==
    \E src \in Source :
        \/ AddSource(src) \/ AnnounceSource(src) \/ EndSource(src)
        \/ \E n \in 1 .. MaxRows : PublishRows(src, n)

PauseButton ==
    \/ TogglePause
    \/ \E r \in requests : HandleControl(r) \/ ControlFails(r) \/ ControlAnswered(r)

Next ==
    \/ Hub
    \/ Connect \/ Disconnect \/ Mount \/ Unmount
    \/ Receive \/ Flush \/ Frame
    \/ PauseButton

Spec == Init /\ [][Next]_vars

(* Timers fire and frames are drawn: the page is not in a hidden tab.      *)
Fairness == WF_vars(Flush) /\ WF_vars(Frame)

FairSpec == Spec /\ Fairness

-----------------------------------------------------------------------------
(* Correctness.                                                            *)

(* The variables keep their types and the view its limits.                 *)
TypeOK ==
    /\ active \subseteq Source /\ over \subseteq Source /\ unannounced \subseteq Source
    /\ opened \in 0 .. MaxConnections /\ conn \in 0 .. opened /\ subscriber \in 0 .. opened
    /\ hubPaused \in BOOLEAN /\ hubSkipped \in Nat
    /\ wire \in Seq(Event) /\ Len(wire) <= WireCapacity
    /\ mounted \in BOOLEAN /\ raf \in BOOLEAN /\ connected \in BOOLEAN /\ paused \in BOOLEAN
    /\ timer \in {"null", "armed", "fired"}
    /\ received \in Nat /\ told \in Nat /\ skippedCount \in Nat
    /\ pendingRows \in Seq(1 .. received) /\ Len(pendingRows) <= RowLimit
    /\ rows \in Seq(1 .. received) /\ Len(rows) <= RowLimit
    /\ statuses \in [Source -> {"none", "started", "stopped"}]
    /\ requests \subseteq [op : {"pause", "resume"}, of : 1 .. MaxConnections,
                           at : {"sent", "done"}, alone : BOOLEAN]
    /\ unsure \in BOOLEAN

(* Every row received is in the table, waits for the next frame or is in   *)
(* the skipped count, together with what the hub reported: whether it fell *)
(* out of the ring buffer, out of the rows that wait, or was flushed when  *)
(* the user left the page.                                                 *)
RowsShownOrCounted ==
    Len(rows) + Len(pendingRows) + skippedCount = received + told

(* The view keeps its types and limits, and its count of the rows.         *)
Consistent == TypeOK /\ RowsShownOrCounted

(* The table and the rows that wait for it are the latest rows received,   *)
(* with no gap between them; when so many wait that some were dropped,     *)
(* they fill the table and nothing older stays beside them.                *)
GaplessView ==
    LET Consecutive(seq) == \A i \in DOMAIN seq : seq[i] = received - Len(seq) + i
    IN  \/ Consecutive(Reverse(rows) \o pendingRows)
        \/ Len(pendingRows) = RowLimit /\ Consecutive(pendingRows)

(* The viewer says it is paused exactly when the hub has paused it, unless *)
(* an answer was lost, requests overlapped, or it reconnected when paused; *)
(* and then one undisturbed click makes them agree again.                  *)
PauseFlagIsTheHubs ==
    ~unsure /\ requests = {} /\ conn # 0 => paused = hubPaused

(* Rows that wait are drawn at some time, however many more arrive.        *)
EveryRowIsDrawn == pendingRows # << >> ~> pendingRows = << >>

=============================================================================
