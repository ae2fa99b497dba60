--------------------------- MODULE LiveHubProofs ---------------------------
(***************************************************************************)
(* Theorems about LiveHub, for every set of sources and subscribers, every *)
(* channel capacity and every number of batches: that no row is lost       *)
(* unsaid; that the end of a source is the last a browser hears of it, and *)
(* that a browser told of a source hears of its end; and that LiveHub      *)
(* implements LiveFeed, each place of a batch being a fate and each step   *)
(* a move of LiveFeed or none.                                             *)
(***************************************************************************)
EXTENDS LiveHub, Integers, TLAPS

(* Facts about constants and events.                                       *)

(* The events the hub builds are events.                                   *)
LEMMA EventsAreTyped ==
    /\ \A b \in Batch : RowsEvent(b) \in Event
    /\ \A src \in Source, bs \in SUBSET Batch : SkippedEvent(src, bs) \in Event
    /\ \A src \in Source, st \in {"", "started"} \union TerminalStatus :
          StatusEvent(src, st) \in Event
<1>1. \A b \in Batch : b[1] \in Source /\ {b} \in SUBSET Batch
  BY DEF Batch
<1> QED
  BY <1>1 DEF RowsEvent, SkippedEvent, StatusEvent, Event

LEMMA IsStatus ==
    ASSUME NEW e, NEW src, NEW st, e = StatusEvent(src, st)
    PROVE  e.name = "source_status" /\ e.source = src /\ e.batches = {} /\ e.status = st
BY DEF StatusEvent

LEMMA IsRows ==
    ASSUME NEW e, NEW b, e = RowsEvent(b)
    PROVE  e.name = "rows" /\ e.source = b[1] /\ e.batches = {b} /\ e.status = ""
BY DEF RowsEvent

LEMMA IsSkipped ==
    ASSUME NEW e, NEW src, NEW bs, e = SkippedEvent(src, bs)
    PROVE  e.name = "skipped" /\ e.source = src /\ e.batches = bs /\ e.status = ""
BY DEF SkippedEvent

(* A stored batch has a number the source may still use.                   *)
StoredHasNumber ==
    \A src \in Source : tail[src] = "stored" => next[src] <= MaxBatches

TypeInv == TypeOK /\ StoredHasNumber

-----------------------------------------------------------------------------
(* Type correctness.                                                       *)

LEMMA InitTyped == Init => TypeInv
<1> SUFFICES ASSUME Init PROVE TypeInv
  OBVIOUS
<1> USE FiltersAssumption, BufferCapacityAssumption, MaxBatchesAssumption
<1>1. pubEvent \in [Publisher -> Event]
  <2>1. \A p \in Publisher : NoEvent(p[1]) \in Event
    BY EventsAreTyped DEF NoEvent, Publisher
  <2> QED
    BY <2>1 DEF Init
<1>2. next \in [Source -> 1 .. MaxBatches + 1]
  BY DEF Init
<1>3. /\ log \in [Subscriber -> Seq(Event)]
      /\ cursor \in [Subscriber -> Nat]
      /\ \A s \in Subscriber : cursor[s] <= Len(log[s]) /\ Len(log[s]) - cursor[s] <= BufferCapacity
  BY DEF Init
<1> QED
  BY <1>1, <1>2, <1>3 DEF Init, TypeInv, TypeOK, StoredHasNumber

(* A snapshot of the subscribers keeps the types of the publishers.        *)
LEMMA SnapshotTyped ==
    ASSUME TypeOK, NEW p \in Publisher, NEW e \in Event, Snapshot(p, e)
    PROVE  pubEvent' \in [Publisher -> Event] /\ pubTodo' \in [Publisher -> SUBSET Subscriber]
BY DEF TypeOK, Snapshot

LEMMA TailIsPublisher == \A src \in Source, t \in Thread : <<src, t>> \in Publisher
BY DEF Publisher

(* An event accepted by a channel with room leaves it within its capacity. *)
LEMMA AppendTyped ==
    ASSUME TypeOK, NEW s \in Subscriber, NEW e \in Event, HasRoom(s),
           log' = [log EXCEPT ![s] = Append(@, e)], UNCHANGED cursor
    PROVE  /\ log' \in [Subscriber -> Seq(Event)]
           /\ cursor' \in [Subscriber -> Nat]
           /\ \A q \in Subscriber : cursor'[q] <= Len(log'[q]) /\ Len(log'[q]) - cursor'[q] <= BufferCapacity
<1> USE BufferCapacityAssumption
<1>1. Append(log[s], e) \in Seq(Event) /\ Len(Append(log[s], e)) = Len(log[s]) + 1
  BY DEF TypeOK
<1>2. log' \in [Subscriber -> Seq(Event)]
  BY <1>1 DEF TypeOK
<1>3. \A q \in Subscriber : q # s => log'[q] = log[q]
  BY DEF TypeOK
<1>4. log'[s] = Append(log[s], e)
  BY DEF TypeOK
<1>5. \A q \in Subscriber : Len(log[q]) \in Nat /\ cursor[q] \in Nat
  BY DEF TypeOK
<1>6. Len(log[s]) - cursor[s] < BufferCapacity
  BY DEF HasRoom
<1>7. \A q \in Subscriber : cursor'[q] <= Len(log'[q]) /\ Len(log'[q]) - cursor'[q] <= BufferCapacity
  <2> TAKE q \in Subscriber
  <2>1. CASE q = s
    BY <2>1, <1>1, <1>4, <1>5, <1>6 DEF TypeOK
  <2>2. CASE q # s
    BY <2>2, <1>3 DEF TypeOK
  <2> QED
    BY <2>1, <2>2
<1> QED
  BY <1>2, <1>7 DEF TypeOK

LEMMA NextTyped == TypeInv /\ [Next]_vars => TypeInv'
<1> SUFFICES ASSUME TypeInv, [Next]_vars PROVE TypeInv'
  OBVIOUS
<1> USE FiltersAssumption, BufferCapacityAssumption, MaxBatchesAssumption
<1> USE DEF TypeInv
<1>1. ASSUME NEW src \in Source, AddSource(src) PROVE TypeInv'
  BY <1>1 DEF AddSource, TypeOK, StoredHasNumber, publishVars, streamVars, channelVars, historyVars
<1>2. ASSUME NEW src \in Source, AnnounceSource(src) PROVE TypeInv'
  <2>1. <<src, "starter">> \in Publisher /\ StatusEvent(src, "started") \in Event
    BY TailIsPublisher, EventsAreTyped DEF Thread
  <2>2. pubEvent' \in [Publisher -> Event] /\ pubTodo' \in [Publisher -> SUBSET Subscriber]
    BY <1>2, <2>1, SnapshotTyped DEF AnnounceSource
  <2> QED
    BY <1>2, <2>2 DEF AnnounceSource, TypeOK, StoredHasNumber, streamVars, channelVars, historyVars
<1>3. ASSUME NEW src \in Source, StoreBatch(src) PROVE TypeInv'
  <2>1. <<src, next[src]>> \in Batch
    BY <1>3 DEF StoreBatch, TypeOK, Batch
  <2> QED
    BY <1>3, <2>1 DEF StoreBatch, TypeOK, StoredHasNumber, publishVars, streamVars, channelVars,
          historyVars
<1>4. ASSUME NEW src \in Source, PublishBatch(src) PROVE TypeInv'
  <2>1. next[src] \in 1 .. MaxBatches /\ <<src, next[src]>> \in Batch
    BY <1>4 DEF PublishBatch, TypeOK, StoredHasNumber, Batch
  <2>2. <<src, "tail">> \in Publisher /\ RowsEvent(<<src, next[src]>>) \in Event
    BY <2>1, TailIsPublisher, EventsAreTyped DEF Thread
  <2>3. pubEvent' \in [Publisher -> Event] /\ pubTodo' \in [Publisher -> SUBSET Subscriber]
    BY <1>4, <2>2, SnapshotTyped DEF PublishBatch
  <2>4. next' \in [Source -> 1 .. MaxBatches + 1]
    BY <1>4, <2>1 DEF PublishBatch, TypeOK
  <2>5. StoredHasNumber'
    BY <1>4 DEF PublishBatch, TypeOK, StoredHasNumber
  <2> QED
    BY <1>4, <2>3, <2>4, <2>5 DEF PublishBatch, TypeOK, streamVars, channelVars, historyVars
<1>5. ASSUME NEW src \in Source, NEW failedStore \in BOOLEAN, RemoveSource(src, failedStore)
      PROVE TypeInv'
  <2>1. next' \in [Source -> 1 .. MaxBatches + 1]
    BY <1>5 DEF RemoveSource, TypeOK
  <2>2. tail' \in [Source -> {"absent", "reading", "stored", "failed", "removed", "finished"}]
    BY <1>5 DEF RemoveSource, TypeOK
  <2>3. StoredHasNumber'
    BY <1>5 DEF RemoveSource, TypeOK, StoredHasNumber
  <2> QED
    BY <1>5, <2>1, <2>2, <2>3 DEF RemoveSource, TypeOK, publishVars, streamVars, channelVars,
          historyVars
<1>6. ASSUME NEW src \in Source, PublishTerminal(src) PROVE TypeInv'
  <2>1. PICK status \in TerminalStatus : Snapshot(<<src, "tail">>, StatusEvent(src, status))
    BY <1>6 DEF PublishTerminal, TerminalStatus
  <2>2. <<src, "tail">> \in Publisher /\ StatusEvent(src, status) \in Event
    BY TailIsPublisher, EventsAreTyped DEF Thread
  <2>3. pubEvent' \in [Publisher -> Event] /\ pubTodo' \in [Publisher -> SUBSET Subscriber]
    BY <2>1, <2>2, SnapshotTyped
  <2> QED
    BY <1>6, <2>3 DEF PublishTerminal, TypeOK, StoredHasNumber, streamVars, channelVars, historyVars
<1>7. ASSUME NEW p \in Publisher, NEW s \in Subscriber, Enqueue(p, s) PROVE TypeInv'
  <2>1. /\ pubEvent[p] \in Event
        /\ pubEvent[p].batches \in SUBSET Batch
        /\ pubEvent[p].source \in Source
    BY DEF TypeOK, Event
  <2>2. /\ log' \in [Subscriber -> Seq(Event)]
        /\ cursor' \in [Subscriber -> Nat]
        /\ \A q \in Subscriber : cursor'[q] <= Len(log'[q]) /\ Len(log'[q]) - cursor'[q] <= BufferCapacity
    <3>1. CASE Accepts(s)
      BY <1>7, <2>1, <3>1, AppendTyped DEF Enqueue, Accepts
    <3>2. CASE ~Accepts(s)
      BY <1>7, <3>2 DEF Enqueue, TypeOK
    <3> QED
      BY <3>1, <3>2
  <2>3. skipped' \in [Subscriber -> SUBSET Batch]
    <3> DEFINE more == skipped[s] \union pubEvent[p].batches
    <3>1. more \in SUBSET Batch
      BY <2>1 DEF TypeOK
    <3>2. skipped' = skipped \/ skipped' = [skipped EXCEPT ![s] = more]
      BY <1>7 DEF Enqueue
    <3> HIDE DEF more
    <3> QED
      BY <3>1, <3>2 DEF TypeOK
  <2>4. statusLost' \in [Subscriber -> SUBSET Source]
    <3> DEFINE lost == IF pubEvent[p].name = "source_status"
                       THEN statusLost[s] \union {pubEvent[p].source} ELSE statusLost[s]
    <3>1. lost \in SUBSET Source
      BY <2>1 DEF TypeOK
    <3>2. statusLost' = statusLost \/ statusLost' = [statusLost EXCEPT ![s] = lost]
      BY <1>7 DEF Enqueue
    <3> HIDE DEF lost
    <3> QED
      BY <3>1, <3>2 DEF TypeOK
  <2>5. offered' \in [Subscriber -> SUBSET Batch]
    BY <1>7, <2>1 DEF Enqueue, TypeOK
  <2>6. pubTodo' \in [Publisher -> SUBSET Subscriber]
    BY <1>7 DEF Enqueue, TypeOK
  <2> QED
    BY <1>7, <2>2, <2>3, <2>4, <2>5, <2>6 DEF Enqueue, TypeOK, StoredHasNumber, sourceVars,
          streamVars
<1>8. ASSUME NEW s \in Subscriber, NEW f \in Filters, Subscribe(s, f) PROVE TypeInv'
  BY <1>8 DEF Subscribe, TypeOK, StoredHasNumber, sourceVars, publishVars, channelVars, historyVars
<1>9. ASSUME NEW s \in Subscriber, SendHello(s) PROVE TypeInv'
  BY <1>9 DEF SendHello, TypeOK, StoredHasNumber, sourceVars, publishVars, channelVars, historyVars
<1>10. ASSUME NEW s \in Subscriber, Deliver(s) PROVE TypeInv'
  <2>1. \A q \in Subscriber : Len(log[q]) \in Nat /\ cursor[q] \in Nat
    BY DEF TypeOK
  <2>2. cursor' \in [Subscriber -> Nat]
    BY <1>10, <2>1 DEF Deliver, TypeOK
  <2>3. \A q \in Subscriber : cursor'[q] <= Len(log[q]) /\ Len(log[q]) - cursor'[q] <= BufferCapacity
    BY <1>10, <2>1 DEF Deliver, TypeOK
  <2> QED
    BY <1>10, <2>2, <2>3 DEF Deliver, TypeOK, StoredHasNumber, sourceVars, publishVars,
          streamVars, historyVars
<1>11. ASSUME NEW s \in Subscriber, Unsubscribe(s) PROVE TypeInv'
  BY <1>11 DEF Unsubscribe, TypeOK, StoredHasNumber, sourceVars, publishVars, channelVars,
        historyVars
<1>12. ASSUME NEW s \in Subscriber, PauseSubscriber(s) PROVE TypeInv'
  BY <1>12 DEF PauseSubscriber, TypeOK, StoredHasNumber, sourceVars, publishVars, streamVars,
        historyVars
<1>13. ASSUME NEW s \in Subscriber, ResumeSubscriber(s) PROVE TypeInv'
  <2>1. \A b \in skipped[s] : b[1] \in Source
    BY DEF TypeOK, Batch
  <2>2. \A b \in skipped[s] : SkippedEvent(b[1], {c \in skipped[s] : c[1] = b[1]}) \in Event
    BY <2>1, EventsAreTyped DEF TypeOK
  <2>3. reports' \in [Subscriber -> SUBSET Event]
    <3> DEFINE taken == {SkippedEvent(b[1], {c \in skipped[s] : c[1] = b[1]}) : b \in skipped[s]}
    <3>1. taken \in SUBSET Event
      BY <2>2
    <3>2. reports' = [reports EXCEPT ![s] = @ \union taken]
      BY <1>13 DEF ResumeSubscriber
    <3> HIDE DEF taken
    <3> QED
      BY <3>1, <3>2 DEF TypeOK
  <2> QED
    BY <1>13, <2>3 DEF ResumeSubscriber, TypeOK, StoredHasNumber, sourceVars, publishVars,
          streamVars, historyVars
<1>14. ASSUME NEW s \in Subscriber, NEW r \in reports[s], ReportSkipped(s, r) PROVE TypeInv'
  <2>1. r \in Event /\ r.batches \in SUBSET Batch
    <3>1. r \in Event
      BY DEF TypeOK
    <3> QED
      BY <3>1 DEF Event
  <2>2. /\ log' \in [Subscriber -> Seq(Event)]
        /\ cursor' \in [Subscriber -> Nat]
        /\ \A q \in Subscriber : cursor'[q] <= Len(log'[q]) /\ Len(log'[q]) - cursor'[q] <= BufferCapacity
    <3>1. CASE Accepts(s)
      BY <1>14, <2>1, <3>1, AppendTyped DEF ReportSkipped, Accepts
    <3>2. CASE ~Accepts(s)
      BY <1>14, <3>2 DEF ReportSkipped, TypeOK
    <3> QED
      BY <3>1, <3>2
  <2>3. reports' \in [Subscriber -> SUBSET Event]
    BY <1>14 DEF ReportSkipped, TypeOK
  <2>4. unreported' \in [Subscriber -> SUBSET Batch]
    <3> DEFINE more == unreported[s] \union r.batches
    <3>1. more \in SUBSET Batch
      BY <2>1 DEF TypeOK
    <3>2. unreported' = unreported \/ unreported' = [unreported EXCEPT ![s] = more]
      BY <1>14 DEF ReportSkipped
    <3> HIDE DEF more
    <3> QED
      BY <3>1, <3>2 DEF TypeOK
  <2> QED
    BY <1>14, <2>2, <2>3, <2>4 DEF ReportSkipped, TypeOK, StoredHasNumber, sourceVars,
          publishVars, streamVars
<1>15. CASE UNCHANGED vars
  BY <1>15 DEF vars, TypeOK, StoredHasNumber, sourceVars, publishVars, streamVars, channelVars,
        historyVars
<1> QED
  BY <1>1, <1>2, <1>3, <1>4, <1>5, <1>6, <1>7, <1>8, <1>9, <1>10, <1>11, <1>12, <1>13,
     <1>14, <1>15 DEF Next, SourceNext, SubscriberNext

(* Type correctness of every behaviour, and with it the bound of every     *)
(* channel: the hub never holds more than liveSubscriberBuffer events of a *)
(* subscriber, however slow its browser is.                                *)
THEOREM TypeCorrect == Spec => []TypeOK
<1>1. TypeInv => TypeOK
  BY DEF TypeInv
<1> QED
  BY InitTyped, NextTyped, <1>1, PTL DEF Spec

-----------------------------------------------------------------------------
(* What publication keeps true.  It is the heart of the safety argument: a *)
(* batch still on its way to a subscriber is stored, and its number is     *)
(* above that of every batch of its source the subscriber was offered, so  *)
(* no batch is offered twice or late.                                      *)

StoredNext == \A src \in Source : tail[src] = "stored" => <<src, next[src]>> \in stored

OfferedIsPast ==
    \A s \in Subscriber, src \in Source : \A b \in offered[s] : b[1] = src => b[2] < next[src]

OnItsWay ==
    \A src \in Source, s \in Subscriber : s \in pubTodo[<<src, "tail">>] =>
        \A b \in pubEvent[<<src, "tail">>].batches :
            /\ b \in stored
            /\ b[1] = src
            /\ b[2] < next[src]
            /\ \A c \in offered[s] : c[1] = src => c[2] < b[2]

NameTheirSource(src) ==
    /\ pubEvent[<<src, "starter">>].batches = {}
    /\ pubEvent[<<src, "tail">>].source = src
    /\ \A b \in pubEvent[<<src, "tail">>].batches : b[1] = src
    /\ pubEvent[<<src, "tail">>].name \in {"rows", "source_status"}
    /\ pubEvent[<<src, "starter">>].name = "source_status"

EventsNameTheirSource == \A src \in Source : NameTheirSource(src)

PublishInv == StoredNext /\ OfferedIsPast /\ OnItsWay /\ EventsNameTheirSource

LoggedRowsNameTheirSource ==
    \A s \in Subscriber : \A i \in DOMAIN log[s] :
        log[s][i].name = "rows" => \A b \in log[s][i].batches : b[1] = log[s][i].source

ReportsAreSkips == \A s \in Subscriber : \A r \in reports[s] : r.name = "skipped"

(* The inductive invariant of the hub.                                     *)
HubInv ==
    /\ TypeInv
    /\ PublishInv
    /\ ShownIsStored
    /\ RowAccounting
    /\ LoggedRowsNameTheirSource
    /\ ReportsAreSkips
    /\ RowsInSourceOrder

LEMMA InitHub == Init => HubInv
<1> SUFFICES ASSUME Init PROVE HubInv
  OBVIOUS
<1>1. TypeInv
  BY InitTyped
<1>2. \A p \in Publisher : pubEvent[p] = NoEvent(p[1]) /\ pubTodo[p] = {}
  BY DEF Init
<1>3. PublishInv
  <2>1. \A src \in Source : /\ <<src, "tail">> \in Publisher
                            /\ <<src, "starter">> \in Publisher
    BY DEF Publisher, Thread
  <2>2. EventsNameTheirSource
    <3> SUFFICES ASSUME NEW src \in Source PROVE NameTheirSource(src)
      BY DEF EventsNameTheirSource
    <3>1. /\ pubEvent[<<src, "tail">>] = StatusEvent(src, "")
          /\ pubEvent[<<src, "starter">>] = StatusEvent(src, "")
      BY <1>2, <2>1 DEF NoEvent
    <3> DEFINE e == pubEvent[<<src, "tail">>]
    <3> DEFINE f == pubEvent[<<src, "starter">>]
    <3>2. e.name = "source_status" /\ e.source = src /\ e.batches = {}
      BY <3>1, IsStatus
    <3>3. f.name = "source_status" /\ f.batches = {}
      BY <3>1, IsStatus
    <3> QED
      BY <3>2, <3>3, Zenon DEF NameTheirSource
  <2>3. StoredNext /\ OfferedIsPast /\ OnItsWay
    BY <1>2, <2>1 DEF Init, StoredNext, OfferedIsPast, OnItsWay
  <2> QED
    BY <2>2, <2>3 DEF PublishInv
<1>4. \A s \in Subscriber : log[s] = << >> /\ DOMAIN log[s] = {}
  BY DEF Init
<1>5. \A s \in Subscriber : Sent(s) = {} /\ Reporting(s) = {}
  BY <1>4 DEF Init, Sent, Reporting
<1>6. RowAccounting
  BY <1>4, <1>5 DEF Init, RowAccounting, Accounted
<1>7. ShownIsStored /\ LoggedRowsNameTheirSource /\ ReportsAreSkips /\ RowsInSourceOrder
  BY <1>4 DEF Init, ShownIsStored, LoggedRowsNameTheirSource, ReportsAreSkips, RowsInSourceOrder
<1> QED
  BY <1>1, <1>3, <1>6, <1>7 DEF HubInv

-----------------------------------------------------------------------------
(* Frames: which steps can change the channels and the counters at all.    *)

accountVars == <<log, skipped, reports, offered, unreported>>

LEMMA Frame ==
    ASSUME [Next]_vars
    PROVE  \/ UNCHANGED accountVars
           \/ \E p \in Publisher, s \in Subscriber : Enqueue(p, s)
           \/ \E s \in Subscriber : ResumeSubscriber(s)
           \/ \E s \in Subscriber : \E r \in reports[s] : ReportSkipped(s, r)
<1> USE DEF accountVars, channelVars, historyVars
<1>1. ASSUME NEW src \in Source, SourceNext(src) PROVE UNCHANGED accountVars
  BY <1>1 DEF SourceNext, AddSource, AnnounceSource, StoreBatch, PublishBatch, RemoveSource,
              PublishTerminal
<1>2. ASSUME NEW s \in Subscriber, SubscriberNext(s)
      PROVE  \/ UNCHANGED accountVars
             \/ ResumeSubscriber(s)
             \/ \E r \in reports[s] : ReportSkipped(s, r)
  BY <1>2 DEF SubscriberNext, Subscribe, SendHello, Deliver, Unsubscribe, PauseSubscriber
<1>3. CASE UNCHANGED vars
  BY <1>3 DEF vars
<1> QED
  BY <1>1, <1>2, <1>3 DEF Next

(* Appending an event to a channel.                                        *)
LEMMA AppendToLog ==
    ASSUME TypeOK, NEW s \in Subscriber, NEW e \in Event,
           log' = [log EXCEPT ![s] = Append(@, e)]
    PROVE  /\ \A q \in Subscriber : q # s => log'[q] = log[q]
           /\ DOMAIN log'[s] = DOMAIN log[s] \union {Len(log[s]) + 1}
           /\ Len(log[s]) \in Nat
           /\ \A i \in DOMAIN log[s] : i \in Nat /\ i < Len(log[s]) + 1
           /\ \A i \in DOMAIN log[s] : log'[s][i] = log[s][i]
           /\ log'[s][Len(log[s]) + 1] = e
           /\ Sent(s)' = Sent(s) \union e.batches
<1>1. log[s] \in Seq(Event) /\ DOMAIN log[s] = 1 .. Len(log[s]) /\ Len(log[s]) \in Nat
  BY DEF TypeOK
<1>2. log'[s] = Append(log[s], e)
  BY DEF TypeOK
<1>3. \A q \in Subscriber : q # s => log'[q] = log[q]
  BY DEF TypeOK
<1>4. DOMAIN log'[s] = 1 .. Len(log[s]) + 1
  BY <1>1, <1>2
<1>5. \A i \in DOMAIN log[s] : log'[s][i] = log[s][i]
  BY <1>1, <1>2
<1>6. log'[s][Len(log[s]) + 1] = e
  BY <1>1, <1>2
<1>7. DOMAIN log'[s] = DOMAIN log[s] \union {Len(log[s]) + 1}
  BY <1>1, <1>4
<1>8. Sent(s)' = Sent(s) \union e.batches
  BY <1>5, <1>6, <1>7 DEF Sent
<1> QED
  BY <1>1, <1>3, <1>5, <1>6, <1>7, <1>8

-----------------------------------------------------------------------------
(* Preservation, part by part.                                             *)

(* A batch that is being published was stored and is newer than what the   *)
(* subscriber was offered.                                                 *)
LEMMA PublishPreserved == HubInv /\ [Next]_vars => PublishInv'
<1> SUFFICES ASSUME HubInv, [Next]_vars PROVE PublishInv'
  OBVIOUS
<1> USE DEF HubInv, TypeInv, PublishInv
<1>0. \A src \in Source : /\ <<src, "tail">> \in Publisher
                          /\ <<src, "starter">> \in Publisher
                          /\ <<src, "tail">> # <<src, "starter">>
  BY DEF Publisher, Thread
<1>1. ASSUME NEW src \in Source, AddSource(src) PROVE PublishInv'
  BY <1>1 DEF AddSource, StoredNext, OfferedIsPast, OnItsWay, EventsNameTheirSource,
        NameTheirSource,
              TypeOK, publishVars, historyVars
<1>2. ASSUME NEW src \in Source, AnnounceSource(src) PROVE PublishInv'
  <2>1. /\ pubEvent'[<<src, "starter">>] = StatusEvent(src, "started")
        /\ \A p \in Publisher : p # <<src, "starter">> =>
              pubEvent'[p] = pubEvent[p] /\ pubTodo'[p] = pubTodo[p]
    BY <1>0, <1>2 DEF AnnounceSource, Snapshot, TypeOK
  <2>2. EventsNameTheirSource'
    <3> SUFFICES ASSUME NEW q \in Source PROVE NameTheirSource(q)'
      BY DEF EventsNameTheirSource
    <3>1. NameTheirSource(q)
      BY DEF EventsNameTheirSource
    <3>2. pubEvent'[<<q, "tail">>] = pubEvent[<<q, "tail">>]
      BY <1>0, <2>1
    <3>3. \/ pubEvent'[<<q, "starter">>] = pubEvent[<<q, "starter">>]
          \/ pubEvent'[<<q, "starter">>] = StatusEvent(src, "started")
      BY <1>0, <2>1
    <3> DEFINE f == pubEvent'[<<q, "starter">>]
    <3>4. f.name = "source_status" /\ f.batches = {}
      BY <3>1, <3>3, IsStatus DEF NameTheirSource
    <3> QED
      BY <3>1, <3>2, <3>4, Zenon DEF NameTheirSource
  <2>3. StoredNext' /\ OfferedIsPast' /\ OnItsWay'
    BY <1>0, <1>2, <2>1 DEF AnnounceSource, StoredNext, OfferedIsPast, OnItsWay, historyVars
  <2> QED
    BY <2>2, <2>3
<1>3. ASSUME NEW src \in Source, StoreBatch(src) PROVE PublishInv'
  <2>1. StoredNext'
    BY <1>3 DEF StoreBatch, StoredNext, TypeOK
  <2>2. OfferedIsPast' /\ OnItsWay' /\ EventsNameTheirSource'
    BY <1>3 DEF StoreBatch, OfferedIsPast, OnItsWay, EventsNameTheirSource, NameTheirSource,
                publishVars, historyVars
  <2> QED
    BY <2>1, <2>2
<1>4. ASSUME NEW src \in Source, PublishBatch(src) PROVE PublishInv'
  <2> DEFINE b == <<src, next[src]>>
  <2>1. /\ pubEvent'[<<src, "tail">>] = RowsEvent(b)
        /\ \A p \in Publisher : p # <<src, "tail">> =>
              pubEvent'[p] = pubEvent[p] /\ pubTodo'[p] = pubTodo[p]
    BY <1>0, <1>4 DEF PublishBatch, Snapshot, TypeOK
  <2>2. /\ next'[src] = next[src] + 1
        /\ \A q \in Source : q # src => next'[q] = next[q]
        /\ \A q \in Source : next[q] \in Int
    BY <1>4 DEF PublishBatch, TypeOK
  <2>3. b \in stored /\ b[1] = src /\ b[2] = next[src]
    BY <1>4 DEF PublishBatch, StoredNext
  <2>4. StoredNext'
    BY <1>4, <2>2 DEF PublishBatch, StoredNext, TypeOK
  <2>5. \A s \in Subscriber : \A c \in offered[s] : c[2] \in Int
    BY DEF TypeOK, Batch
  <2>6. OfferedIsPast'
    <3>1. ASSUME NEW s \in Subscriber, NEW q \in Source, NEW c \in offered'[s], c[1] = q
          PROVE  c[2] < next'[q]
      <4>1. c \in offered[s] /\ c[2] < next[q]
        BY <1>4, <3>1 DEF PublishBatch, OfferedIsPast, historyVars
      <4> QED
        BY <4>1, <2>2, <2>5
    <3> QED
      BY <3>1 DEF OfferedIsPast
  <2>7. EventsNameTheirSource'
    <3> SUFFICES ASSUME NEW q \in Source PROVE NameTheirSource(q)'
      BY DEF EventsNameTheirSource
    <3>1. NameTheirSource(q)
      BY DEF EventsNameTheirSource
    <3>2. pubEvent'[<<q, "starter">>] = pubEvent[<<q, "starter">>]
      BY <1>0, <2>1
    <3>3. CASE q = src
      <4> DEFINE e == pubEvent'[<<q, "tail">>]
      <4>1. e = RowsEvent(b)
        BY <2>1, <3>3
      <4> HIDE DEF b, e
      <4>2. e.name = "rows" /\ e.source = b[1] /\ e.batches = {b}
        BY <4>1, IsRows, Zenon
      <4>3. e.name = "rows" /\ e.source = q /\ e.batches = {b}
        BY <2>3, <3>3, <4>2
      <4> QED
        BY <2>3, <3>1, <3>2, <3>3, <4>3, Zenon DEF NameTheirSource, e
    <3>4. CASE q # src
      <4>1. pubEvent'[<<q, "tail">>] = pubEvent[<<q, "tail">>]
        BY <1>0, <2>1, <3>4
      <4> QED
        BY <3>1, <3>2, <4>1, Zenon DEF NameTheirSource
    <3> QED
      BY <3>3, <3>4
  <2>8. OnItsWay'
    <3> SUFFICES ASSUME NEW q \in Source, NEW s \in Subscriber, s \in pubTodo'[<<q, "tail">>],
                        NEW a \in pubEvent'[<<q, "tail">>].batches
                 PROVE  /\ a \in stored' /\ a[1] = q /\ a[2] < next'[q]
                        /\ \A c \in offered'[s] : c[1] = q => c[2] < a[2]
      BY DEF OnItsWay
    <3>1. CASE q = src
      <4>1. a = b
        <5> DEFINE e == pubEvent'[<<src, "tail">>]
        <5>1. e = RowsEvent(b)
          BY <2>1
        <5>2. a \in e.batches
          BY <3>1
        <5> HIDE DEF b, e
        <5>3. e.batches = {b}
          BY <5>1, IsRows
        <5> QED
          BY <5>2, <5>3
      <4> QED
        BY <1>4, <2>2, <2>3, <3>1, <4>1 DEF PublishBatch, OfferedIsPast, historyVars
    <3>2. CASE q # src
      <4>1. a \in pubEvent[<<q, "tail">>].batches /\ s \in pubTodo[<<q, "tail">>]
        BY <1>0, <2>1, <3>2
      <4> QED
        BY <1>4, <2>2, <3>2, <4>1 DEF PublishBatch, OnItsWay, historyVars
    <3> QED
      BY <3>1, <3>2
  <2> QED
    BY <2>4, <2>6, <2>7, <2>8
<1>5. ASSUME NEW src \in Source, NEW failedStore \in BOOLEAN, RemoveSource(src, failedStore)
      PROVE PublishInv'
  <2>1. \A q \in Source : next[q] \in Int /\ next'[q] \in Int /\ next[q] <= next'[q]
    BY <1>5 DEF RemoveSource, TypeOK
  <2>2. StoredNext'
    BY <1>5 DEF RemoveSource, StoredNext, TypeOK
  <2>3. \A s \in Subscriber : \A c \in offered[s] : c[2] \in Int
    BY DEF TypeOK, Batch
  <2>4. \A p \in Publisher : \A c \in pubEvent[p].batches : c[2] \in Int
    <3> TAKE p \in Publisher
    <3>1. pubEvent[p].batches \in SUBSET Batch
      BY DEF TypeOK, Event
    <3> QED
      BY <3>1 DEF Batch
  <2>5. OfferedIsPast'
    <3>1. ASSUME NEW s \in Subscriber, NEW q \in Source, NEW c \in offered'[s], c[1] = q
          PROVE  c[2] < next'[q]
      <4>1. c \in offered[s] /\ c[2] < next[q]
        BY <1>5, <3>1 DEF RemoveSource, OfferedIsPast, historyVars
      <4> QED
        BY <4>1, <2>1, <2>3
    <3> QED
      BY <3>1 DEF OfferedIsPast
  <2>6. OnItsWay'
    <3> SUFFICES ASSUME NEW q \in Source, NEW s \in Subscriber, s \in pubTodo'[<<q, "tail">>],
                        NEW a \in pubEvent'[<<q, "tail">>].batches
                 PROVE  /\ a \in stored' /\ a[1] = q /\ a[2] < next'[q]
                        /\ \A c \in offered'[s] : c[1] = q => c[2] < a[2]
      BY DEF OnItsWay
    <3>1. a \in pubEvent[<<q, "tail">>].batches /\ s \in pubTodo[<<q, "tail">>]
      BY <1>5 DEF RemoveSource, publishVars
    <3>2. /\ a \in stored /\ a[1] = q /\ a[2] < next[q]
          /\ \A c \in offered[s] : c[1] = q => c[2] < a[2]
      BY <3>1 DEF OnItsWay
    <3>3. a[2] \in Int
      BY <1>0, <2>4, <3>1
    <3>4. a[2] < next'[q]
      BY <2>1, <3>2, <3>3
    <3> QED
      BY <1>5, <3>2, <3>4 DEF RemoveSource, historyVars
  <2>7. EventsNameTheirSource'
    BY <1>5 DEF RemoveSource, EventsNameTheirSource, NameTheirSource, publishVars
  <2> QED
    BY <2>2, <2>5, <2>6, <2>7
<1>6. ASSUME NEW src \in Source, PublishTerminal(src) PROVE PublishInv'
  <2>1. PICK status \in TerminalStatus : Snapshot(<<src, "tail">>, StatusEvent(src, status))
    BY <1>6 DEF PublishTerminal, TerminalStatus
  <2>2. /\ pubEvent'[<<src, "tail">>] = StatusEvent(src, status)
        /\ \A p \in Publisher : p # <<src, "tail">> =>
              pubEvent'[p] = pubEvent[p] /\ pubTodo'[p] = pubTodo[p]
    BY <1>0, <2>1 DEF Snapshot, TypeOK
  <2>3. pubEvent'[<<src, "tail">>].batches = {}
    BY <2>2, IsStatus
  <2>4. EventsNameTheirSource'
    <3> SUFFICES ASSUME NEW q \in Source PROVE NameTheirSource(q)'
      BY DEF EventsNameTheirSource
    <3>1. NameTheirSource(q)
      BY DEF EventsNameTheirSource
    <3>2. pubEvent'[<<q, "starter">>] = pubEvent[<<q, "starter">>]
      BY <1>0, <2>2
    <3>3. CASE q = src
      <4> DEFINE e == pubEvent'[<<q, "tail">>]
      <4>1. e.name = "source_status" /\ e.source = q /\ e.batches = {}
        BY <2>2, <3>3, IsStatus
      <4> QED
        BY <3>1, <3>2, <4>1, Zenon DEF NameTheirSource
    <3>4. CASE q # src
      <4>1. pubEvent'[<<q, "tail">>] = pubEvent[<<q, "tail">>]
        BY <1>0, <2>2, <3>4
      <4> QED
        BY <3>1, <3>2, <4>1, Zenon DEF NameTheirSource
    <3> QED
      BY <3>3, <3>4
  <2>5. StoredNext' /\ OfferedIsPast'
    BY <1>6 DEF PublishTerminal, StoredNext, OfferedIsPast, TypeOK, historyVars
  <2>6. OnItsWay'
    BY <1>0, <1>6, <2>2, <2>3 DEF PublishTerminal, OnItsWay, historyVars
  <2> QED
    BY <2>4, <2>5, <2>6
<1>7. ASSUME NEW p \in Publisher, NEW s \in Subscriber, Enqueue(p, s) PROVE PublishInv'
  <2>1. PICK src \in Source : p = <<src, "tail">> \/ p = <<src, "starter">>
    BY DEF Publisher, Thread
  <2>2. /\ \A q \in Publisher : pubTodo'[q] \subseteq pubTodo[q]
        /\ s \notin pubTodo'[p]
    BY <1>7 DEF Enqueue, TypeOK
  <2>3. /\ offered'[s] = offered[s] \union pubEvent[p].batches
        /\ \A q \in Subscriber : q # s => offered'[q] = offered[q]
    BY <1>7 DEF Enqueue, TypeOK
  <2>4. \A b \in pubEvent[p].batches : p = <<src, "tail">> /\ b[1] = src /\ b[2] < next[src]
    BY <1>7, <2>1 DEF Enqueue, OnItsWay, EventsNameTheirSource, NameTheirSource
  <2>5. OfferedIsPast'
    BY <1>7, <2>3, <2>4 DEF Enqueue, OfferedIsPast, sourceVars
  <2>6. OnItsWay'
    <3> SUFFICES ASSUME NEW q \in Source, NEW t \in Subscriber, t \in pubTodo'[<<q, "tail">>],
                        NEW a \in pubEvent'[<<q, "tail">>].batches
                 PROVE  /\ a \in stored' /\ a[1] = q /\ a[2] < next'[q]
                        /\ \A c \in offered'[t] : c[1] = q => c[2] < a[2]
      BY DEF OnItsWay
    <3>1. a \in pubEvent[<<q, "tail">>].batches /\ t \in pubTodo[<<q, "tail">>]
      BY <1>0, <1>7, <2>2 DEF Enqueue
    <3>2. /\ a \in stored' /\ a[1] = q /\ a[2] < next'[q]
          /\ \A c \in offered[t] : c[1] = q => c[2] < a[2]
      BY <1>7, <3>1 DEF Enqueue, OnItsWay, sourceVars
    <3>3. ASSUME NEW c \in offered'[t], c[1] = q, c \notin offered[t] PROVE FALSE
      <4>1. t = s /\ c \in pubEvent[p].batches
        BY <2>3, <3>3
      <4>2. p = <<q, "tail">>
        BY <2>4, <3>3, <4>1
      <4> QED
        BY <2>2, <4>1, <4>2
    <3> QED
      BY <3>2, <3>3
  <2>7. StoredNext' /\ EventsNameTheirSource'
    BY <1>7 DEF Enqueue, StoredNext, EventsNameTheirSource, NameTheirSource, sourceVars
  <2> QED
    BY <2>5, <2>6, <2>7
<1>8. ASSUME NEW s \in Subscriber, SubscriberNext(s) PROVE PublishInv'
  <2>1. UNCHANGED <<tail, next, stored, pubEvent, pubTodo, offered>>
    BY <1>8 DEF SubscriberNext, Subscribe, SendHello, Deliver, Unsubscribe, PauseSubscriber,
                ResumeSubscriber, ReportSkipped, sourceVars, publishVars, historyVars
  <2> QED
    BY <2>1 DEF StoredNext, OfferedIsPast, OnItsWay, EventsNameTheirSource, NameTheirSource
<1>9. CASE UNCHANGED vars
  BY <1>9 DEF vars, sourceVars, publishVars, historyVars, StoredNext, OfferedIsPast, OnItsWay,
              EventsNameTheirSource, NameTheirSource
<1> QED
  BY <1>1, <1>2, <1>3, <1>4, <1>5, <1>6, <1>7, <1>8, <1>9 DEF Next, SourceNext

(* Only stored batches are offered.                                        *)
LEMMA StoredPreserved == HubInv /\ [Next]_vars => ShownIsStored'
<1> SUFFICES ASSUME HubInv, [Next]_vars PROVE ShownIsStored'
  OBVIOUS
<1>1. stored \subseteq stored'
  BY DEF Next, SourceNext, SubscriberNext, AddSource, AnnounceSource, StoreBatch, PublishBatch,
         RemoveSource, PublishTerminal, Enqueue, Subscribe, SendHello, Deliver, Unsubscribe,
         PauseSubscriber, ResumeSubscriber, ReportSkipped, vars, sourceVars
<1>2. CASE UNCHANGED offered
  BY <1>1, <1>2 DEF HubInv, ShownIsStored
<1>3. ASSUME NEW p \in Publisher, NEW s \in Subscriber, Enqueue(p, s) PROVE ShownIsStored'
  <2>1. PICK src \in Source : p = <<src, "tail">> \/ p = <<src, "starter">>
    BY DEF Publisher, Thread
  <2>2. pubEvent[p].batches \subseteq stored
    BY <1>3, <2>1 DEF Enqueue, HubInv, PublishInv, OnItsWay, EventsNameTheirSource, NameTheirSource
  <2>3. \A q \in Subscriber : offered'[q] \subseteq offered[q] \union pubEvent[p].batches
    BY <1>3 DEF Enqueue, HubInv, TypeInv, TypeOK
  <2> QED
    BY <1>1, <2>2, <2>3 DEF HubInv, ShownIsStored
<1>4. UNCHANGED offered \/ \E p \in Publisher, s \in Subscriber : Enqueue(p, s)
  BY Frame DEF accountVars, ResumeSubscriber, ReportSkipped, historyVars
<1> QED
  BY <1>2, <1>3, <1>4

(* The accounts of a subscriber depend on its own channel only.            *)
LEMMA AccountedFrame ==
    ASSUME NEW s \in Subscriber, Accounted(s),
           log'[s] = log[s], skipped'[s] = skipped[s], reports'[s] = reports[s],
           offered'[s] = offered[s], unreported'[s] = unreported[s]
    PROVE  Accounted(s)'
BY DEF Accounted, Sent, Reporting

(* A new batch enters the accounts of a subscriber in one place.           *)
LEMMA EnqueueAccounted ==
    ASSUME HubInv, NEW p \in Publisher, NEW s \in Subscriber, Enqueue(p, s)
    PROVE  Accounted(s)'
<1> DEFINE new == pubEvent[p].batches
<1>1. PICK src \in Source : p = <<src, "tail">> \/ p = <<src, "starter">>
  BY DEF Publisher, Thread
<1>2. new \cap offered[s] = {}
  <2>1. ASSUME NEW b \in new, b \in offered[s] PROVE FALSE
    <3>1. p = <<src, "tail">> /\ b[1] = src
      BY <1>1, <2>1 DEF Enqueue, HubInv, PublishInv, EventsNameTheirSource, NameTheirSource
    <3>2. b[2] < b[2]
      BY <2>1, <3>1 DEF Enqueue, HubInv, PublishInv, OnItsWay
    <3>3. b[2] \in Int
      BY <2>1 DEF HubInv, TypeInv, TypeOK, Batch
    <3> QED
      BY <3>2, <3>3
  <2> QED
    BY <2>1
<1>3. pubEvent[p] \in Event
  BY DEF HubInv, TypeInv, TypeOK
<1>4. Accounted(s)
  BY DEF HubInv, RowAccounting
<1>5. /\ offered'[s] = offered[s] \union new
      /\ reports'[s] = reports[s]
      /\ unreported'[s] = unreported[s]
  BY DEF Enqueue, HubInv, TypeInv, TypeOK
<1>6. Reporting(s)' = Reporting(s)
  BY <1>5 DEF Reporting
<1>7. CASE Accepts(s)
  <2>1. log' = [log EXCEPT ![s] = Append(@, pubEvent[p])] /\ skipped' = skipped
    BY <1>7 DEF Enqueue
  <2>2. /\ DOMAIN log'[s] = DOMAIN log[s] \union {Len(log[s]) + 1}
        /\ \A i \in DOMAIN log[s] : log'[s][i] = log[s][i]
        /\ log'[s][Len(log[s]) + 1] = pubEvent[p]
        /\ Sent(s)' = Sent(s) \union new
    BY <1>3, <2>1, AppendToLog DEF HubInv, TypeInv
  <2>3. \A i \in DOMAIN log[s] : log[s][i].batches \cap new = {}
    BY <1>2, <1>4 DEF Accounted, Sent
  <2> HIDE DEF new
  <2>4. \A i, j \in DOMAIN log'[s] : i # j => log'[s][i].batches \cap log'[s][j].batches = {}
    <3>1. log'[s][Len(log[s]) + 1].batches = new
      BY <2>2 DEF new
    <3> QED
      BY <1>4, <2>2, <2>3, <3>1 DEF Accounted
  <2> QED
    BY <1>2, <1>4, <1>5, <1>6, <2>1, <2>2, <2>4 DEF Accounted
<1>8. CASE ~Accepts(s)
  <2>1. log' = log /\ skipped'[s] = skipped[s] \union new
    BY <1>8 DEF Enqueue, HubInv, TypeInv, TypeOK
  <2>2. Sent(s)' = Sent(s)
    BY <2>1 DEF Sent
  <2> HIDE DEF new
  <2> QED
    BY <1>2, <1>4, <1>5, <1>6, <2>1, <2>2 DEF Accounted
<1> QED
  BY <1>7, <1>8

(* A resume moves the counters into reports, source by source.             *)
LEMMA ResumeAccounted ==
    ASSUME HubInv, NEW s \in Subscriber, ResumeSubscriber(s)
    PROVE  Accounted(s)'
<1> DEFINE Taken(b) == SkippedEvent(b[1], {c \in skipped[s] : c[1] = b[1]})
<1>1. /\ skipped'[s] = {}
      /\ log'[s] = log[s]
      /\ offered'[s] = offered[s]
      /\ unreported'[s] = unreported[s]
      /\ reports'[s] = reports[s] \union {Taken(b) : b \in skipped[s]}
  BY DEF ResumeSubscriber, HubInv, TypeInv, TypeOK, historyVars
<1>2. \A b \in skipped[s] : Taken(b).batches = {c \in skipped[s] : c[1] = b[1]}
  <2> TAKE b \in skipped[s]
  <2> DEFINE e == Taken(b)
             same == {c \in skipped[s] : c[1] = b[1]}
  <2>1. e = SkippedEvent(b[1], same)
    OBVIOUS
  <2> HIDE DEF e, same, Taken
  <2>2. e.batches = same
    BY <2>1 DEF SkippedEvent
  <2> QED
    BY <2>2 DEF e, same
<1>3. Accounted(s)
  BY DEF HubInv, RowAccounting
<1>4. Sent(s)' = Sent(s)
  BY <1>1 DEF Sent
<1> HIDE DEF Taken
<1>5. Reporting(s)' = Reporting(s) \union skipped[s]
  BY <1>1, <1>2 DEF Reporting
<1>6. \A r, q \in reports'[s] : r # q => r.batches \cap q.batches = {}
  <2>1. ASSUME NEW b \in skipped[s], NEW r \in reports[s]
        PROVE  Taken(b).batches \cap r.batches = {}
    BY <1>2, <1>3 DEF Accounted, Reporting
  <2>2. ASSUME NEW b \in skipped[s], NEW c \in skipped[s], Taken(b) # Taken(c)
        PROVE  Taken(b).batches \cap Taken(c).batches = {}
    <3>1. b[1] = c[1] => Taken(b) = Taken(c)
      BY DEF Taken
    <3>2. b[1] # c[1]
      BY <2>2, <3>1
    <3> QED
      BY <1>2, <3>2
  <2> QED
    BY <1>1, <1>3, <2>1, <2>2 DEF Accounted
<1> QED
  BY <1>1, <1>3, <1>4, <1>5, <1>6 DEF Accounted

(* A report leaves the list for the channel, or for nowhere.               *)
LEMMA ReportAccounted ==
    ASSUME HubInv, NEW s \in Subscriber, NEW r \in reports[s], ReportSkipped(s, r)
    PROVE  Accounted(s)'
<1>1. Accounted(s)
  BY DEF HubInv, RowAccounting
<1>2. r \in Event
  BY DEF HubInv, TypeInv, TypeOK
<1>3. /\ reports'[s] = reports[s] \ {r}
      /\ skipped'[s] = skipped[s]
      /\ offered'[s] = offered[s]
  BY DEF ReportSkipped, HubInv, TypeInv, TypeOK
<1>4. Reporting(s) = Reporting(s)' \union r.batches /\ Reporting(s)' \cap r.batches = {}
  BY <1>1, <1>3 DEF Accounted, Reporting
<1>5. \A q, t \in reports'[s] : q # t => q.batches \cap t.batches = {}
  BY <1>1, <1>3 DEF Accounted
<1>6. CASE Accepts(s)
  <2>1. log' = [log EXCEPT ![s] = Append(@, r)] /\ unreported' = unreported
    BY <1>6 DEF ReportSkipped
  <2>2. /\ DOMAIN log'[s] = DOMAIN log[s] \union {Len(log[s]) + 1}
        /\ \A i \in DOMAIN log[s] : log'[s][i] = log[s][i]
        /\ log'[s][Len(log[s]) + 1] = r
        /\ Sent(s)' = Sent(s) \union r.batches
    BY <1>2, <2>1, AppendToLog DEF HubInv, TypeInv
  <2>3. \A i \in DOMAIN log[s] : log[s][i].batches \cap r.batches = {}
    BY <1>1, <1>4 DEF Accounted, Sent
  <2>4. \A i, j \in DOMAIN log'[s] : i # j => log'[s][i].batches \cap log'[s][j].batches = {}
    BY <1>1, <2>2, <2>3 DEF Accounted
  <2> QED
    BY <1>1, <1>3, <1>4, <1>5, <2>1, <2>2, <2>4 DEF Accounted
<1>7. CASE ~Accepts(s)
  <2>1. log' = log /\ unreported'[s] = unreported[s] \union r.batches
    BY <1>7 DEF ReportSkipped, HubInv, TypeInv, TypeOK
  <2>2. Sent(s)' = Sent(s)
    BY <2>1 DEF Sent
  <2> QED
    BY <1>1, <1>3, <1>4, <1>5, <2>1, <2>2 DEF Accounted
<1> QED
  BY <1>6, <1>7

LEMMA AccountingPreserved == HubInv /\ [Next]_vars => RowAccounting'
<1> SUFFICES ASSUME HubInv, [Next]_vars, NEW s \in Subscriber PROVE Accounted(s)'
  BY DEF RowAccounting
<1>1. Accounted(s)
  BY DEF HubInv, RowAccounting
<1>2. CASE UNCHANGED accountVars
  BY <1>1, <1>2, AccountedFrame DEF accountVars
<1>3. ASSUME NEW p \in Publisher, NEW q \in Subscriber, Enqueue(p, q) PROVE Accounted(s)'
  <2>1. CASE q = s
    BY <1>3, <2>1, EnqueueAccounted
  <2>2. CASE q # s
    BY <1>1, <1>3, <2>2, AccountedFrame DEF Enqueue, HubInv, TypeInv, TypeOK
  <2> QED
    BY <2>1, <2>2
<1>4. ASSUME NEW q \in Subscriber, ResumeSubscriber(q) PROVE Accounted(s)'
  <2>1. CASE q = s
    BY <1>4, <2>1, ResumeAccounted
  <2>2. CASE q # s
    BY <1>1, <1>4, <2>2, AccountedFrame DEF ResumeSubscriber, HubInv, TypeInv, TypeOK, historyVars
  <2> QED
    BY <2>1, <2>2
<1>5. ASSUME NEW q \in Subscriber, NEW r \in reports[q], ReportSkipped(q, r) PROVE Accounted(s)'
  <2>1. CASE q = s
    BY <1>5, <2>1, ReportAccounted
  <2>2. CASE q # s
    BY <1>1, <1>5, <2>2, AccountedFrame DEF ReportSkipped, HubInv, TypeInv, TypeOK
  <2> QED
    BY <2>1, <2>2
<1> QED
  BY Frame, <1>2, <1>3, <1>4, <1>5

(* A report is a skipped event, an accepted rows event names its source,   *)
(* and the rows of a source are accepted in its order.                     *)
LEMMA ReportsPreserved == HubInv /\ [Next]_vars => ReportsAreSkips'
<1> SUFFICES ASSUME HubInv, [Next]_vars, NEW s \in Subscriber, NEW r \in reports'[s]
             PROVE  r.name = "skipped"
  BY DEF ReportsAreSkips
<1>1. \A q \in reports[s] : q.name = "skipped"
  BY DEF HubInv, ReportsAreSkips
<1>2. ASSUME NEW q \in Subscriber, ResumeSubscriber(q), r \notin reports[s] PROVE r.name = "skipped"
  <2>1. PICK b \in skipped[q] : r = SkippedEvent(b[1], {c \in skipped[q] : c[1] = b[1]})
    BY <1>2 DEF ResumeSubscriber, HubInv, TypeInv, TypeOK
  <2> QED
    BY <2>1, IsSkipped
<1>3. r \in reports[s] \/ \E q \in Subscriber : ResumeSubscriber(q)
  BY Frame DEF accountVars, Enqueue, ReportSkipped, HubInv, TypeInv, TypeOK
<1> QED
  BY <1>1, <1>2, <1>3

(* A step that changes a channel appends one event to it.                  *)
LEMMA LogGrows ==
    ASSUME HubInv, [Next]_vars, NEW s \in Subscriber
    PROVE  \/ log'[s] = log[s]
           \/ /\ \E p \in Publisher :
                    Enqueue(p, s) /\ log' = [log EXCEPT ![s] = Append(@, pubEvent[p])]
           \/ \E r \in reports[s] : log' = [log EXCEPT ![s] = Append(@, r)]
<1> USE DEF HubInv, TypeInv, TypeOK
<1>1. ASSUME NEW p \in Publisher, NEW q \in Subscriber, Enqueue(p, q)
      PROVE  log'[s] = log[s] \/ (q = s /\ log' = [log EXCEPT ![s] = Append(@, pubEvent[p])])
  BY <1>1 DEF Enqueue
<1>2. ASSUME NEW q \in Subscriber, NEW r \in reports[q], ReportSkipped(q, r)
      PROVE  log'[s] = log[s] \/ (q = s /\ log' = [log EXCEPT ![s] = Append(@, r)])
  BY <1>2 DEF ReportSkipped
<1>3. CASE UNCHANGED accountVars \/ \E q \in Subscriber : ResumeSubscriber(q)
  BY <1>3 DEF accountVars, ResumeSubscriber
<1>4. CASE \E p \in Publisher, q \in Subscriber : Enqueue(p, q)
  <2>1. PICK p \in Publisher, q \in Subscriber : Enqueue(p, q)
    BY <1>4
  <2>2. CASE log'[s] = log[s]
    BY <2>2
  <2>3. CASE q = s /\ log' = [log EXCEPT ![s] = Append(@, pubEvent[p])]
    BY <2>1, <2>3, Zenon
  <2> QED
    BY <1>1, <2>1, <2>2, <2>3, Zenon
<1>5. CASE \E q \in Subscriber : \E r \in reports[q] : ReportSkipped(q, r)
  <2>0. PICK q \in Subscriber : \E r \in reports[q] : ReportSkipped(q, r)
    BY <1>5
  <2>1. PICK r \in reports[q] : ReportSkipped(q, r)
    BY <2>0
  <2>2. CASE log'[s] = log[s]
    BY <2>2
  <2>3. CASE q = s /\ log' = [log EXCEPT ![s] = Append(@, r)]
    BY <2>1, <2>3, Zenon
  <2> QED
    BY <1>2, <2>1, <2>2, <2>3, Zenon
<1> QED
  BY Frame, <1>3, <1>4, <1>5

LEMMA OrderPreserved == HubInv /\ [Next]_vars => LoggedRowsNameTheirSource' /\ RowsInSourceOrder'
<1> SUFFICES ASSUME HubInv, [Next]_vars PROVE LoggedRowsNameTheirSource' /\ RowsInSourceOrder'
  OBVIOUS
<1> DEFINE Named(s) == \A i \in DOMAIN log[s] :
               log[s][i].name = "rows" => \A b \in log[s][i].batches : b[1] = log[s][i].source
           Ordered(s) == \A i, j \in DOMAIN log[s] :
               /\ i < j
               /\ log[s][i].name = "rows" /\ log[s][j].name = "rows"
               /\ log[s][i].source = log[s][j].source
               => \A b \in log[s][i].batches, c \in log[s][j].batches : b[2] < c[2]
<1> SUFFICES ASSUME NEW s \in Subscriber PROVE Named(s)' /\ Ordered(s)'
  BY DEF LoggedRowsNameTheirSource, RowsInSourceOrder
<1>1. Named(s) /\ Ordered(s)
  BY DEF HubInv, LoggedRowsNameTheirSource, RowsInSourceOrder
<1>2. CASE log'[s] = log[s]
  BY <1>1, <1>2
<1>3. ASSUME NEW e \in Event, log' = [log EXCEPT ![s] = Append(@, e)],
             e.name = "rows" => \A b \in e.batches : b[1] = e.source,
             e.name = "rows" =>
                 \A b \in e.batches, c \in offered[s] : c[1] = e.source => c[2] < b[2]
      PROVE  Named(s)' /\ Ordered(s)'
  <2> DEFINE n == Len(log[s]) + 1
  <2>1. /\ DOMAIN log'[s] = DOMAIN log[s] \union {n}
        /\ n \in Int
        /\ \A i \in DOMAIN log[s] : i \in Int /\ i < n
        /\ \A i \in DOMAIN log[s] : log'[s][i] = log[s][i]
        /\ log'[s][n] = e
    <3>1. TypeOK
      BY DEF HubInv, TypeInv
    <3> HIDE DEF Named, Ordered
    <3>2. /\ DOMAIN log'[s] = DOMAIN log[s] \union {Len(log[s]) + 1}
          /\ Len(log[s]) \in Nat
          /\ \A i \in DOMAIN log[s] : i \in Nat /\ i < Len(log[s]) + 1
          /\ \A i \in DOMAIN log[s] : log'[s][i] = log[s][i]
          /\ log'[s][Len(log[s]) + 1] = e
      BY <1>3, <3>1, AppendToLog, Zenon
    <3> QED
      BY <3>2
  <2> HIDE DEF n
  <2>2. \A i \in DOMAIN log[s] : log[s][i].batches \subseteq offered[s]
    BY DEF HubInv, RowAccounting, Accounted, Sent
  <2>3. Named(s)'
    BY <1>1, <1>3, <2>1
  <2>4. Ordered(s)'
    <3> SUFFICES ASSUME NEW i \in DOMAIN log'[s], NEW j \in DOMAIN log'[s], i < j,
                        log'[s][i].name = "rows", log'[s][j].name = "rows",
                        log'[s][i].source = log'[s][j].source,
                        NEW b \in log'[s][i].batches, NEW c \in log'[s][j].batches
                 PROVE  b[2] < c[2]
      OBVIOUS
    <3>1. i \in DOMAIN log[s] /\ log'[s][i] = log[s][i]
      BY <2>1
    <3>2. CASE j \in DOMAIN log[s]
      BY <1>1, <2>1, <3>1, <3>2
    <3>3. CASE j = n
      <4>1. b \in offered[s] /\ b[1] = e.source
        BY <1>1, <2>1, <2>2, <3>1, <3>3
      <4> QED
        BY <1>3, <2>1, <3>3, <4>1
    <3> QED
      BY <2>1, <3>2, <3>3
  <2> QED
    BY <2>3, <2>4
<1>4. ASSUME NEW p \in Publisher, Enqueue(p, s), log' = [log EXCEPT ![s] = Append(@, pubEvent[p])]
      PROVE  Named(s)' /\ Ordered(s)'
  <2> DEFINE e == pubEvent[p]
  <2>1. e \in Event
    BY DEF HubInv, TypeInv, TypeOK
  <2>2. PICK src \in Source : p = <<src, "tail">> \/ p = <<src, "starter">>
    BY DEF Publisher, Thread
  <2>0. NameTheirSource(src)
    BY <2>2 DEF HubInv, PublishInv, EventsNameTheirSource
  <2>3. e.name = "rows" => p = <<src, "tail">> /\ e.source = src
    BY <2>2, <2>0 DEF NameTheirSource
  <2>4. e.name = "rows" => \A b \in e.batches : b[1] = e.source
    BY <2>2, <2>3, <2>0 DEF NameTheirSource
  <2>5. e.name = "rows" => \A b \in e.batches, c \in offered[s] : c[1] = e.source => c[2] < b[2]
    BY <1>4, <2>3 DEF Enqueue, HubInv, PublishInv, OnItsWay
  <2> HIDE DEF Named, Ordered
  <2> QED
    BY <1>3, <1>4, <2>1, <2>4, <2>5
<1>5. ASSUME NEW r \in reports[s], log' = [log EXCEPT ![s] = Append(@, r)]
      PROVE  Named(s)' /\ Ordered(s)'
  <2>1. r \in Event /\ r.name = "skipped"
    BY DEF HubInv, TypeInv, TypeOK, ReportsAreSkips
  <2> HIDE DEF Named, Ordered
  <2> QED
    BY <1>3, <1>5, <2>1
<1> QED
  BY LogGrows, <1>2, <1>4, <1>5

-----------------------------------------------------------------------------
LEMMA HubInductive == Spec => []HubInv
<1>1. HubInv /\ [Next]_vars => HubInv'
  BY NextTyped, PublishPreserved, StoredPreserved, AccountingPreserved, ReportsPreserved,
     OrderPreserved DEF HubInv
<1> QED
  BY InitHub, <1>1, PTL DEF Spec

(* No row is lost or counted twice between the hub's channel, its skipped  *)
(* counters and its reports, for any number of sources and browsers.       *)
THEOREM RowsAreAccountedFor == Spec => []RowAccounting
<1>1. HubInv => RowAccounting
  BY DEF HubInv
<1> QED
  BY HubInductive, <1>1, PTL

(* What a browser is shown or told was skipped can be found by a search.   *)
THEOREM ShownRowsAreStored == Spec => []ShownIsStored
<1>1. HubInv => ShownIsStored
  BY DEF HubInv
<1> QED
  BY HubInductive, <1>1, PTL

(* The hub's books balance: channels within their capacity, each batch in  *)
(* one place, and nothing sent or counted that was not stored.             *)
THEOREM HubStaysConsistent == Spec => []Consistent
<1>1. TypeOK /\ RowAccounting /\ ShownIsStored => Consistent
  BY DEF Consistent
<1> QED
  BY TypeCorrect, RowsAreAccountedFor, ShownRowsAreStored, <1>1, PTL

(* A browser sees the rows of a source in the order the source read them.  *)
THEOREM RowsKeepTheirOrder == Spec => []RowsInSourceOrder
<1>1. HubInv => RowsInSourceOrder
  BY DEF HubInv
<1> QED
  BY HubInductive, <1>1, PTL

-----------------------------------------------------------------------------
(* The end of a source.                                                    *)

(* What goes with the end of a source: it is listed only while it runs;    *)
(* its goroutine, and nobody else, says the end, and says nothing after.   *)
ListedRuns == \A src \in active : tail[src] \in {"reading", "stored"}

StreamsRegistered == \A s \in Subscriber : stream[s] \in {"subscribed", "streaming"} =>
   s \in registered

SaysItsEnd(src) ==
    /\ tail[src] = "finished" => /\ pubEvent[<<src, "tail">>].name = "source_status"
                                 /\ pubEvent[<<src, "tail">>].status \in TerminalStatus
    /\ pubEvent[<<src, "tail">>].status \in TerminalStatus => tail[src] = "finished"
    /\ pubEvent[<<src, "starter">>].status \notin TerminalStatus

EndsAreSaid == \A src \in Source : SaysItsEnd(src)

HeardIsOver ==
    \A s \in Subscriber : \A i \in DOMAIN log[s] :
        log[s][i].status \in TerminalStatus => tail[log[s][i].source] = "finished"

ReportsHaveNoStatus == \A s \in Subscriber : \A r \in reports[s] : r.status \notin TerminalStatus

EndInv ==
    /\ HubInv
    /\ ListedRuns /\ StreamsRegistered
    /\ EndsAreSaid /\ HeardIsOver /\ ReportsHaveNoStatus
    /\ EndIsSeen

LEMMA InitEnd == Init => EndInv
<1> SUFFICES ASSUME Init PROVE EndInv
  OBVIOUS
<1>1. ASSUME NEW src \in Source, NEW t \in Thread PROVE pubEvent[<<src, t>>].status = ""
  <2> DEFINE e == pubEvent[<<src, t>>]
  <2>1. e = StatusEvent(src, "")
    <3>1. <<src, t>> \in Publisher /\ <<src, t>>[1] = src
      BY TailIsPublisher
    <3>2. \A p \in Publisher : pubEvent[p] = NoEvent(p[1])
      BY DEF Init
    <3> QED
      BY <3>1, <3>2 DEF NoEvent
  <2> HIDE DEF e
  <2>2. e.status = ""
    BY <2>1 DEF StatusEvent
  <2> QED
    BY <2>2 DEF e
<1>2. EndsAreSaid
  BY <1>1 DEF Init, EndsAreSaid, SaysItsEnd, TerminalStatus, Thread
<1>3. \A s \in Subscriber : DOMAIN log[s] = {} /\ reports[s] = {} /\ hello[s] = {}
  BY DEF Init
<1>4. ListedRuns /\ StreamsRegistered
  BY DEF Init, ListedRuns, StreamsRegistered
<1> QED
  BY <1>2, <1>3, <1>4, InitHub
  DEF EndInv, HeardIsOver, ReportsHaveNoStatus, EndIsSeen, NoRowsAfterTerminal, NoGhostSource

LEMMA ListedPreserved == EndInv /\ [Next]_vars => ListedRuns' /\ StreamsRegistered'
<1> SUFFICES ASSUME EndInv, [Next]_vars PROVE ListedRuns' /\ StreamsRegistered'
  OBVIOUS
<1> USE DEF EndInv, HubInv, TypeInv, TypeOK
<1>1. ASSUME NEW src \in Source, SourceNext(src) PROVE ListedRuns' /\ StreamsRegistered'
  BY <1>1 DEF SourceNext, AddSource, AnnounceSource, StoreBatch, PublishBatch, RemoveSource,
              PublishTerminal, streamVars, ListedRuns, StreamsRegistered
<1>2. ASSUME NEW p \in Publisher, NEW s \in Subscriber, Enqueue(p, s)
      PROVE  ListedRuns' /\ StreamsRegistered'
  BY <1>2 DEF Enqueue, sourceVars, streamVars, ListedRuns, StreamsRegistered
<1>3. ASSUME NEW s \in Subscriber, SubscriberNext(s) PROVE ListedRuns' /\ StreamsRegistered'
  <2>1. UNCHANGED <<active, tail>>
    BY <1>3 DEF SubscriberNext, Subscribe, SendHello, Deliver, Unsubscribe, PauseSubscriber,
                ResumeSubscriber, ReportSkipped, sourceVars
  <2>2. StreamsRegistered'
    BY <1>3 DEF SubscriberNext, Subscribe, SendHello, Deliver, Unsubscribe, PauseSubscriber,
                ResumeSubscriber, ReportSkipped, streamVars, StreamsRegistered
  <2> QED
    BY <2>1, <2>2 DEF ListedRuns
<1>4. CASE UNCHANGED vars
  BY <1>4 DEF vars, sourceVars, streamVars, ListedRuns, StreamsRegistered
<1> QED
  BY <1>1, <1>2, <1>3, <1>4 DEF Next

(* Only the last publication of the goroutine says the end.                *)
LEMMA SaidPreserved == EndInv /\ [Next]_vars => EndsAreSaid'
<1> SUFFICES ASSUME EndInv, [Next]_vars, NEW src \in Source PROVE SaysItsEnd(src)'
  BY DEF EndsAreSaid
<1> USE DEF EndInv, HubInv, TypeInv, TypeOK
<1>1. SaysItsEnd(src)
  BY DEF EndsAreSaid
<1>2. <<src, "tail">> # <<src, "starter">>
  OBVIOUS
<1>3. CASE UNCHANGED pubEvent /\ (tail'[src] = "finished" <=> tail[src] = "finished")
  BY <1>1, <1>3 DEF SaysItsEnd
<1>4. ASSUME NEW q \in Source, AddSource(q) \/ StoreBatch(q) \/ \E f \in BOOLEAN :
                RemoveSource(q, f)
      PROVE  SaysItsEnd(src)'
  <2>1. UNCHANGED pubEvent /\ (tail'[src] = "finished" <=> tail[src] = "finished")
    BY <1>4 DEF AddSource, StoreBatch, RemoveSource, Reading, publishVars
  <2> QED
    BY <1>3, <2>1
<1>5. ASSUME NEW q \in Source, AnnounceSource(q) PROVE SaysItsEnd(src)'
  <2> DEFINE e == StatusEvent(q, "started")
  <2>1. \A p \in Publisher : pubEvent'[p] = IF p = <<q, "starter">> THEN e ELSE pubEvent[p]
    BY <1>5 DEF AnnounceSource, Snapshot
  <2>2. e.status \notin TerminalStatus
    BY IsStatus DEF TerminalStatus
  <2> HIDE DEF e
  <2>3. pubEvent'[<<src, "tail">>] = pubEvent[<<src, "tail">>]
    BY <2>1, TailIsPublisher DEF Thread
  <2>4. pubEvent'[<<src, "starter">>] \in {e, pubEvent[<<src, "starter">>]}
    BY <2>1, TailIsPublisher DEF Thread
  <2>5. tail' = tail
    BY <1>5 DEF AnnounceSource
  <2> QED
    BY <1>1, <2>2, <2>3, <2>4, <2>5 DEF SaysItsEnd
<1>6. ASSUME NEW q \in Source, PublishBatch(q) PROVE SaysItsEnd(src)'
  <2> DEFINE b == <<q, next[q]>>
             e == RowsEvent(b)
  <2>1. \A p \in Publisher : pubEvent'[p] = IF p = <<q, "tail">> THEN e ELSE pubEvent[p]
    BY <1>6 DEF PublishBatch, Snapshot
  <2> HIDE DEF b
  <2>2. e.status \notin TerminalStatus
    BY IsRows DEF TerminalStatus
  <2> HIDE DEF e
  <2>3. pubEvent'[<<src, "starter">>] = pubEvent[<<src, "starter">>]
    BY <2>1, TailIsPublisher DEF Thread
  <2>4. \/ q = src /\ pubEvent'[<<src, "tail">>] = e
        \/ q # src /\ pubEvent'[<<src, "tail">>] = pubEvent[<<src, "tail">>]
    BY <2>1, TailIsPublisher DEF Thread
  <2>5. tail'[src] = IF q = src THEN "reading" ELSE tail[src]
    BY <1>6 DEF PublishBatch
  <2> QED
    BY <1>1, <2>2, <2>3, <2>4, <2>5 DEF SaysItsEnd
<1>7. ASSUME NEW q \in Source, PublishTerminal(q) PROVE SaysItsEnd(src)'
  <2>1. PICK st \in TerminalStatus : Snapshot(<<q, "tail">>, StatusEvent(q, st))
    BY <1>7 DEF PublishTerminal, TerminalStatus
  <2> DEFINE e == StatusEvent(q, st)
  <2>2. \A p \in Publisher : pubEvent'[p] = IF p = <<q, "tail">> THEN e ELSE pubEvent[p]
    BY <2>1 DEF Snapshot
  <2>3. e.name = "source_status" /\ e.status \in TerminalStatus
    BY IsStatus
  <2> HIDE DEF e
  <2>4. pubEvent'[<<src, "starter">>] = pubEvent[<<src, "starter">>]
    BY <2>2, TailIsPublisher DEF Thread
  <2>5. \/ q = src /\ pubEvent'[<<src, "tail">>] = e
        \/ q # src /\ pubEvent'[<<src, "tail">>] = pubEvent[<<src, "tail">>]
    BY <2>2, TailIsPublisher DEF Thread
  <2>6. tail'[src] = IF q = src THEN "finished" ELSE tail[src]
    BY <1>7 DEF PublishTerminal
  <2> QED
    BY <1>1, <2>3, <2>4, <2>5, <2>6 DEF SaysItsEnd
<1>8. \/ UNCHANGED <<pubEvent, tail>>
      \/ \E q \in Source : \/ AddSource(q) \/ StoreBatch(q) \/ \E f \in BOOLEAN : RemoveSource(q, f)
                           \/ AnnounceSource(q) \/ PublishBatch(q) \/ PublishTerminal(q)
  BY DEF Next, SourceNext, SubscriberNext, Enqueue, Subscribe, SendHello, Deliver, Unsubscribe,
         PauseSubscriber, ResumeSubscriber, ReportSkipped, vars, publishVars, sourceVars
<1> QED
  BY <1>3, <1>4, <1>5, <1>6, <1>7, <1>8

LEMMA ReportsStayPlain == EndInv /\ [Next]_vars => ReportsHaveNoStatus'
<1> SUFFICES ASSUME EndInv, [Next]_vars, NEW s \in Subscriber, NEW r \in reports'[s]
             PROVE  r.status \notin TerminalStatus
  BY DEF ReportsHaveNoStatus
<1> USE DEF EndInv, HubInv, TypeInv, TypeOK
<1>1. CASE r \in reports[s]
  BY <1>1 DEF ReportsHaveNoStatus
<1>2. ASSUME NEW q \in Subscriber, ResumeSubscriber(q), r \notin reports[s]
      PROVE  r.status \notin TerminalStatus
  <2>1. PICK b \in skipped[q] : r = SkippedEvent(b[1], {c \in skipped[q] : c[1] = b[1]})
    BY <1>2 DEF ResumeSubscriber
  <2>2. r.status = ""
    BY <2>1, IsSkipped
  <2> QED
    BY <2>2 DEF TerminalStatus
<1>3. r \in reports[s] \/ \E q \in Subscriber : ResumeSubscriber(q)
  BY Frame DEF accountVars, Enqueue, ReportSkipped
<1> QED
  BY <1>1, <1>2, <1>3

(* A source that is over stays so.                                         *)
LEMMA FinishedStays ==
    ASSUME EndInv, [Next]_vars, NEW src \in Source, tail[src] = "finished"
    PROVE  /\ tail'[src] = "finished"
           /\ pubEvent'[<<src, "tail">>] = pubEvent[<<src, "tail">>]
           /\ pubTodo'[<<src, "tail">>] \subseteq pubTodo[<<src, "tail">>]
<1> USE DEF EndInv, HubInv, TypeInv, TypeOK
<1>1. ASSUME NEW q \in Source, SourceNext(q)
      PROVE  /\ tail'[src] = "finished"
             /\ pubEvent'[<<src, "tail">>] = pubEvent[<<src, "tail">>]
             /\ pubTodo'[<<src, "tail">>] = pubTodo[<<src, "tail">>]
  <2>1. AddSource(q) \/ StoreBatch(q) \/ (\E f \in BOOLEAN : RemoveSource(q, f))
        => tail'[src] = "finished" /\ UNCHANGED <<pubEvent, pubTodo>>
    BY DEF AddSource, StoreBatch, RemoveSource, Reading, publishVars
  <2>2. ASSUME AnnounceSource(q)
        PROVE  /\ tail' = tail
               /\ \A p \in Publisher : p # <<q, "starter">> =>
                     pubEvent'[p] = pubEvent[p] /\ pubTodo'[p] = pubTodo[p]
    BY <2>2 DEF AnnounceSource, Snapshot
  <2>3. ASSUME PublishBatch(q) \/ PublishTerminal(q)
        PROVE  /\ q # src /\ tail'[src] = tail[src]
               /\ \A p \in Publisher : p # <<q, "tail">> =>
                     pubEvent'[p] = pubEvent[p] /\ pubTodo'[p] = pubTodo[p]
    BY <2>3 DEF PublishBatch, PublishTerminal, Snapshot
  <2> QED
    BY <1>1, <2>1, <2>2, <2>3, TailIsPublisher DEF SourceNext, Thread
<1>2. ASSUME NEW p \in Publisher, NEW s \in Subscriber, Enqueue(p, s)
      PROVE  tail' = tail /\ pubEvent' = pubEvent /\ \A q \in Publisher :
                pubTodo'[q] \subseteq pubTodo[q]
  BY <1>2 DEF Enqueue, sourceVars
<1>3. ASSUME NEW s \in Subscriber, SubscriberNext(s) PROVE UNCHANGED <<tail, pubEvent, pubTodo>>
  BY <1>3 DEF SubscriberNext, Subscribe, SendHello, Deliver, Unsubscribe, PauseSubscriber,
              ResumeSubscriber, ReportSkipped, sourceVars, publishVars
<1>4. CASE UNCHANGED vars
  BY <1>4 DEF vars, sourceVars, publishVars
<1> QED
  BY <1>1, <1>2, <1>3, <1>4, TailIsPublisher DEF Next, Thread

(* What a step adds to a channel.                                          *)
LEMMA HeardGrows ==
    ASSUME EndInv, [Next]_vars, NEW s \in Subscriber
    PROVE  \/ log'[s] = log[s]
           \/ \E e \in Event :
                 /\ DOMAIN log'[s] = DOMAIN log[s] \union {Len(log[s]) + 1}
                 /\ Len(log[s]) \in Nat
                 /\ \A i \in DOMAIN log[s] : i \in Nat /\ i < Len(log[s]) + 1
                 /\ \A i \in DOMAIN log[s] : log'[s][i] = log[s][i]
                 /\ log'[s][Len(log[s]) + 1] = e
                 /\ e.name = "rows" => tail[e.source] # "finished"
                 /\ e.status \in TerminalStatus => tail[e.source] = "finished"
<1> USE DEF EndInv
<1>1. ASSUME NEW e \in Event, log' = [log EXCEPT ![s] = Append(@, e)],
             e.name = "rows" => tail[e.source] # "finished",
             e.status \in TerminalStatus => tail[e.source] = "finished"
      PROVE  \E d \in Event :
                 /\ DOMAIN log'[s] = DOMAIN log[s] \union {Len(log[s]) + 1}
                 /\ Len(log[s]) \in Nat
                 /\ \A i \in DOMAIN log[s] : i \in Nat /\ i < Len(log[s]) + 1
                 /\ \A i \in DOMAIN log[s] : log'[s][i] = log[s][i]
                 /\ log'[s][Len(log[s]) + 1] = d
                 /\ d.name = "rows" => tail[d.source] # "finished"
                 /\ d.status \in TerminalStatus => tail[d.source] = "finished"
  BY <1>1, AppendToLog DEF HubInv, TypeInv
<1>2. ASSUME NEW p \in Publisher, Enqueue(p, s)
      PROVE  /\ pubEvent[p] \in Event
             /\ pubEvent[p].name = "rows" => tail[pubEvent[p].source] # "finished"
             /\ pubEvent[p].status \in TerminalStatus => tail[pubEvent[p].source] = "finished"
  <2>1. PICK src \in Source : p = <<src, "tail">> \/ p = <<src, "starter">>
    BY DEF Publisher, Thread
  <2>2. SaysItsEnd(src) /\ NameTheirSource(src)
    BY DEF EndsAreSaid, HubInv, PublishInv, EventsNameTheirSource
  <2> QED
    BY <2>1, <2>2 DEF SaysItsEnd, NameTheirSource, HubInv, TypeInv, TypeOK
<1>3. ASSUME NEW r \in reports[s]
      PROVE  r \in Event /\ r.name = "skipped" /\ r.status \notin TerminalStatus
  BY DEF HubInv, TypeInv, TypeOK, ReportsAreSkips, ReportsHaveNoStatus
<1>4. CASE \E p \in Publisher : Enqueue(p, s) /\ log' = [log EXCEPT ![s] = Append(@, pubEvent[p])]
  BY <1>1, <1>2, <1>4
<1>5. CASE \E r \in reports[s] : log' = [log EXCEPT ![s] = Append(@, r)]
  BY <1>1, <1>3, <1>5
<1> QED
  BY <1>4, <1>5, LogGrows

LEMMA HeardPreserved == EndInv /\ [Next]_vars => HeardIsOver' /\ NoRowsAfterTerminal'
<1> SUFFICES ASSUME EndInv, [Next]_vars, NEW s \in Subscriber
             PROVE  /\ \A i \in DOMAIN log'[s] :
                          log'[s][i].status \in TerminalStatus =>
                             tail'[log'[s][i].source] = "finished"
                    /\ \A i, j \in DOMAIN log'[s] :
                          /\ i < j
                          /\ log'[s][i].status \in TerminalStatus
                          /\ log'[s][i].source = log'[s][j].source
                          => log'[s][j].name # "rows"
  BY DEF HeardIsOver, NoRowsAfterTerminal
<1> USE DEF EndInv
<1>1. \A i \in DOMAIN log[s] :
        log[s][i].source \in Source
        /\ (log[s][i].status \in TerminalStatus => tail[log[s][i].source] = "finished")
  <2>1. log[s] \in Seq(Event)
    BY DEF HubInv, TypeInv, TypeOK
  <2>2. \A i \in DOMAIN log[s] : log[s][i] \in Event
    BY <2>1
  <2>3. \A e \in Event : e.source \in Source
    BY DEF Event
  <2> QED
    BY <2>2, <2>3 DEF HeardIsOver
<1>2. \A i, j \in DOMAIN log[s] :
        /\ i < j /\ log[s][i].status \in TerminalStatus /\ log[s][i].source = log[s][j].source
        => log[s][j].name # "rows"
  BY DEF EndIsSeen, NoRowsAfterTerminal
<1>3. \A src \in Source : tail[src] = "finished" => tail'[src] = "finished"
  BY FinishedStays
<1>4. CASE log'[s] = log[s]
  BY <1>1, <1>2, <1>3, <1>4
<1>5. CASE \E e \in Event :
             /\ DOMAIN log'[s] = DOMAIN log[s] \union {Len(log[s]) + 1}
             /\ Len(log[s]) \in Nat
             /\ \A i \in DOMAIN log[s] : i \in Nat /\ i < Len(log[s]) + 1
             /\ \A i \in DOMAIN log[s] : log'[s][i] = log[s][i]
             /\ log'[s][Len(log[s]) + 1] = e
             /\ e.name = "rows" => tail[e.source] # "finished"
             /\ e.status \in TerminalStatus => tail[e.source] = "finished"
  <2> DEFINE n == Len(log[s]) + 1
  <2>1. PICK e \in Event :
             /\ DOMAIN log'[s] = DOMAIN log[s] \union {n}
             /\ n \in Nat
             /\ \A i \in DOMAIN log[s] : i \in Nat /\ i < n
             /\ \A i \in DOMAIN log[s] : log'[s][i] = log[s][i]
             /\ log'[s][n] = e
             /\ e.name = "rows" => tail[e.source] # "finished"
             /\ e.status \in TerminalStatus => tail[e.source] = "finished"
    BY <1>5
  <2> HIDE DEF n
  <2>2. e.source \in Source
    BY DEF Event
  <2>3. \A i \in DOMAIN log'[s] :
          log'[s][i].status \in TerminalStatus => tail'[log'[s][i].source] = "finished"
    BY <1>1, <1>3, <2>1, <2>2
  <2>4. ASSUME NEW i \in DOMAIN log'[s], NEW j \in DOMAIN log'[s], i < j,
               log'[s][i].status \in TerminalStatus, log'[s][i].source = log'[s][j].source
        PROVE  log'[s][j].name # "rows"
    <3>1. i \in DOMAIN log[s]
      BY <2>1, <2>4
    <3>2. CASE j \in DOMAIN log[s]
      BY <1>2, <2>1, <2>4, <3>1, <3>2
    <3>3. CASE j = n
      BY <1>1, <2>1, <2>4, <3>1, <3>3
    <3> QED
      BY <2>1, <3>2, <3>3
  <2> QED
    BY <2>3, <2>4
<1> QED
  BY <1>4, <1>5, HeardGrows

(* A browser that was told of a source.                                    *)
Told(s, src) ==
    /\ src \in hello[s]
    /\ tail[src] = "finished"
    /\ s \notin pubTodo[<<src, "tail">>]
    /\ filter[s] \in {AnySource, src}
    /\ stream[s] = "streaming"

HearsTheEnd(s, src) ==
    \/ src \in statusLost[s]
    \/ \E i \in DOMAIN log[s] : log[s][i].source = src /\ log[s][i].status \in TerminalStatus

(* What a browser has heard, or missed, it has for good.                   *)
LEMMA HearingStays ==
    ASSUME EndInv, [Next]_vars, NEW s \in Subscriber, NEW src \in Source, HearsTheEnd(s, src)
    PROVE  HearsTheEnd(s, src)'
<1> USE DEF EndInv
<1>1. DOMAIN log[s] \subseteq DOMAIN log'[s] /\ \A i \in DOMAIN log[s] : log'[s][i] = log[s][i]
  BY HeardGrows
<1>2. statusLost[s] \subseteq statusLost'[s]
  <2>1. ASSUME NEW p \in Publisher, NEW q \in Subscriber, Enqueue(p, q)
        PROVE  statusLost[s] \subseteq statusLost'[s]
    <3>1. statusLost \in [Subscriber -> SUBSET Source]
      BY DEF HubInv, TypeInv, TypeOK
    <3>2. \/ statusLost' = statusLost
          \/ \E x : statusLost' = [statusLost EXCEPT ![q] = x] /\ statusLost[q] \subseteq x
      BY <2>1, <3>1 DEF Enqueue
    <3> QED
      BY <3>1, <3>2
  <2>2. UNCHANGED statusLost \/ \E p \in Publisher, q \in Subscriber : Enqueue(p, q)
    BY DEF Next, SourceNext, SubscriberNext, AddSource, AnnounceSource, StoreBatch, PublishBatch,
           RemoveSource, PublishTerminal, Subscribe, SendHello, Deliver, Unsubscribe,
           PauseSubscriber, ResumeSubscriber, ReportSkipped, vars, historyVars
  <2> QED
    BY <2>1, <2>2
<1> QED
  BY <1>1, <1>2 DEF HearsTheEnd

LEMMA GhostPreserved == EndInv /\ [Next]_vars => NoGhostSource'
<1> SUFFICES ASSUME EndInv, [Next]_vars PROVE NoGhostSource'
  OBVIOUS
<1> SUFFICES ASSUME NEW s \in Subscriber, NEW src \in Source, Told(s, src)'
             PROVE  HearsTheEnd(s, src)'
  <2>1. TypeInv'
    BY NextTyped DEF EndInv, HubInv
  <2>2. hello' \in [Subscriber -> SUBSET Source]
    BY <2>1 DEF TypeInv, TypeOK
  <2>3. \A s \in Subscriber : \A src \in hello'[s] : src \in Source
    BY <2>2
  <2> QED
    BY <2>3 DEF NoGhostSource, Told, HearsTheEnd
<1> USE DEF EndInv
<1>1. Told(s, src) => HearsTheEnd(s, src)
  BY DEF EndIsSeen, NoGhostSource, Told, HearsTheEnd
<1>2. CASE Told(s, src)
  BY <1>1, <1>2, HearingStays
<1>3. CASE ~Told(s, src)
  <2>1. ASSUME NEW p \in Publisher, NEW q \in Subscriber, Enqueue(p, q) PROVE HearsTheEnd(s, src)'
    <3>1. UNCHANGED <<tail, stream, filter, hello, pubEvent>>
      BY <2>1 DEF Enqueue, sourceVars, streamVars
    <3>2. q = s /\ p = <<src, "tail">>
      <4>1. s \in pubTodo[<<src, "tail">>] /\ s \notin pubTodo'[<<src, "tail">>]
        BY <1>3, <3>1 DEF Told
      <4>2. pubTodo' = [pubTodo EXCEPT ![p] = @ \ {q}]
        BY <2>1 DEF Enqueue
      <4>3. pubTodo \in [Publisher -> SUBSET Subscriber] /\ <<src, "tail">> \in Publisher
        BY TailIsPublisher DEF HubInv, TypeInv, TypeOK, Thread
      <4> QED
        BY <4>1, <4>2, <4>3
    <3> DEFINE e == pubEvent[p]
    <3>3. e.source = src /\ e.status \in TerminalStatus /\ e.name = "source_status" /\ e \in Event
      BY <3>1, <3>2
      DEF Told, EndsAreSaid, SaysItsEnd, HubInv, TypeInv, TypeOK, PublishInv, EventsNameTheirSource,
          NameTheirSource
    <3>4. CASE Accepts(s)
      <4>1. log' = [log EXCEPT ![s] = Append(@, e)]
        BY <2>1, <3>2, <3>4 DEF Enqueue
      <4>2. Len(log[s]) + 1 \in DOMAIN log'[s] /\ log'[s][Len(log[s]) + 1] = e
        BY <3>3, <4>1, AppendToLog DEF HubInv, TypeInv
      <4> QED
        BY <3>3, <4>2 DEF HearsTheEnd
    <3>5. CASE ~Accepts(s)
      <4>1. src \in statusLost'[s]
        BY <2>1, <3>2, <3>3, <3>5 DEF Enqueue, HubInv, TypeInv, TypeOK
      <4> QED
        BY <4>1 DEF HearsTheEnd
    <3> QED
      BY <3>4, <3>5
  <2>2. ASSUME NEW q \in Source, SourceNext(q) PROVE FALSE
    <3>1. UNCHANGED <<stream, filter, hello, registered>>
      BY <2>2 DEF SourceNext, AddSource, AnnounceSource, StoreBatch, PublishBatch, RemoveSource,
                  PublishTerminal, streamVars
    <3>2. s \in registered
      BY <3>1 DEF Told, StreamsRegistered
    <3>3. tail[src] = "finished" => pubTodo'[<<src, "tail">>] = pubTodo[<<src, "tail">>]
      <4>1. ASSUME tail[src] = "finished", PublishBatch(q) \/ PublishTerminal(q)
            PROVE  q # src /\ \A p \in Publisher : p # <<q, "tail">> => pubTodo'[p] = pubTodo[p]
        BY <4>1 DEF PublishBatch, PublishTerminal, Snapshot, HubInv, TypeInv, TypeOK
      <4>2. ASSUME AnnounceSource(q)
            PROVE  \A p \in Publisher : p # <<q, "starter">> => pubTodo'[p] = pubTodo[p]
        BY <4>2 DEF AnnounceSource, Snapshot, HubInv, TypeInv, TypeOK
      <4> QED
        BY <2>2, <4>1, <4>2, TailIsPublisher
        DEF SourceNext, AddSource, StoreBatch, RemoveSource, publishVars, Thread
    <3>4. tail[src] # "finished"
      BY <1>3, <3>1, <3>3 DEF Told
    <3>5. q = src /\ PublishTerminal(src)
      BY <2>2, <3>4 DEF Told, SourceNext, AddSource, AnnounceSource, StoreBatch, PublishBatch,
                        RemoveSource, PublishTerminal, HubInv, TypeInv, TypeOK
    <3>6. PICK st \in TerminalStatus : Snapshot(<<src, "tail">>, StatusEvent(src, st))
      BY <3>5 DEF PublishTerminal, TerminalStatus
    <3> DEFINE e == StatusEvent(src, st)
    <3>7. e.source = src
      BY IsStatus
    <3> HIDE DEF e
    <3>8. pubTodo'[<<src, "tail">>] = {t \in registered : filter[t] \in {AnySource, src}}
      BY <3>6, <3>7, TailIsPublisher DEF Snapshot, HubInv, TypeInv, TypeOK, Thread, e
    <3> QED
      BY <3>1, <3>2, <3>8 DEF Told
  <2>3. ASSUME NEW q \in Subscriber, SubscriberNext(q) PROVE FALSE
    <3>1. UNCHANGED <<active, tail, pubTodo>>
      BY <2>3 DEF SubscriberNext, Subscribe, SendHello, Deliver, Unsubscribe, PauseSubscriber,
                  ResumeSubscriber, ReportSkipped, sourceVars, publishVars
    <3>2. SendHello(q) => hello'[s] = IF q = s THEN active ELSE hello[s]
      BY DEF SendHello, HubInv, TypeInv, TypeOK
    <3>3. ~(SendHello(q) /\ q = s)
      BY <3>1, <3>2 DEF Told, ListedRuns
    <3> QED
      BY <1>3, <2>3, <3>1, <3>3
      DEF Told, SubscriberNext, Subscribe, SendHello, Deliver, Unsubscribe, PauseSubscriber,
          ResumeSubscriber, ReportSkipped, streamVars, HubInv, TypeInv, TypeOK
  <2>4. CASE UNCHANGED vars
    BY <1>3, <2>4 DEF vars, sourceVars, publishVars, streamVars, Told
  <2> QED
    BY <2>1, <2>2, <2>3, <2>4 DEF Next
<1> QED
  BY <1>2, <1>3

(* A browser sees a source as live no longer than it is: nothing of it     *)
(* after its end, and that end if it was told of the source, unless a full *)
(* or paused channel, a filter or its own leaving keeps it away; for any   *)
(* number of sources and browsers.                                         *)
THEOREM EndsAreSeen == Spec => []EndIsSeen
<1>1. EndInv /\ [Next]_vars => EndInv'
  BY NextTyped, PublishPreserved, StoredPreserved, AccountingPreserved, ReportsPreserved,
     OrderPreserved, ListedPreserved, SaidPreserved, ReportsStayPlain, HeardPreserved,
     GhostPreserved DEF EndInv, HubInv, EndIsSeen
<1>2. EndInv => EndIsSeen
  BY DEF EndInv
<1> QED
  BY InitEnd, <1>1, <1>2, PTL DEF Spec

-----------------------------------------------------------------------------
(* LiveHub implements LiveFeed.                                            *)

-----------------------------------------------------------------------------
(* What an event is about: rows of one batch, a status of none; a report   *)
(* is about one source.                                                    *)

About(e) ==
    /\ e.name = "rows" => \E b \in Batch : e.batches = {b}
    /\ e.name = "source_status" => e.batches = {}

PublishedShapes == \A p \in Publisher : About(pubEvent[p])
LoggedShapes == \A s \in Subscriber : \A i \in DOMAIN log[s] : About(log[s][i])
ReportShapes == \A s \in Subscriber : \A r \in reports[s] : \A b \in r.batches : b[1] = r.source

FeedInv == HubInv /\ PublishedShapes /\ LoggedShapes /\ ReportShapes

LEMMA InitFeed == Init => FeedInv
<1> SUFFICES ASSUME Init PROVE FeedInv
  OBVIOUS
<1>1. ASSUME NEW p \in Publisher PROVE About(pubEvent[p])
  <2> DEFINE e == pubEvent[p]
  <2>1. e = StatusEvent(p[1], "")
    BY DEF Init, NoEvent
  <2> HIDE DEF e
  <2>2. e.name = "source_status" /\ e.batches = {}
    BY <2>1, IsStatus
  <2>3. About(e)
    BY <2>2 DEF About
  <2> QED
    BY <2>3 DEF e
<1>2. \A s \in Subscriber : DOMAIN log[s] = {} /\ reports[s] = {}
  BY DEF Init
<1> QED
  BY <1>1, <1>2, InitHub DEF FeedInv, PublishedShapes, LoggedShapes, ReportShapes

(* A snapshot puts one event in the hands of one publisher.                *)
LEMMA SnapshotShapes ==
    ASSUME HubInv, PublishedShapes, NEW p \in Publisher, NEW e, About(e), Snapshot(p, e)
    PROVE  PublishedShapes'
<1>1. \A q \in Publisher : pubEvent'[q] = IF q = p THEN e ELSE pubEvent[q]
  BY DEF Snapshot, HubInv, TypeInv, TypeOK
<1> QED
  BY <1>1 DEF PublishedShapes, About

LEMMA PublishedPreserved == FeedInv /\ [Next]_vars => PublishedShapes'
<1> SUFFICES ASSUME FeedInv, [Next]_vars PROVE PublishedShapes'
  OBVIOUS
<1> USE DEF FeedInv
<1>1. CASE UNCHANGED pubEvent
  BY <1>1 DEF PublishedShapes, About
<1>2. ASSUME NEW src \in Source, NEW t \in Thread, NEW st,
             Snapshot(<<src, t>>, StatusEvent(src, st))
      PROVE  PublishedShapes'
  <2> DEFINE e == StatusEvent(src, st)
  <2>1. e.name = "source_status" /\ e.batches = {}
    BY IsStatus
  <2>2. Snapshot(<<src, t>>, e)
    BY <1>2
  <2> HIDE DEF e
  <2>3. About(e)
    BY <2>1 DEF About
  <2> QED
    BY <2>2, <2>3, SnapshotShapes, TailIsPublisher
<1>3. ASSUME NEW src \in Source, PublishBatch(src) PROVE PublishedShapes'
  <2> DEFINE b == <<src, next[src]>>
             e == RowsEvent(b)
  <2>1. b \in Batch
    BY <1>3 DEF PublishBatch, HubInv, TypeInv, TypeOK, StoredHasNumber, Batch
  <2>2. Snapshot(<<src, "tail">>, e)
    BY <1>3 DEF PublishBatch
  <2> HIDE DEF b
  <2>3. e.name = "rows" /\ e.batches = {b}
    BY IsRows
  <2> HIDE DEF e
  <2>4. About(e)
    BY <2>1, <2>3 DEF About
  <2> QED
    BY <2>2, <2>4, SnapshotShapes, TailIsPublisher DEF Thread
<1>4. \/ UNCHANGED pubEvent
      \/ \E src \in Source : AnnounceSource(src) \/ PublishBatch(src) \/ PublishTerminal(src)
  BY DEF Next, SourceNext, SubscriberNext, AddSource, StoreBatch, RemoveSource, Enqueue, Subscribe,
         SendHello, Deliver, Unsubscribe, PauseSubscriber, ResumeSubscriber, ReportSkipped, vars,
         publishVars
<1> QED
  BY <1>1, <1>2, <1>3, <1>4 DEF AnnounceSource, PublishTerminal, Thread

LEMMA LoggedPreserved == FeedInv /\ [Next]_vars => LoggedShapes'
<1> SUFFICES ASSUME FeedInv, [Next]_vars, NEW s \in Subscriber
             PROVE  \A i \in DOMAIN log'[s] : About(log'[s][i])
  BY DEF LoggedShapes, About
<1> USE DEF FeedInv
<1>1. \A i \in DOMAIN log[s] : About(log[s][i])
  BY DEF LoggedShapes
<1>2. ASSUME NEW e \in Event, About(e), log' = [log EXCEPT ![s] = Append(@, e)]
      PROVE  \A i \in DOMAIN log'[s] : About(log'[s][i])
  <2>1. /\ DOMAIN log'[s] = DOMAIN log[s] \union {Len(log[s]) + 1}
        /\ \A i \in DOMAIN log[s] : log'[s][i] = log[s][i]
        /\ log'[s][Len(log[s]) + 1] = e
    BY <1>2, AppendToLog DEF HubInv, TypeInv
  <2> QED
    BY <1>1, <1>2, <2>1
<1>3. \A p \in Publisher : pubEvent[p] \in Event /\ About(pubEvent[p])
  BY DEF PublishedShapes, HubInv, TypeInv, TypeOK
<1>4. \A r \in reports[s] : r \in Event /\ About(r)
  BY DEF HubInv, ReportsAreSkips, TypeInv, TypeOK, About
<1> QED
  BY <1>1, <1>2, <1>3, <1>4, LogGrows

LEMMA ReportsKeepSource == FeedInv /\ [Next]_vars => ReportShapes'
<1> SUFFICES ASSUME FeedInv, [Next]_vars, NEW s \in Subscriber, NEW r \in reports'[s],
                    NEW b \in r.batches
             PROVE  b[1] = r.source
  BY DEF ReportShapes
<1> USE DEF FeedInv
<1>1. CASE r \in reports[s]
  BY <1>1 DEF ReportShapes
<1>2. ASSUME NEW q \in Subscriber, ResumeSubscriber(q), r \notin reports[s] PROVE b[1] = r.source
  <2>1. PICK c \in skipped[q] : r = SkippedEvent(c[1], {d \in skipped[q] : d[1] = c[1]})
    BY <1>2 DEF ResumeSubscriber, HubInv, TypeInv, TypeOK
  <2> DEFINE same == {d \in skipped[q] : d[1] = c[1]}
  <2>2. r = SkippedEvent(c[1], same) /\ \A d \in same : d[1] = c[1]
    BY <2>1
  <2> HIDE DEF same
  <2>3. r.source = c[1] /\ r.batches = same
    BY <2>2 DEF SkippedEvent
  <2> QED
    BY <2>2, <2>3
<1>3. r \in reports[s] \/ \E q \in Subscriber : ResumeSubscriber(q)
  BY Frame DEF accountVars, Enqueue, ReportSkipped, HubInv, TypeInv, TypeOK
<1> QED
  BY <1>1, <1>2, <1>3

LEMMA FeedInductive == Spec => []FeedInv
<1>1. FeedInv /\ [Next]_vars => FeedInv'
  BY NextTyped, PublishPreserved, StoredPreserved, AccountingPreserved, ReportsPreserved,
     OrderPreserved, PublishedPreserved, LoggedPreserved, ReportsKeepSource DEF FeedInv, HubInv
<1> QED
  BY InitFeed, <1>1, PTL DEF Spec

-----------------------------------------------------------------------------
(* The fate of a batch is the place it is in.                              *)

InLog(s, b, i, name) == log[s][i].name = name /\ b \in log[s][i].batches

IsShown(s, b) == \E i \in DOMAIN log[s] : i <= cursor[s] /\ InLog(s, b, i, "rows")
IsQueued(s, b) == \E i \in DOMAIN log[s] : cursor[s] < i /\ InLog(s, b, i, "rows")
IsTold(s, b) == \E i \in DOMAIN log[s] : InLog(s, b, i, "skipped")

FatesArePlaces ==
    \A s \in Subscriber, b \in Batch :
        /\ Fate(s, b) = "shown" <=> IsShown(s, b)
        /\ Fate(s, b) = "queued" <=> IsQueued(s, b)
        /\ Fate(s, b) = "told" <=> IsTold(s, b)
        /\ Fate(s, b) = "counted" <=> b \in skipped[s]
        /\ Fate(s, b) = "reporting" <=> b \in Reporting(s)
        /\ Fate(s, b) = "unreported" <=> b \in unreported[s]
        /\ Fate(s, b) = "unseen" <=> b \notin offered[s]
        /\ Fate(s, b) \in {"shown", "queued", "told", "counted", "reporting",
                            "unreported", "unseen"}

LEMMA PlacesHold == FeedInv => FatesArePlaces
<1> SUFFICES ASSUME FeedInv, NEW s \in Subscriber, NEW b \in Batch
             PROVE  /\ Fate(s, b) = "shown" <=> IsShown(s, b)
                    /\ Fate(s, b) = "queued" <=> IsQueued(s, b)
                    /\ Fate(s, b) = "told" <=> IsTold(s, b)
                    /\ Fate(s, b) = "counted" <=> b \in skipped[s]
                    /\ Fate(s, b) = "reporting" <=> b \in Reporting(s)
                    /\ Fate(s, b) = "unreported" <=> b \in unreported[s]
                    /\ Fate(s, b) = "unseen" <=> b \notin offered[s]
                    /\ Fate(s, b) \in {"shown", "queued", "told", "counted", "reporting",
                                       "unreported", "unseen"}
  BY DEF FatesArePlaces
<1> USE DEF FeedInv
<1> DEFINE Within(name, lo, hi) ==
               \E i \in DOMAIN log[s] :
                   lo <= i /\ i <= hi /\ log[s][i].name = name /\ b \in log[s][i].batches
<1>1. /\ log[s] \in Seq(Event) /\ cursor[s] \in Nat /\ Len(log[s]) \in Nat
      /\ DOMAIN log[s] = 1 .. Len(log[s])
  BY DEF HubInv, TypeInv, TypeOK
<1>2. /\ Within("rows", 1, cursor[s]) <=> IsShown(s, b)
      /\ Within("rows", cursor[s] + 1, Len(log[s])) <=> IsQueued(s, b)
      /\ Within("skipped", 1, Len(log[s])) <=> IsTold(s, b)
  BY <1>1 DEF IsShown, IsQueued, IsTold, InLog
<1>3. Fate(s, b) = CASE Within("rows", 1, cursor[s]) -> "shown"
                     [] Within("rows", cursor[s] + 1, Len(log[s])) -> "queued"
                     [] Within("skipped", 1, Len(log[s])) -> "told"
                     [] b \in skipped[s] -> "counted"
                     [] b \in Reporting(s) -> "reporting"
                     [] b \in unreported[s] -> "unreported"
                     [] OTHER -> "unseen"
  BY DEF Fate
<1> HIDE DEF Within
<1>4. Accounted(s)
  BY DEF HubInv, RowAccounting
<1>5. b \in Sent(s) <=> IsShown(s, b) \/ IsQueued(s, b) \/ IsTold(s, b)
  <2>1. ASSUME NEW i \in DOMAIN log[s], b \in log[s][i].batches
        PROVE  log[s][i].name = "rows" \/ log[s][i].name = "skipped"
    <3>1. log[s][i] \in Event
      BY <1>1
    <3>2. log[s][i].name \in {"rows", "skipped", "source_status"}
      BY <3>1 DEF Event
    <3>3. log[s][i].name # "source_status"
      BY <2>1 DEF LoggedShapes, About
    <3> QED
      BY <3>2, <3>3
  <2>2. \A i \in DOMAIN log[s] : i <= cursor[s] \/ cursor[s] < i
    BY <1>1
  <2> QED
    BY <2>1, <2>2 DEF Sent, IsShown, IsQueued, IsTold, InLog
<1>6. /\ ~(IsShown(s, b) /\ IsQueued(s, b))
      /\ ~(IsShown(s, b) /\ IsTold(s, b))
      /\ ~(IsQueued(s, b) /\ IsTold(s, b))
  <2>1. \A i, j \in DOMAIN log[s] : b \in log[s][i].batches /\ b \in log[s][j].batches => i = j
    BY <1>4 DEF Accounted
  <2>2. \A i \in DOMAIN log[s] : ~(i <= cursor[s] /\ cursor[s] < i)
    BY <1>1
  <2> QED
    BY <2>1, <2>2 DEF IsShown, IsQueued, IsTold, InLog
<1>7. /\ ~(b \in Sent(s) /\ b \in skipped[s])
      /\ ~((b \in Sent(s) \/ b \in skipped[s]) /\ b \in Reporting(s))
      /\ ~((b \in Sent(s) \/ b \in skipped[s] \/ b \in Reporting(s)) /\ b \in unreported[s])
      /\ b \in offered[s] <=> (b \in Sent(s) \/ b \in skipped[s] \/ b \in Reporting(s)
                                \/ b \in unreported[s])
  BY <1>4 DEF Accounted
<1> QED
  BY <1>2, <1>3, <1>5, <1>6, <1>7

LEMMA PlacesHoldNext == FeedInv' => FatesArePlaces'
  BY PlacesHold, PTL

LEMMA FateFrame ==
    ASSUME NEW s \in Subscriber, NEW b \in Batch,
           log'[s] = log[s], cursor'[s] = cursor[s], skipped'[s] = skipped[s],
           reports'[s] = reports[s], unreported'[s] = unreported[s]
    PROVE  Fate(s, b)' = Fate(s, b)
  BY DEF Fate, Reporting

(* The step of LiveFeed that moves some batches at one subscriber.         *)
LEMMA Moved ==
    ASSUME NEW s \in Subscriber, NEW bs \in SUBSET Batch, NEW to,
           \A b \in bs : Fate(s, b)' = to,
           \A b \in Batch \ bs : Fate(s, b)' = Fate(s, b),
           \A q \in Subscriber \ {s} : \A b \in Batch : Fate(q, b)' = Fate(q, b)
    PROVE  Feed!Move(s, bs, to)
<1> DEFINE f == [q \in Subscriber |-> [b \in Batch |-> Fate(q, b)]]
<1>1. f' = [f EXCEPT ![s] = [b \in Batch |-> IF b \in bs THEN to ELSE f[s][b]]]
  OBVIOUS
<1> QED
  BY <1>1 DEF Feed!Move, Feed!Batch, Batch

-----------------------------------------------------------------------------
(* Every step of the hub is a step of LiveFeed, or none.                   *)

LEMMA EnqueueFeeds ==
    ASSUME FeedInv, FeedInv', NEW p \in Publisher, NEW s \in Subscriber, Enqueue(p, s)
    PROVE  \/ \E b \in Batch : Feed!Offer(s, b)
           \/ \A q \in Subscriber, b \in Batch : Fate(q, b)' = Fate(q, b)
<1> USE DEF FeedInv
<1> DEFINE e == pubEvent[p]
<1>1. e \in Event /\ About(e) /\ e.name # "skipped"
  <2>1. PICK src \in Source : p = <<src, "tail">> \/ p = <<src, "starter">>
    BY DEF Publisher, Thread
  <2>2. NameTheirSource(src)
    BY DEF HubInv, PublishInv, EventsNameTheirSource
  <2> QED
    BY <2>1, <2>2 DEF NameTheirSource, PublishedShapes, HubInv, TypeInv, TypeOK
<1>2. /\ cursor' = cursor /\ reports' = reports /\ unreported' = unreported
      /\ \A q \in Subscriber \ {s} : log'[q] = log[q] /\ skipped'[q] = skipped[q]
  BY DEF Enqueue, HubInv, TypeInv, TypeOK
<1>3. \A q \in Subscriber \ {s}, b \in Batch : Fate(q, b)' = Fate(q, b)
  BY <1>2, FateFrame
<1>4. \/ /\ log' = [log EXCEPT ![s] = Append(@, e)] /\ skipped'[s] = skipped[s]
      \/ /\ log'[s] = log[s] /\ skipped'[s] = skipped[s] \union e.batches
  BY DEF Enqueue, HubInv, TypeInv, TypeOK
<1>5. offered'[s] = offered[s] \union e.batches
  BY DEF Enqueue, HubInv, TypeInv, TypeOK
<1>6. FatesArePlaces /\ FatesArePlaces'
  BY PlacesHold, PlacesHoldNext
<1>7. cursor[s] <= Len(log[s]) /\ cursor[s] \in Nat /\ Len(log[s]) \in Nat
  BY DEF HubInv, TypeInv, TypeOK
<1> HIDE DEF e
(* Where the other batches are.                                            *)
<1>8. ASSUME NEW b \in Batch, b \notin e.batches PROVE Fate(s, b)' = Fate(s, b)
  <2>1. /\ IsShown(s, b)' <=> IsShown(s, b)
        /\ IsQueued(s, b)' <=> IsQueued(s, b)
        /\ IsTold(s, b)' <=> IsTold(s, b)
        /\ b \in skipped'[s] <=> b \in skipped[s]
    <3>1. CASE log' = [log EXCEPT ![s] = Append(@, e)] /\ skipped'[s] = skipped[s]
      <4>1. /\ DOMAIN log'[s] = DOMAIN log[s] \union {Len(log[s]) + 1}
            /\ \A i \in DOMAIN log[s] : log'[s][i] = log[s][i]
            /\ log'[s][Len(log[s]) + 1] = e
        BY <1>1, <3>1, AppendToLog DEF HubInv, TypeInv
      <4> QED
        BY <1>2, <1>8, <3>1, <4>1 DEF IsShown, IsQueued, IsTold, InLog
    <3>2. CASE log'[s] = log[s] /\ skipped'[s] = skipped[s] \union e.batches
      BY <1>2, <1>8, <3>2 DEF IsShown, IsQueued, IsTold, InLog
    <3> QED
      BY <1>4, <3>1, <3>2
  <2>2. Reporting(s)' = Reporting(s) /\ unreported'[s] = unreported[s]
        /\ (b \in offered'[s] <=> b \in offered[s])
    BY <1>2, <1>5, <1>8 DEF Reporting
  <2> QED
    BY <1>6, <2>1, <2>2 DEF FatesArePlaces
<1>9. CASE e.name # "rows"
  <2>1. e.batches = {}
    BY <1>1, <1>9 DEF About, Event
  <2> QED
    BY <1>3, <1>8, <2>1
<1>10. CASE e.name = "rows"
  <2>1. PICK b \in Batch : e.batches = {b}
    BY <1>1, <1>10 DEF About
  <2>2. Fate(s, b)' \in {"queued", "counted"}
    <3>1. CASE log' = [log EXCEPT ![s] = Append(@, e)] /\ skipped'[s] = skipped[s]
      <4>1. /\ DOMAIN log'[s] = DOMAIN log[s] \union {Len(log[s]) + 1}
            /\ log'[s][Len(log[s]) + 1] = e
        BY <1>1, <3>1, AppendToLog DEF HubInv, TypeInv
      <4>2. IsQueued(s, b)'
        BY <1>2, <1>7, <1>10, <2>1, <4>1 DEF IsQueued, InLog
      <4> QED
        BY <1>6, <4>2 DEF FatesArePlaces
    <3>2. CASE log'[s] = log[s] /\ skipped'[s] = skipped[s] \union e.batches
      <4>1. b \in skipped'[s]
        BY <2>1, <3>2
      <4> QED
        BY <1>6, <4>1 DEF FatesArePlaces
    <3> QED
      BY <1>4, <3>1, <3>2
  <2>3. b \notin offered[s] /\ \A c \in offered[s] : c[1] = b[1] => c[2] < b[2]
    <3>1. PICK src \in Source : p = <<src, "tail">> \/ p = <<src, "starter">>
      BY DEF Publisher, Thread
    <3>2. p = <<src, "tail">> /\ b[1] = src
      <4>1. NameTheirSource(src)
        BY DEF HubInv, PublishInv, EventsNameTheirSource
      <4> QED
        BY <2>1, <3>1, <4>1 DEF NameTheirSource, e
    <3>3. \A c \in offered[s] : c[1] = src => c[2] < b[2]
      BY <2>1, <3>2 DEF Enqueue, HubInv, PublishInv, OnItsWay, e
    <3>4. b[2] \in Int
      BY DEF Batch
    <3> QED
      BY <3>2, <3>3, <3>4
  <2>4. Fate(s, b) = "unseen"
    BY <1>6, <2>3 DEF FatesArePlaces
  <2>5. ASSUME NEW c \in Batch, Feed!Earlier(b, c) PROVE Fate(s, c) = "unseen"
    <3>1. c[1] = b[1] /\ b[2] < c[2] /\ b[2] \in Int /\ c[2] \in Int
      BY <2>5 DEF Feed!Earlier, Batch
    <3>2. c \notin offered[s]
      BY <2>3, <3>1
    <3> QED
      BY <1>6, <3>2 DEF FatesArePlaces
  <2>6. Feed!Move(s, {b}, Fate(s, b)')
    BY <1>3, <1>8, <2>1, Moved
  <2>7. Feed!Offer(s, b)
    BY <2>2, <2>4, <2>5, <2>6 DEF Feed!Offer, Feed!Batch, Batch
  <2> QED
    BY <2>7
<1> QED
  BY <1>9, <1>10

(* The client reads the oldest event of its channel.                       *)
LEMMA DeliverFeeds ==
    ASSUME FeedInv, FeedInv', NEW s \in Subscriber, Deliver(s)
    PROVE  \/ \E b \in Batch : Feed!Show(s, b)
           \/ \A q \in Subscriber, b \in Batch : Fate(q, b)' = Fate(q, b)
<1> USE DEF FeedInv
<1> DEFINE n == cursor[s] + 1
           e == log[s][n]
<1>1. /\ log[s] \in Seq(Event) /\ DOMAIN log[s] = 1 .. Len(log[s])
      /\ cursor[s] \in Nat /\ Len(log[s]) \in Nat /\ cursor[s] < Len(log[s])
  BY DEF Deliver, HubInv, TypeInv, TypeOK
<1>2. n \in DOMAIN log[s] /\ e \in Event /\ About(e)
  BY <1>1 DEF LoggedShapes
<1>3. /\ UNCHANGED <<log, skipped, reports, unreported, offered>>
      /\ cursor'[s] = n
      /\ \A q \in Subscriber \ {s} : cursor'[q] = cursor[q]
  BY DEF Deliver, HubInv, TypeInv, TypeOK, historyVars
<1>4. \A q \in Subscriber \ {s}, b \in Batch : Fate(q, b)' = Fate(q, b)
  BY <1>3, FateFrame
<1>5. FatesArePlaces /\ FatesArePlaces'
  BY PlacesHold, PlacesHoldNext
<1>6. Accounted(s)
  BY DEF HubInv, RowAccounting
<1>7. ASSUME NEW b \in Batch, ~(e.name = "rows" /\ b \in e.batches) PROVE Fate(s, b)' = Fate(s, b)
  <2>1. \A i \in DOMAIN log[s] : InLog(s, b, i, "rows") =>
            i # n /\ (i <= n <=> i <= cursor[s]) /\ (n < i <=> cursor[s] < i)
    BY <1>1, <1>7 DEF InLog
  <2>2. (IsShown(s, b)' <=> IsShown(s, b)) /\ (IsQueued(s, b)' <=> IsQueued(s, b))
    BY <1>3, <2>1 DEF IsShown, IsQueued, InLog
  <2>3. IsTold(s, b)' <=> IsTold(s, b)
    BY <1>3 DEF IsTold, InLog
  <2>4. Reporting(s)' = Reporting(s)
    BY <1>3 DEF Reporting
  <2> QED
    BY <1>3, <1>5, <2>2, <2>3, <2>4 DEF FatesArePlaces
<1>8. CASE e.name # "rows"
  BY <1>4, <1>7, <1>8
<1>9. CASE e.name = "rows"
  <2>1. PICK b \in Batch : e.batches = {b}
    BY <1>2, <1>9 DEF About
  <2>2. IsQueued(s, b) /\ IsShown(s, b)'
    BY <1>1, <1>2, <1>3, <1>9, <2>1 DEF IsQueued, IsShown, InLog
  <2>3. Fate(s, b) = "queued" /\ Fate(s, b)' = "shown"
    BY <1>5, <2>2 DEF FatesArePlaces
  <2>4. ASSUME NEW c \in Batch, Feed!Earlier(c, b) PROVE Fate(s, c) # "queued"
    <3>1. c[1] = b[1] /\ c[2] < b[2] /\ b[2] \in Int /\ c[2] \in Int
      BY <2>4 DEF Feed!Earlier, Batch
    <3>2. ASSUME NEW i \in DOMAIN log[s], cursor[s] < i, InLog(s, c, i, "rows") PROVE FALSE
      <4>1. i # n
        BY <2>1, <3>1, <3>2 DEF InLog
      <4>2. n < i
        BY <1>1, <3>2, <4>1
      <4>3. log[s][i].source = c[1] /\ e.source = b[1]
        BY <1>2, <1>9, <2>1, <3>2 DEF HubInv, LoggedRowsNameTheirSource, InLog
      <4>4. b[2] < c[2]
        BY <1>2, <1>9, <2>1, <3>1, <3>2, <4>2, <4>3 DEF HubInv, RowsInSourceOrder, InLog
      <4> QED
        BY <3>1, <4>4
    <3> QED
      BY <1>5, <3>2 DEF FatesArePlaces, IsQueued
  <2>5. Feed!Move(s, {b}, "shown")
    BY <1>4, <1>7, <2>1, <2>3, Moved
  <2>6. Feed!Show(s, b)
    BY <2>3, <2>4, <2>5 DEF Feed!Show, Feed!Batch, Batch
  <2> QED
    BY <2>6
<1> QED
  BY <1>8, <1>9

(* A resume takes what has been counted.                                   *)
LEMMA ResumeFeeds ==
    ASSUME FeedInv, FeedInv', NEW s \in Subscriber, ResumeSubscriber(s)
    PROVE  Feed!Take(s)
<1> USE DEF FeedInv
<1> DEFINE Taken(b) == SkippedEvent(b[1], {c \in skipped[s] : c[1] = b[1]})
<1>1. /\ UNCHANGED <<log, cursor, offered, unreported>>
      /\ skipped'[s] = {}
      /\ reports'[s] = reports[s] \union {Taken(b) : b \in skipped[s]}
      /\ \A q \in Subscriber \ {s} : skipped'[q] = skipped[q] /\ reports'[q] = reports[q]
  BY DEF ResumeSubscriber, HubInv, TypeInv, TypeOK, historyVars
<1>2. \A b \in skipped[s] : Taken(b).batches = {c \in skipped[s] : c[1] = b[1]}
  <2> TAKE b \in skipped[s]
  <2> DEFINE e == Taken(b)
             same == {c \in skipped[s] : c[1] = b[1]}
  <2>1. e = SkippedEvent(b[1], same)
    OBVIOUS
  <2> HIDE DEF e, same, Taken
  <2>2. e.batches = same
    BY <2>1 DEF SkippedEvent
  <2> QED
    BY <2>2 DEF e, same
<1> HIDE DEF Taken
<1>3. Reporting(s)' = Reporting(s) \union skipped[s]
  BY <1>1, <1>2 DEF Reporting
<1>4. FatesArePlaces /\ FatesArePlaces'
  BY PlacesHold, PlacesHoldNext
<1>5. \A q \in Subscriber \ {s}, b \in Batch : Fate(q, b)' = Fate(q, b)
  BY <1>1, FateFrame
<1>6. \A b \in Batch : (IsShown(s, b)' <=> IsShown(s, b)) /\ (IsQueued(s, b)' <=> IsQueued(s, b))
                      /\ (IsTold(s, b)' <=> IsTold(s, b))
  BY <1>1 DEF IsShown, IsQueued, IsTold, InLog
<1> DEFINE counted == {b \in Batch : Fate(s, b) = "counted"}
<1>7. \A b \in counted : Fate(s, b)' = "reporting"
  BY <1>3, <1>4 DEF FatesArePlaces
<1>8. \A b \in Batch \ counted : Fate(s, b)' = Fate(s, b)
  BY <1>1, <1>3, <1>4, <1>6 DEF FatesArePlaces
<1> HIDE DEF counted
<1>9. counted \in SUBSET Batch
  BY DEF counted
<1>10. Feed!Move(s, counted, "reporting")
  BY <1>5, <1>7, <1>8, <1>9, Moved
<1>11. counted = Feed!With(s, "counted")
  BY DEF counted, Feed!With, Feed!Batch, Batch
<1> QED
  BY <1>10, <1>11 DEF Feed!Take

(* A report tells the client of the rows of one source, or is dropped.     *)
LEMMA ReportFeeds ==
    ASSUME FeedInv, FeedInv', NEW s \in Subscriber, NEW r \in reports[s], ReportSkipped(s, r)
    PROVE  \E src \in Source : Feed!Tell(s, src)
<1> USE DEF FeedInv
<1>1. r \in Event /\ r.name = "skipped" /\ r.source \in Source /\ r.batches \in SUBSET Batch
  <2>1. r \in Event /\ r.name = "skipped"
    BY DEF HubInv, TypeInv, TypeOK, ReportsAreSkips
  <2> QED
    BY <2>1 DEF Event
<1>2. /\ UNCHANGED <<cursor, offered, skipped>>
      /\ reports'[s] = reports[s] \ {r}
      /\ \A q \in Subscriber \ {s} :
            reports'[q] = reports[q] /\ log'[q] = log[q] /\ unreported'[q] = unreported[q]
  BY DEF ReportSkipped, HubInv, TypeInv, TypeOK
<1>3. Accounted(s)
  BY DEF HubInv, RowAccounting
<1>4. Reporting(s) = Reporting(s)' \union r.batches /\ Reporting(s)' \cap r.batches = {}
  BY <1>2, <1>3 DEF Accounted, Reporting
<1>5. FatesArePlaces /\ FatesArePlaces'
  BY PlacesHold, PlacesHoldNext
<1>6. \A q \in Subscriber \ {s}, b \in Batch : Fate(q, b)' = Fate(q, b)
  BY <1>2, FateFrame
<1>7. \A b \in r.batches : Fate(s, b) = "reporting" /\ b[1] = r.source
  BY <1>1, <1>4, <1>5 DEF FatesArePlaces, ReportShapes
<1>8. PICK to \in {"told", "unreported"} :
         /\ \A b \in r.batches : Fate(s, b)' = to
         /\ \A b \in Batch \ r.batches : Fate(s, b)' = Fate(s, b)
  <2>1. CASE Accepts(s)
    <3>1. log' = [log EXCEPT ![s] = Append(@, r)] /\ unreported' = unreported
      BY <2>1 DEF ReportSkipped
    <3>2. /\ DOMAIN log'[s] = DOMAIN log[s] \union {Len(log[s]) + 1}
          /\ \A i \in DOMAIN log[s] : log'[s][i] = log[s][i]
          /\ log'[s][Len(log[s]) + 1] = r
      BY <1>1, <3>1, AppendToLog DEF HubInv, TypeInv
    <3>3. \A b \in r.batches : IsTold(s, b)'
      BY <1>1, <3>2 DEF IsTold, InLog
    <3>4. \A b \in Batch \ r.batches :
             /\ IsShown(s, b)' <=> IsShown(s, b)
             /\ IsQueued(s, b)' <=> IsQueued(s, b)
             /\ IsTold(s, b)' <=> IsTold(s, b)
      BY <1>2, <3>2 DEF IsShown, IsQueued, IsTold, InLog
    <3>5. \A b \in r.batches : Fate(s, b)' = "told"
      BY <1>1, <1>5, <3>3 DEF FatesArePlaces
    <3>6. \A b \in Batch \ r.batches : Fate(s, b)' = Fate(s, b)
      BY <1>2, <1>4, <1>5, <3>1, <3>4 DEF FatesArePlaces
    <3> QED
      BY <3>5, <3>6
  <2>2. CASE ~Accepts(s)
    <3>1. log' = log /\ unreported'[s] = unreported[s] \union r.batches
      BY <2>2 DEF ReportSkipped, HubInv, TypeInv, TypeOK
    <3>2. \A b \in Batch :
             /\ IsShown(s, b)' <=> IsShown(s, b)
             /\ IsQueued(s, b)' <=> IsQueued(s, b)
             /\ IsTold(s, b)' <=> IsTold(s, b)
      BY <1>2, <3>1 DEF IsShown, IsQueued, IsTold, InLog
    <3>3. \A b \in r.batches : Fate(s, b)' = "unreported"
      BY <1>1, <1>5, <3>1 DEF FatesArePlaces
    <3>4. \A b \in Batch \ r.batches : Fate(s, b)' = Fate(s, b)
      BY <1>2, <1>4, <1>5, <3>1, <3>2 DEF FatesArePlaces
    <3> QED
      BY <3>3, <3>4
  <2> QED
    BY <2>1, <2>2
<1>9. Feed!Move(s, r.batches, to)
  BY <1>1, <1>6, <1>8, Moved
<1>10. r.batches \in SUBSET {b \in Feed!With(s, "reporting") : b[1] = r.source}
  BY <1>1, <1>7 DEF Feed!With, Feed!Batch, Batch
<1>11. Feed!Tell(s, r.source)
  BY <1>9, <1>10 DEF Feed!Tell
<1> QED
  BY <1>1, <1>11

LEMMA StepFeeds ==
    ASSUME FeedInv, FeedInv', [Next]_vars
    PROVE  [Feed!Next]_([s \in Subscriber |-> [b \in Batch |-> Fate(s, b)]])
<1> DEFINE f == [s \in Subscriber |-> [b \in Batch |-> Fate(s, b)]]
<1>1. CASE \A q \in Subscriber, b \in Batch : Fate(q, b)' = Fate(q, b)
  BY <1>1
<1>2. CASE UNCHANGED <<accountVars, cursor>>
  <2>1. \A q \in Subscriber, b \in Batch : Fate(q, b)' = Fate(q, b)
    BY <1>2, FateFrame DEF accountVars
  <2> QED
    BY <1>1, <2>1
<1>3. ASSUME NEW p \in Publisher, NEW s \in Subscriber, Enqueue(p, s) PROVE Feed!Next \/ f' = f
  BY <1>1, <1>3, EnqueueFeeds DEF Feed!Next, Feed!Batch, Batch
<1>4. ASSUME NEW s \in Subscriber, Deliver(s) PROVE Feed!Next \/ f' = f
  BY <1>1, <1>4, DeliverFeeds DEF Feed!Next, Feed!Batch, Batch
<1>5. ASSUME NEW s \in Subscriber, ResumeSubscriber(s) PROVE Feed!Next
  BY <1>5, ResumeFeeds DEF Feed!Next
<1>6. ASSUME NEW s \in Subscriber, NEW r \in reports[s], ReportSkipped(s, r) PROVE Feed!Next
  BY <1>6, ReportFeeds DEF Feed!Next
<1>7. \/ UNCHANGED <<accountVars, cursor>>
      \/ \E p \in Publisher, s \in Subscriber : Enqueue(p, s)
      \/ \E s \in Subscriber : Deliver(s) \/ ResumeSubscriber(s)
      \/ \E s \in Subscriber : \E r \in reports[s] : ReportSkipped(s, r)
  <2> USE DEF accountVars, channelVars, historyVars
  <2>1. ASSUME NEW src \in Source, SourceNext(src) PROVE UNCHANGED <<accountVars, cursor>>
    BY <2>1 DEF SourceNext, AddSource, AnnounceSource, StoreBatch, PublishBatch, RemoveSource,
                PublishTerminal
  <2>2. ASSUME NEW s \in Subscriber, SubscriberNext(s)
        PROVE  \/ UNCHANGED <<accountVars, cursor>>
               \/ Deliver(s) \/ ResumeSubscriber(s)
               \/ \E r \in reports[s] : ReportSkipped(s, r)
    BY <2>2 DEF SubscriberNext, Subscribe, SendHello, Unsubscribe, PauseSubscriber
  <2>3. CASE UNCHANGED vars
    BY <2>3 DEF vars
  <2> QED
    BY <2>1, <2>2, <2>3 DEF Next
<1> QED
  BY <1>2, <1>3, <1>4, <1>5, <1>6, <1>7

LEMMA InitFeeds == Init => Feed!Init
<1> SUFFICES ASSUME Init, NEW s \in Subscriber, NEW b \in Batch PROVE Fate(s, b) = "unseen"
  BY DEF Feed!Init, Feed!Batch, Batch
<1>1. FeedInv /\ offered[s] = {}
  BY InitFeed DEF Init
<1> QED
  BY <1>1, PlacesHold DEF FatesArePlaces

(* The hub implements the subscription LiveFeed describes: each batch has  *)
(* one fate at each subscriber, is shown in order or counted once, and a   *)
(* count is reported at most once; for any sources, subscribers, capacity  *)
(* and number of batches.                                                  *)
THEOREM HubImplementsFeed == Spec => ImplementsLiveFeed
<1>1. FeedInv /\ FeedInv' /\ [Next]_vars =>
          [Feed!Next]_([s \in Subscriber |-> [b \in Batch |-> Fate(s, b)]])
  BY StepFeeds
<1> QED
  BY InitFeeds, FeedInductive, <1>1, PTL DEF Spec, ImplementsLiveFeed, Feed!Spec

-----------------------------------------------------------------------------
(* What becomes of a batch.                                                *)

(* The fates that may follow a fate.                                       *)
Later(f) ==
    {f} \union CASE f = "unseen" -> {"queued", "counted"}
                 [] f = "queued" -> {"shown"}
                 [] f = "counted" -> {"reporting"}
                 [] f = "reporting" -> {"told", "unreported"}
                 [] OTHER -> {}

LEMMA MovesForward ==
    ASSUME NEW g \in [Subscriber -> [Batch -> Feed!Fates]], NEW h,
           NEW s \in Subscriber, NEW bs, NEW to,
           h = [g EXCEPT ![s] = [b \in Batch |-> IF b \in bs THEN to ELSE @[b]]],
           \A b \in Batch : b \in bs => to \in Later(g[s][b])
    PROVE  \A q \in Subscriber, b \in Batch : h[q][b] \in Later(g[q][b])
<1> SUFFICES ASSUME NEW q \in Subscriber, NEW b \in Batch PROVE h[q][b] \in Later(g[q][b])
  OBVIOUS
<1>1. g[q][b] \in Later(g[q][b])
  BY DEF Later
<1>2. CASE q = s /\ b \in bs
  <2>1. h[q][b] = to
    BY <1>2
  <2> QED
    BY <1>2, <2>1
<1>3. CASE ~(q = s /\ b \in bs)
  <2>1. h[q][b] = g[q][b]
    BY <1>3
  <2> QED
    BY <1>1, <2>1
<1> QED
  BY <1>2, <1>3

LEMMA FatesMoveForward ==
    ASSUME FeedInv, FeedInv', [Next]_vars
    PROVE  \A s \in Subscriber, b \in Batch : Fate(s, b)' \in Later(Fate(s, b))
<1>1. PICK g : g = [s \in Subscriber |-> [b \in Batch |-> Fate(s, b)]]
  OBVIOUS
<1>2. PICK h : h = [s \in Subscriber |-> [b \in Batch |-> Fate(s, b)']]
  OBVIOUS
<1>3. /\ g \in [Subscriber -> [Batch -> Feed!Fates]]
      /\ \A s \in Subscriber, b \in Batch : g[s][b] = Fate(s, b) /\ h[s][b] = Fate(s, b)'
  BY <1>1, <1>2, PlacesHold DEF FatesArePlaces, Feed!Fates
<1>4. CASE h = g
  BY <1>3, <1>4 DEF Later
<1>5. ASSUME NEW s \in Subscriber, NEW bs, NEW to, Feed!Move(s, bs, to),
             \A b \in Batch : b \in bs => to \in Later(Fate(s, b))
      PROVE  \A q \in Subscriber, b \in Batch : h[q][b] \in Later(g[q][b])
  <2>1. h = [g EXCEPT ![s] = [b \in Batch |-> IF b \in bs THEN to ELSE @[b]]]
    BY <1>1, <1>2, <1>5 DEF Feed!Move, Feed!Batch, Batch
  <2>2. \A b \in Batch : b \in bs => to \in Later(g[s][b])
    BY <1>3, <1>5
  <2> QED
    BY <1>3, <2>1, <2>2, MovesForward
<1>6. CASE Feed!Next
  <2>1. PICK s \in Subscriber : \/ \E b \in Feed!Batch : Feed!Offer(s, b) \/ Feed!Show(s, b)
                                \/ Feed!Take(s)
                                \/ \E src \in Source : Feed!Tell(s, src)
    BY <1>6 DEF Feed!Next
  <2>2. CASE \E b \in Feed!Batch : Feed!Offer(s, b) \/ Feed!Show(s, b)
    <3>1. PICK b \in Feed!Batch : Feed!Offer(s, b) \/ Feed!Show(s, b)
      BY <2>2
    <3>2. b \in Batch
      BY <3>1 DEF Feed!Batch, Batch
    <3>3. CASE Feed!Offer(s, b)
      <4>1. PICK to \in {"queued", "counted"} : Feed!Move(s, {b}, to)
        BY <3>3 DEF Feed!Offer
      <4>2. Fate(s, b) = "unseen"
        BY <3>2, <3>3 DEF Feed!Offer, Feed!Batch, Batch
      <4>3. to \in Later(Fate(s, b))
        BY <4>2 DEF Later
      <4> QED
        BY <1>3, <1>5, <4>1, <4>3
    <3>4. CASE Feed!Show(s, b)
      <4>1. Fate(s, b) = "queued" /\ Feed!Move(s, {b}, "shown")
        BY <3>2, <3>4 DEF Feed!Show, Feed!Batch, Batch
      <4>2. "shown" \in Later(Fate(s, b))
        BY <4>1 DEF Later
      <4> QED
        BY <1>3, <1>5, <4>1, <4>2
    <3> QED
      BY <3>1, <3>3, <3>4
  <2>3. CASE Feed!Take(s)
    <3>1. PICK bs : bs = {b \in Batch : Fate(s, b) = "counted"}
      OBVIOUS
    <3>2. Feed!Move(s, bs, "reporting")
      BY <2>3, <3>1 DEF Feed!Take, Feed!With, Feed!Batch, Batch
    <3>3. \A b \in Batch : b \in bs => "reporting" \in Later(Fate(s, b))
      BY <3>1 DEF Later
    <3> QED
      BY <1>3, <1>5, <3>2, <3>3
  <2>4. CASE \E src \in Source : Feed!Tell(s, src)
    <3>1. PICK src \in Source : Feed!Tell(s, src)
      BY <2>4
    <3>2. PICK bs \in SUBSET {b \in Feed!With(s, "reporting") : b[1] = src},
               to \in {"told", "unreported"} : Feed!Move(s, bs, to)
      BY <3>1 DEF Feed!Tell
    <3>3. \A b \in Batch : b \in bs => Fate(s, b) = "reporting"
      BY <3>2 DEF Feed!With, Feed!Batch, Batch
    <3>4. \A b \in Batch : b \in bs => to \in Later(Fate(s, b))
      BY <3>2, <3>3 DEF Later
    <3> QED
      BY <1>3, <1>5, <3>2, <3>4
  <2> QED
    BY <2>1, <2>2, <2>3, <2>4
<1>7. [Feed!Next]_([s \in Subscriber |-> [b \in Batch |-> Fate(s, b)]])
  BY StepFeeds
<1>8. Feed!Next \/ h = g
  BY <1>1, <1>2, <1>7
<1> QED
  BY <1>3, <1>4, <1>6, <1>8

(* What a browser was shown is never counted as skipped, what was counted  *)
(* is never shown, and what was reported stays so: rows shown and rows     *)
(* reported can be added up, through pauses, resumes and full channels     *)
(* (enqueue and ResumeSubscriber in live.go).                              *)
THEOREM FatesGoForward ==
    Spec => [][\A s \in Subscriber, b \in Batch : Fate(s, b)' \in Later(Fate(s, b))]_vars
<1>1. FeedInv /\ FeedInv' /\ [Next]_vars
          => [\A s \in Subscriber, b \in Batch : Fate(s, b)' \in Later(Fate(s, b))]_vars
  BY FatesMoveForward
<1> QED
  BY FeedInductive, <1>1, PTL DEF Spec

=============================================================================
