--------------------------- MODULE IngestSession ---------------------------
(***************************************************************************)
(* Chunked import: the ingest handlers of handlers/ingest.go, the record   *)
(* folder of handlers/multiline.go, and the browser's upload loop          *)
(* (useUpload.ts) that drives them.                                        *)
(*                                                                         *)
(* The file of an upload is the lines 1 .. FileLines; header is the set of *)
(* its lines that open a record (what log2grok's header or indent test     *)
(* says of each line).  A record is the sequence of its lines.  All lines  *)
(* carry one timestamp, the case in which a document id depends on the     *)
(* sequence number alone, so it is <<source, seq>> here.                   *)
(***************************************************************************)
EXTENDS RecordFolder

CONSTANTS
    Session,     \* one upload of one file each
    FileName,    \* names files can have: the source of a session
    FileLines,   \* bound: lines in a file
    MaxRestarts  \* bound: crashes of the server

ASSUME FileLinesAssumption == FileLines \in Nat \ {0}
ASSUME MaxRestartsAssumption == MaxRestarts \in Nat

Line == 1 .. FileLines

\* Requests the server may be running for a session, and the cleanup sweep.
Handler == {"ingest", "end", "sweep"}

VARIABLES
    live,        \* keys of sessionMap
    stale,       \* sessions whose LastActivity is older than SessionTimeout
    seq,         \* IngestSession.Seq
    pending,     \* multilineFolder.pending, << >> when there is none
    handler,     \* what each handler of a session is doing
    docs,        \* documents of the store
    restarts,    \* crashes so far
    client,      \* where the upload loop is
    source,      \* the name of the uploaded file
    header,      \* lines of it that open a record
    folding,     \* whether the session has a multiline folder
    sent,        \* lines handed to /ingest/logs so far
    cancelled,   \* history: uploads whose client stopped waiting for a chunk
    crashed,     \* history: uploads whose session was lost in a crash
    unsaved,     \* history: lines a failing Store did not take
    overwritten  \* history: documents replaced by another line's document

memoryVars == <<live, stale, seq, pending, handler>>
uploadVars == <<client, source, header, folding, sent>>
historyVars == <<cancelled, crashed, unsaved, overwritten>>
vars == <<memoryVars, docs, restarts, uploadVars, historyVars>>

\* pc of a handler: chunk holds a request's lines, records the folded records
\* that have no number yet, rows the numbered ones.
Idle == [pc |-> "idle", chunk |-> << >>, records |-> << >>, rows |-> << >>]
Working(records) == [pc |-> "working", chunk |-> << >>, records |-> records, rows |-> << >>]

Init ==
    /\ live = {}
    /\ stale = {}
    /\ seq = [s \in Session |-> 0]
    /\ pending = [s \in Session |-> << >>]
    /\ handler = [s \in Session |-> [h \in Handler |-> Idle]]
    /\ docs = {}
    /\ restarts = 0
    /\ client = [s \in Session |-> "new"]
    /\ source \in [Session -> FileName]
    /\ header \in [Session -> SUBSET Line]
    /\ folding \in [Session -> BOOLEAN]
    /\ sent = [s \in Session |-> 0]
    /\ cancelled = {}
    /\ crashed = {}
    /\ unsaved = [s \in Session |-> {}]
    /\ overwritten = {}

-----------------------------------------------------------------------------
WholeFile == [i \in 1 .. FileLines |-> i]

(* The records the file consists of, whatever the chunks.                  *)
FileRecords(s) ==
    IF folding[s] THEN Fold(<< >>, WholeFile, header[s]) ELSE Singletons(WholeFile)

-----------------------------------------------------------------------------
(* The upload loop.  Chunks go out one at a time; the signal that aborts   *)
(* an upload aborts the request on the wire, not the handler it reached.   *)

StartUpload(s) ==   \* HandleIngestStart
    /\ client[s] = "new"
    /\ client' = [client EXCEPT ![s] = "open"]
    /\ live' = live \union {s}
    /\ UNCHANGED <<stale, seq, pending, handler, docs, restarts, source, header, folding,
                   sent, historyVars>>

SendChunk(s) ==
    /\ client[s] = "open"
    /\ \E n \in 1 .. FileLines - sent[s] :
          /\ sent' = [sent EXCEPT ![s] = @ + n]
          /\ handler' = [handler EXCEPT ![s]["ingest"] =
                [Idle EXCEPT !.pc = "sent", !.chunk = SubSeq(WholeFile, sent[s] + 1, sent[s] + n)]]
    /\ client' = [client EXCEPT ![s] = "waiting"]
    /\ UNCHANGED <<live, stale, seq, pending, docs, restarts, source, header, folding,
                   historyVars>>

EndUpload(s) ==
    /\ client[s] = "open"
    /\ sent[s] = FileLines
    /\ handler[s]["end"].pc = "idle"
    /\ client' = [client EXCEPT ![s] = "ending"]
    /\ handler' = [handler EXCEPT ![s]["end"].pc = "sent"]
    /\ UNCHANGED <<live, stale, seq, pending, docs, restarts, source, header, folding,
                   sent, historyVars>>

(* A failed upload closes its session in the finally block.  (A repeated   *)
(* /ingest/end finds no session, so one at a time is enough.)              *)
CloseFailed(s) ==
    /\ client[s] = "failing"
    /\ handler[s]["end"].pc = "idle"
    /\ client' = [client EXCEPT ![s] = "failed"]
    /\ handler' = [handler EXCEPT ![s]["end"].pc = "sent"]
    /\ UNCHANGED <<live, stale, seq, pending, docs, restarts, source, header, folding,
                   sent, historyVars>>

(* Cancelled by the user, the file cannot be read, or a response is lost.  *)
StopWaiting(s) ==
    /\ client[s] \in {"open", "waiting", "ending"}
    /\ client' = [client EXCEPT ![s] = "failing"]
    /\ cancelled' = IF client[s] = "waiting" THEN cancelled \union {s} ELSE cancelled
    /\ UNCHANGED <<memoryVars, docs, restarts, source, header, folding, sent, crashed,
                   unsaved, overwritten>>

(* What the client makes of the answer to the request of handler h.        *)
Answered(s, h, ok) ==
    client' = [client EXCEPT ![s] =
        IF h = "ingest" /\ @ = "waiting" THEN IF ok THEN "open" ELSE "failing"
        ELSE IF h = "end" /\ @ = "ending" THEN "succeeded"
        ELSE @]

Finish(s, h, ok) ==
    /\ handler' = [handler EXCEPT ![s][h] = Idle]
    /\ Answered(s, h, ok)

-----------------------------------------------------------------------------
(* Handlers.                                                               *)

(* A request that has not reached the server may still be dropped.         *)
LoseRequest(s, h) ==
    /\ handler[s][h].pc = "sent"
    /\ handler' = [handler EXCEPT ![s][h] = Idle]
    /\ client' = [client EXCEPT ![s] = IF @ \in {"waiting", "ending"} THEN "failing" ELSE @]
    /\ UNCHANGED <<live, stale, seq, pending, docs, restarts, source, header, folding,
                   sent, historyVars>>

(* HandleIngest looks the session up and marks it active in one critical   *)
(* section; a missing session is an error.                                 *)
LookUp(s) ==
    /\ handler[s]["ingest"].pc = "sent"
    /\ IF s \in live
       THEN /\ stale' = stale \ {s}
            /\ handler' = [handler EXCEPT ![s]["ingest"].pc = "found"]
            /\ UNCHANGED client
       ELSE /\ Finish(s, "ingest", FALSE)
            /\ UNCHANGED stale
    /\ UNCHANGED <<live, seq, pending, docs, restarts, source, header, folding, sent,
                   historyVars>>

(* multilineFolder.Feed holds the last record back; a chunk that closes no *)
(* record is answered at once.                                             *)
Feed(s) ==
    /\ handler[s]["ingest"].pc = "found"
    /\ LET chunk == handler[s]["ingest"].chunk
           closed == Closed(folding[s], pending[s], chunk, header[s])
       IN  /\ pending' = [pending EXCEPT ![s] = HeldBack(folding[s], @, chunk, header[s])]
           /\ IF closed = << >>
              THEN Finish(s, "ingest", TRUE)
              ELSE /\ handler' = [handler EXCEPT ![s]["ingest"] = Working(closed)]
                   /\ UNCHANGED client
    /\ UNCHANGED <<live, stale, seq, docs, restarts, source, header, folding, sent,
                   historyVars>>

(* Faulty variant of EndSession: nothing is flushed.                       *)
EndWithoutFlush(s) ==
    /\ handler[s]["end"].pc = "sent"
    /\ live' = live \ {s}
    /\ Finish(s, "end", TRUE)
    /\ UNCHANGED <<stale, seq, pending, docs, restarts, source, header, folding, sent,
                   historyVars>>

(* HandleIngestEnd removes the session; an unknown session is a success.   *)
EndSession(s) ==
    /\ handler[s]["end"].pc = "sent"
    /\ live' = live \ {s}
    /\ IF s \in live
       THEN /\ handler' = [handler EXCEPT ![s]["end"].pc = "found"]
            /\ UNCHANGED client
       ELSE Finish(s, "end", TRUE)
    /\ UNCHANGED <<stale, seq, pending, docs, restarts, source, header, folding, sent,
                   historyVars>>

(* Faulty variants of ExpireStaleSessions: one drops what the folders hold *)
(* back, the other spares the sessions that hold something back.           *)
ExpireWithoutFlush ==
    /\ live \cap stale # {}
    /\ live' = live \ stale
    /\ UNCHANGED <<stale, seq, pending, handler, docs, restarts, uploadVars, historyVars>>

ExpireEmptySessions ==
    LET expired == {s \in live \cap stale : pending[s] = << >>}
    IN  /\ expired # {}
        /\ live' = live \ expired
        /\ UNCHANGED <<stale, seq, pending, handler, docs, restarts, uploadVars, historyVars>>

(* expireStaleSessions takes every stale session out of the map at once    *)
(* and then flushes them one by one; one goroutine runs the sweeps.        *)
ExpireStaleSessions ==
    /\ \A s \in Session : handler[s]["sweep"].pc = "idle"
    /\ live \cap stale # {}
    /\ live' = live \ stale
    /\ handler' = [s \in Session |->
          IF s \in live \cap stale THEN [handler[s] EXCEPT !["sweep"].pc = "found"]
          ELSE handler[s]]
    /\ UNCHANGED <<stale, seq, pending, docs, restarts, uploadVars, historyVars>>

(* flushSessionMultiline, up to the records to store.                      *)
Flush(s, h) ==
    /\ h \in {"end", "sweep"}
    /\ handler[s][h].pc = "found"
    /\ h = "sweep" => \A t \in Session : handler[t]["sweep"].pc # "working"
    /\ pending' = [pending EXCEPT ![s] = << >>]
    /\ IF pending[s] = << >>
       THEN Finish(s, h, TRUE)
       ELSE /\ handler' = [handler EXCEPT ![s][h] = Working(<<pending[s]>>)]
            /\ UNCHANGED client
    /\ UNCHANGED <<live, stale, seq, docs, restarts, source, header, folding, sent,
                   historyVars>>

(* Faulty variant of PostProcess: numbers start again with every request.  *)
NumberPerRequest(s, h) ==
    /\ handler[s][h].pc = "working"
    /\ handler[s][h].records # << >>
    /\ LET row == [session |-> s, source |-> source[s], seq |-> Len(handler[s][h].rows) + 1,
                   lines |-> Head(handler[s][h].records)]
       IN  handler' = [handler EXCEPT ![s][h].records = Tail(@), ![s][h].rows = Append(@, row)]
    /\ UNCHANGED <<live, stale, seq, pending, docs, restarts, uploadVars, historyVars>>

(* postProcess numbers record after record with seq.Add(1), which two      *)
(* handlers of a session may do in turns.                                  *)
PostProcess(s, h) ==
    /\ handler[s][h].pc = "working"
    /\ handler[s][h].records # << >>
    /\ seq' = [seq EXCEPT ![s] = @ + 1]
    /\ LET row == [session |-> s, source |-> source[s], seq |-> seq[s] + 1,
                   lines |-> Head(handler[s][h].records)]
       IN  handler' = [handler EXCEPT ![s][h].records = Tail(@), ![s][h].rows = Append(@, row)]
    /\ UNCHANGED <<live, stale, pending, docs, restarts, uploadVars, historyVars>>

DocID(row) == <<row.source, row.seq>>

(* The rows of one Store call; the index replaces documents of equal id.   *)
Put(rows) ==
    LET old == {d \in docs : \E r \in rows : DocID(d) = DocID(r)}
    IN  /\ docs' = (docs \ old) \union rows
        /\ overwritten' = overwritten \union old

LinesOf(rows) == UNION {ToSet(r.lines) : r \in rows}

(* Storage.Store: an error may leave the part written of the rows of some  *)
(* days stored.  /ingest/logs reports it, the two flushes only log it.     *)
Store(s, h) ==
    /\ handler[s][h].pc = "working"
    /\ handler[s][h].records = << >>
    /\ LET rows == ToSet(handler[s][h].rows)
       IN  \E written \in SUBSET rows :
              /\ Put(written)
              /\ unsaved' = [unsaved EXCEPT ![s] = @ \union LinesOf(rows \ written)]
              /\ Finish(s, h, h # "ingest" \/ written = rows)
    /\ UNCHANGED <<live, stale, seq, pending, restarts, source, header, folding, sent,
                   cancelled, crashed>>

(* SessionTimeout passes without a request.  Sixty minutes are longer than *)
(* any request runs, so no request of the session is at work.              *)
GoStale(s) ==
    /\ s \in live \ stale
    /\ handler[s]["ingest"].pc \in {"idle", "sent"}
    /\ stale' = stale \union {s}
    /\ UNCHANGED <<live, seq, pending, handler, docs, restarts, uploadVars, historyVars>>

(* A crash keeps the store; the sessions, their folders and the requests   *)
(* at work are gone.                                                       *)
Crash ==
    /\ restarts < MaxRestarts
    /\ restarts' = restarts + 1
    /\ live' = {}
    /\ pending' = [s \in Session |-> << >>]
    /\ handler' = [s \in Session |-> [h \in Handler |-> Idle]]
    /\ client' = [s \in Session |->
          IF client[s] \in {"waiting", "ending"} THEN "failing" ELSE client[s]]
    /\ crashed' = crashed \union {s \in Session : client[s] # "new"}
    /\ UNCHANGED <<stale, seq, docs, source, header, folding, sent, cancelled, unsaved,
                   overwritten>>

-----------------------------------------------------------------------------
ClientNext(s) ==
    StartUpload(s) \/ SendChunk(s) \/ EndUpload(s) \/ CloseFailed(s) \/ StopWaiting(s)

ServerNext(s) ==
    \/ LookUp(s) \/ Feed(s) \/ EndSession(s) \/ GoStale(s)
    \/ \E h \in Handler : Flush(s, h) \/ PostProcess(s, h) \/ Store(s, h)

Next ==
    \/ \E s \in Session : ClientNext(s) \/ ServerNext(s)
    \/ \E s \in Session, h \in {"ingest", "end"} : LoseRequest(s, h)
    \/ ExpireStaleSessions
    \/ Crash

Spec == Init /\ [][Next]_vars

(* The clock advances, the sweep's ticker fires, handlers run to their     *)
(* end.  Nothing is assumed of the browser.                                *)
Fairness ==
    /\ WF_vars(ExpireStaleSessions)
    /\ \A s \in Session :
          /\ WF_vars(LookUp(s)) /\ WF_vars(Feed(s)) /\ WF_vars(EndSession(s))
          /\ WF_vars(GoStale(s))
          /\ \A h \in Handler :
                WF_vars(Flush(s, h)) /\ WF_vars(PostProcess(s, h)) /\ WF_vars(Store(s, h))

FairSpec == Spec /\ Fairness

-----------------------------------------------------------------------------
(* Correctness.                                                            *)

Row == [session : Session, source : FileName, seq : Nat, lines : Seq(Line)]

TypeOK ==
    /\ live \subseteq Session
    /\ stale \subseteq Session
    /\ seq \in [Session -> Nat]
    /\ pending \in [Session -> Seq(Line)]
    /\ handler \in [Session -> [Handler ->
          [pc : {"idle", "sent", "found", "working"}, chunk : Seq(Line),
           records : Seq(Seq(Line)), rows : Seq(Row)]]]
    /\ docs \subseteq Row
    /\ restarts \in 0 .. MaxRestarts
    /\ client \in [Session ->
          {"new", "open", "waiting", "ending", "failing", "failed", "succeeded"}]
    /\ source \in [Session -> FileName]
    /\ header \in [Session -> SUBSET Line]
    /\ folding \in [Session -> BOOLEAN]
    /\ sent \in [Session -> 0 .. FileLines]
    /\ cancelled \subseteq Session
    /\ crashed \subseteq Session
    /\ unsaved \in [Session -> SUBSET Line]
    /\ overwritten \subseteq Row

Stored(s) == {d \in docs : d.session = s}

(* The places a line of a session can be in on its way to the store.       *)
Places(s) ==
    <<pending[s], FlattenSeq(SetToSeq({d.lines : d \in Stored(s)}))>>
    \o [i \in 1 .. 3 |->
          LET w == handler[s][<<"ingest", "end", "sweep">>[i]]
          IN  w.chunk \o FlattenSeq(w.records)
              \o FlattenSeq([k \in DOMAIN w.rows |-> w.rows[k].lines])]

(* A line is never in two places: the folder, which hands its held-back    *)
(* record to the next chunk, to the end of the session or to the sweep,    *)
(* never hands it to two of them, and no line becomes two documents.       *)
EachLineOnce ==
    \A s \in Session : IsInjective(FlattenSeq(Places(s)))

(* The sequence number keeps every line of an upload a document of its     *)
(* own, although all lines share a timestamp: storage.go says it "keeps    *)
(* every line a distinct document".  It does not when two uploaded files   *)
(* have one name: numbers start again with every session.                  *)
NothingOverwritten == overwritten = {}

(* A line of an upload is in one place, and its document stays its own.    *)
Consistent == TypeOK /\ EachLineOnce /\ NothingOverwritten

(* An upload that reports success, on a server that did not crash under    *)
(* it, has stored exactly the records of the file, cut at the headers and  *)
(* not at the chunks, numbered in file order, once the sweep that may have *)
(* got to the session before /ingest/end has flushed it.  What is missing  *)
(* was refused by the store while a flush only logged the error.           *)
SuccessStoresTheFile ==
    \A s \in Session : client[s] = "succeeded" /\ s \notin crashed =>
        /\ \A d \in Stored(s) : d.lines \in ToSet(FileRecords(s))
        /\ \A d, e \in Stored(s) : d.seq < e.seq => Last(d.lines) < e.lines[1]
        /\ (\A h \in Handler : handler[s][h].pc = "idle") =>
              LinesOf(Stored(s)) \union unsaved[s] = Line

(* A session that is over, and whose handlers have returned, holds no      *)
(* record back, whether /ingest/end or the sweep ended it; except when the *)
(* client left a chunk behind that was still at work.                      *)
NoRecordLeftBehind ==
    \A s \in Session :
        /\ s \notin live \union cancelled
        /\ \A h \in Handler : handler[s][h].pc = "idle"
        => pending[s] = << >>

(* Every session is over at some point, also when the browser is gone.     *)
SessionsEnd == \A s \in Session : s \in live ~> s \notin live

=============================================================================
