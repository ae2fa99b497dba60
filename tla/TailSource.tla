----------------------------- MODULE TailSource -----------------------------
(***************************************************************************)
(* The input side of a live source, handlers/live.go: followFile reads a   *)
(* file that a program writes and a log rotation renames or truncates,     *)
(* readStdin reads the lines a client streams.  Both feed the record       *)
(* folder and the store; what follows a store is LiveHub's.                *)
(*                                                                         *)
(* A line is written in two pieces, the second of which ends it, so that a *)
(* read may find half a line; the line as read is the sequence of pieces.  *)
(* Files are numbered as they are created.                                 *)
(***************************************************************************)
EXTENDS RecordFolder, FiniteSets

CONSTANTS
    MaxLines,   \* bound: lines the program or the client writes
    MaxFiles,   \* bound: files created at the path
    BatchLines  \* liveMaxBatchLines

ASSUME MaxLinesAssumption == MaxLines \in Nat \ {0}
ASSUME MaxFilesAssumption == MaxFiles \in Nat \ {0}
ASSUME BatchLinesAssumption == BatchLines \in Nat \ {0}

Number == 1 .. MaxLines
File == 1 .. MaxFiles
Piece == [line : Number, ends : BOOLEAN]
WholeLine(k) == <<[line |-> k, ends |-> FALSE], [line |-> k, ends |-> TRUE]>>

VARIABLES
    kind,       \* whether the source is a "file" or "stdin"
    folding,    \* whether it has a folder
    header,     \* lines that start a record
    \* The program that writes the log, or the client, and the file system.
    written,    \* lines written so far
    content,    \* what each file holds
    files,      \* files created so far
    path,       \* the file at the path, 0 when there is none
    out,        \* the file the program has open
    inLine,     \* it has written the first piece of a line only
    closed,     \* the client has ended its stream
    \* followFile.
    fd,         \* file
    info,       \* info: the file os.Stat last named
    offset,     \* offset
    pending,    \* pending
    \* readStdin.
    scanned,    \* lines the scanner has taken from the stream
    offered,    \* the line it offers on the channel, 0 when there is none
    eof,        \* it has closed the channel
    batch,      \* batch
    \* Both.
    pc,         \* where the goroutine is
    stopping,   \* s.ctx is done
    requestDone,\* the context of the stdin request is done
    held,       \* multilineFolder.pending
    status,     \* the status finish reported
    handed,     \* history: the records given to the store, in order
    refused,    \* history: the places of those that it refused
    taken,      \* history: lines read, in order
    home,       \* history: the file each line was written to, 0 for none
    before,     \* history: lines begun before the source opened the file
    overtaken,  \* history: the path changed between os.Stat and os.Open
    cut         \* history: "yes" when the open file was truncated, "missed"
                \* when that went unnoticed

sourceVars == <<kind, folding, header>>
writerVars == <<written, content, home, files, path, out, inLine, closed>>
fileVars == <<fd, info, offset, pending>>
stdinVars == <<scanned, offered, eof, batch>>
recordVars == <<held, handed, refused, taken>>
historyVars == <<before, overtaken, cut>>
controlVars == <<pc, stopping, requestDone, status>>
vars == <<sourceVars, writerVars, fileVars, stdinVars, recordVars, historyVars, controlVars>>

Init ==
    /\ kind \in {"file", "stdin"}
    /\ folding \in BOOLEAN
    /\ header \in (IF folding THEN SUBSET Number ELSE {{}})
    /\ written = 0
    /\ content = [f \in File |-> << >>]
    /\ files = 1
    /\ path = 1
    /\ out = 1
    /\ inLine = FALSE
    /\ closed = FALSE
    /\ fd = 0
    /\ info = 0
    /\ offset = 0
    /\ pending = << >>
    /\ scanned = 0
    /\ offered = 0
    /\ eof = FALSE
    /\ batch = << >>
    /\ pc = IF kind = "file" THEN "opening" ELSE "selecting"
    /\ stopping = FALSE
    /\ requestDone = FALSE
    /\ held = << >>
    /\ status = "running"
    /\ handed = << >>
    /\ refused = {}
    /\ taken = << >>
    /\ home = [k \in Number |-> 0]
    /\ before = 0
    /\ overtaken = FALSE
    /\ cut = "no"

-----------------------------------------------------------------------------
(* The program that writes the log, and the log rotation, for as long as   *)
(* the source runs.                                                        *)

Running == status = "running"

Write ==
    /\ Running
    /\ kind = "file"
    /\ inLine \/ written < MaxLines
    /\ written' = IF inLine THEN written ELSE written + 1
    /\ content' = [content EXCEPT ![out] = Append(@, [line |-> written', ends |-> inLine])]
    /\ home' = [home EXCEPT ![written'] = out]
    /\ inLine' = ~inLine
    /\ UNCHANGED <<sourceVars, files, path, out, closed, fileVars, stdinVars, recordVars,
                   historyVars, controlVars>>

(* Rotation by renaming: the program writes to the old file until it is    *)
(* told to open the new one.                                               *)
MoveAway ==
    /\ Running
    /\ kind = "file"
    /\ path # 0
    /\ path' = 0
    /\ UNCHANGED <<sourceVars, written, content, home, files, out, inLine, closed, fileVars,
                   stdinVars, recordVars, historyVars, controlVars>>

CreateFile ==
    /\ Running
    /\ path = 0
    /\ files < MaxFiles
    /\ files' = files + 1
    /\ path' = files + 1
    /\ overtaken' = (overtaken \/ pc = "reopening")
    /\ UNCHANGED <<sourceVars, written, content, home, out, inLine, closed, fileVars, stdinVars,
                   recordVars, before, cut, controlVars>>

ReopenLog ==
    /\ Running
    /\ path \notin {0, out}
    /\ ~inLine
    /\ out' = path
    /\ UNCHANGED <<sourceVars, written, content, home, files, path, inLine, closed, fileVars,
                   stdinVars, recordVars, historyVars, controlVars>>

(* Rotation by copying and truncating.                                     *)
Truncate ==
    /\ Running
    /\ kind = "file"
    /\ path # 0
    /\ content[path] # << >>
    /\ content' = [content EXCEPT ![path] = << >>]
    /\ cut' = IF fd = path /\ offset > 0 /\ cut = "no" THEN "yes" ELSE cut
    /\ UNCHANGED <<sourceVars, written, home, files, path, out, inLine, closed, fileVars,
                   stdinVars, recordVars, before, overtaken, controlVars>>

-----------------------------------------------------------------------------
(* processLines, flushMultiline and finish.                                *)

Opens(lines) == {line \in ToSet(lines) : line[1].line \in header /\ ~line[1].ends}

Finish(st) == pc' = "finished" /\ status' = st

(* Lines are folded and the records they complete stored; an error of the  *)
(* store ends the source with what is held back.                           *)
ProcessLines(lines, accepted) ==
    LET records == IF lines = << >> THEN << >> ELSE Closed(folding, held, lines, Opens(lines))
    IN  /\ records = << >> => accepted
        /\ held' = IF lines = << >> THEN held ELSE HeldBack(folding, held, lines, Opens(lines))
        /\ handed' = handed \o records
        /\ refused' = IF accepted THEN refused ELSE refused \union Len(handed) + 1 .. Len(handed')

(* The record held back is stored; an error is only logged.                *)
FlushMultiline(accepted) ==
    /\ held = << >> => accepted
    /\ held' = << >>
    /\ handed' = IF held # << >> THEN Append(handed, held) ELSE handed
    /\ refused' = IF accepted THEN refused ELSE refused \union {Len(handed')}

-----------------------------------------------------------------------------
(* followFile.                                                             *)

(* It starts at the end of the file.                                       *)
OpenTailFile ==
    /\ pc = "opening"
    /\ IF path = 0
       THEN /\ Finish("error")
            /\ UNCHANGED fileVars
       ELSE /\ fd' = path
            /\ info' = path
            /\ offset' = Len(content[path])
            /\ pc' = "selecting"
            /\ UNCHANGED <<pending, status>>
    /\ before' = written
    /\ UNCHANGED <<sourceVars, writerVars, stdinVars, recordVars, overtaken, cut, stopping,
                   requestDone>>

(* Faulty variant of FileChanged: a new file is noticed only if shorter.   *)
FileShrunk == path # 0 /\ Len(content[path]) < offset

FileChanged == path # 0 /\ (Len(content[path]) < offset \/ path # info)

(* Faulty variant of TickRotated: info stays what it was.                  *)
TickKeepingInfo(accepted) ==
    /\ pc = "selecting"
    /\ kind = "file"
    /\ FileChanged
    /\ FlushMultiline(accepted)
    /\ pc' = "reopening"
    /\ UNCHANGED <<sourceVars, writerVars, fileVars, stdinVars, taken, historyVars, stopping,
                   requestDone, status>>

(* A tick that notices a rotation flushes the folder and goes on to open   *)
(* the file at the path; what is unread of the old one is left.            *)
TickRotated(accepted) ==
    /\ pc = "selecting"
    /\ kind = "file"
    /\ FileChanged
    /\ FlushMultiline(accepted)
    /\ info' = path
    /\ pc' = "reopening"
    /\ UNCHANGED <<sourceVars, writerVars, fd, offset, pending, stdinVars, taken,
                   historyVars, stopping, requestDone, status>>

Tick ==
    /\ pc = "selecting"
    /\ kind = "file"
    /\ ~FileChanged
    /\ pc' = "reading"
    /\ cut' = IF cut = "yes" THEN "missed" ELSE cut
    /\ UNCHANGED <<sourceVars, writerVars, fileVars, stdinVars, recordVars, before, overtaken,
                   stopping, requestDone, status>>

(* Faulty variant of OpenExistingTailFile: the half line is kept.          *)
ReopenKeepingPending ==
    /\ pc = "reopening"
    /\ path # 0
    /\ fd' = path
    /\ offset' = 0
    /\ pc' = "reading"
    /\ cut' = IF cut = "yes" THEN "no" ELSE cut
    /\ UNCHANGED <<sourceVars, writerVars, info, pending, stdinVars, recordVars, before, overtaken,
                   stopping, requestDone, status>>

OpenExistingTailFile ==
    /\ pc = "reopening"
    /\ path # 0
    /\ fd' = path
    /\ offset' = 0
    /\ pending' = << >>
    /\ pc' = "reading"
    /\ cut' = IF cut = "yes" THEN "no" ELSE cut
    /\ UNCHANGED <<sourceVars, writerVars, info, stdinVars, recordVars, before, overtaken, stopping,
                   requestDone, status>>

(* After twenty attempts.                                                  *)
GiveUp ==
    /\ pc = "reopening"
    /\ path = 0
    /\ Finish("error")
    /\ UNCHANGED <<sourceVars, writerVars, fileVars, stdinVars, recordVars, historyVars,
                   stopping, requestDone>>

(* splitCompleteLines: the lines a buffer completes, and the rest.         *)
AddPiece(s, piece) ==
    IF piece.ends THEN [lines |-> Append(s.lines, Append(s.rest, piece)), rest |-> << >>]
    ELSE [s EXCEPT !.rest = Append(@, piece)]

Split(buf) ==
    LET split[n \in 0 .. Len(buf)] ==
          IF n = 0 THEN [lines |-> << >>, rest |-> << >>] ELSE AddPiece(split[n - 1], buf[n])
    IN  split[Len(buf)]

Read(n, accepted) ==
    /\ pc = "reading"
    /\ offset + n <= Len(content[fd])
    /\ LET s == Split(pending \o SubSeq(content[fd], offset + 1, offset + n))
       IN  /\ pending' = s.rest
           /\ taken' = taken \o s.lines
           /\ ProcessLines(s.lines, accepted)
    /\ offset' = offset + n
    /\ IF accepted THEN UNCHANGED <<pc, status>> ELSE Finish("error")
    /\ cut' = IF cut = "yes" THEN "missed" ELSE cut
    /\ UNCHANGED <<sourceVars, writerVars, fd, info, stdinVars, before, overtaken, stopping,
                   requestDone>>

EndOfFile ==
    /\ pc = "reading"
    /\ offset >= Len(content[fd])
    /\ pc' = "selecting"
    /\ UNCHANGED <<sourceVars, writerVars, fileVars, stdinVars, recordVars, historyVars,
                   stopping, requestDone, status>>

ReadFails ==
    /\ pc = "reading"
    /\ Finish("error")
    /\ UNCHANGED <<sourceVars, writerVars, fileVars, stdinVars, recordVars, historyVars,
                   stopping, requestDone>>

-----------------------------------------------------------------------------
(* readStdin: the client, the scanning goroutine, the loop.                *)

SendLine ==
    /\ Running
    /\ kind = "stdin"
    /\ ~closed
    /\ written < MaxLines
    /\ written' = written + 1
    /\ UNCHANGED <<sourceVars, content, home, files, path, out, inLine, closed, fileVars,
                   stdinVars, recordVars, historyVars, controlVars>>

CloseStream ==
    /\ Running
    /\ kind = "stdin"
    /\ ~closed
    /\ closed' = TRUE
    /\ UNCHANGED <<sourceVars, written, content, home, files, path, out, inLine, fileVars,
                   stdinVars, recordVars, historyVars, controlVars>>

(* The client goes away: the request's context is cancelled.               *)
Disconnect ==
    /\ Running
    /\ kind = "stdin"
    /\ ~closed
    /\ ~requestDone
    /\ requestDone' = TRUE
    /\ UNCHANGED <<sourceVars, writerVars, fileVars, stdinVars, recordVars, historyVars, pc,
                   stopping, status>>

Scan ==
    /\ Running
    /\ kind = "stdin"
    /\ ~eof
    /\ offered = 0
    /\ scanned < written
    /\ scanned' = scanned + 1
    /\ offered' = scanned'
    /\ UNCHANGED <<sourceVars, writerVars, fileVars, eof, batch, recordVars, historyVars,
                   controlVars>>

(* The end of the stream, a line that is too long, a failed read, or, with *)
(* a line on offer, the end of the request.                                *)
ScannerEnds ==
    /\ Running
    /\ kind = "stdin"
    /\ ~eof
    /\ requestDone \/ offered = 0
    /\ eof' = TRUE
    /\ offered' = 0
    /\ UNCHANGED <<sourceVars, writerVars, fileVars, scanned, batch, recordVars, historyVars,
                   controlVars>>

FlushBatch(lines, accepted) ==
    /\ ProcessLines(lines, accepted)
    /\ batch' = << >>

Receive(accepted) ==
    /\ pc = "selecting"
    /\ offered # 0
    /\ taken' = Append(taken, WholeLine(offered))
    /\ LET lines == Append(batch, WholeLine(offered))
       IN  IF Len(lines) >= BatchLines
           THEN /\ FlushBatch(lines, accepted)
                /\ IF accepted THEN UNCHANGED <<pc, status>> ELSE Finish("error")
           ELSE /\ accepted
                /\ batch' = lines
                /\ UNCHANGED <<held, handed, refused, pc, status>>
    /\ offered' = 0
    /\ UNCHANGED <<sourceVars, writerVars, fileVars, scanned, eof, historyVars, stopping,
                   requestDone>>

TickBatch(accepted) ==
    /\ pc = "selecting"
    /\ batch # << >>
    /\ FlushBatch(batch, accepted)
    /\ IF accepted THEN UNCHANGED <<pc, status>> ELSE Finish("error")
    /\ UNCHANGED <<sourceVars, writerVars, fileVars, scanned, offered, eof, taken,
                   historyVars, stopping, requestDone>>

(* Faulty variant of EndOfInput: the batch is forgotten.                   *)
EndWithoutBatch(accepted) ==
    /\ pc = "selecting"
    /\ kind = "stdin"
    /\ eof \/ requestDone
    /\ batch' = << >>
    /\ UNCHANGED <<held, handed, refused>>
    /\ pc' = "draining"
    /\ UNCHANGED <<sourceVars, writerVars, fileVars, scanned, offered, eof, taken,
                   historyVars, stopping, requestDone, status>>

(* The channel is closed or the client disconnected: the batch is          *)
(* processed, then the folder flushed.                                     *)
EndOfInput(accepted) ==
    /\ pc = "selecting"
    /\ kind = "stdin"
    /\ eof \/ requestDone
    /\ FlushBatch(batch, accepted)
    /\ IF accepted THEN pc' = "draining" /\ UNCHANGED status ELSE Finish("error")
    /\ UNCHANGED <<sourceVars, writerVars, fileVars, scanned, offered, eof, taken,
                   historyVars, stopping, requestDone>>

-----------------------------------------------------------------------------
(* Stopping.                                                               *)

(* StopSource or Shutdown; a stdin source cancels its request too.         *)
Stop ==
    /\ Running
    /\ ~stopping
    /\ stopping' = TRUE
    /\ requestDone' = (requestDone \/ kind = "stdin")
    /\ UNCHANGED <<sourceVars, writerVars, fileVars, stdinVars, recordVars, historyVars, pc,
                   status>>

(* flushMultiline and finish: s.ctx is done, or stdin has nothing more.  A *)
(* stream that was not read to its end may be the error of the scanner.    *)
FinishFlushed(accepted) ==
    /\ (pc = "selecting" /\ stopping) \/ pc = "draining"
    /\ FlushMultiline(accepted)
    /\ \/ /\ pc = "selecting" \/ requestDone \/ (closed /\ scanned = written)
          /\ Finish("stopped")
       \/ /\ pc = "draining" /\ eof /\ ~(closed /\ scanned = written)
          /\ Finish("error")
    /\ UNCHANGED <<sourceVars, writerVars, fileVars, stdinVars, taken, historyVars, stopping,
                   requestDone>>

-----------------------------------------------------------------------------
Rotate == MoveAway \/ CreateFile \/ ReopenLog \/ Truncate

FollowFile ==
    \/ OpenTailFile \/ Tick \/ OpenExistingTailFile \/ GiveUp \/ EndOfFile \/ ReadFails
    \/ \E accepted \in BOOLEAN :
          TickRotated(accepted) \/ \E n \in 1 .. 2 * MaxLines : Read(n, accepted)

ReadStdin ==
    \/ Scan \/ ScannerEnds
    \/ \E accepted \in BOOLEAN : Receive(accepted) \/ TickBatch(accepted) \/ EndOfInput(accepted)

Client == SendLine \/ CloseStream \/ Disconnect

Next ==
    \/ Write \/ Rotate \/ Client \/ Stop
    \/ FollowFile \/ ReadStdin
    \/ \E accepted \in BOOLEAN : FinishFlushed(accepted)

Spec == Init /\ [][Next]_vars

(* The ticker goes on firing and the goroutines of a source run.  Nothing  *)
(* is assumed of the program, the rotation or the client.                  *)
Fairness ==
    /\ WF_vars(FollowFile)
    /\ WF_vars(ReadStdin)
    /\ SF_vars(\E accepted \in BOOLEAN : FinishFlushed(accepted))

FairSpec == Spec /\ Fairness

-----------------------------------------------------------------------------
(* Correctness.                                                            *)

Line == Seq(Piece)

TypeOK ==
    /\ kind \in {"file", "stdin"}
    /\ folding \in BOOLEAN
    /\ header \subseteq Number
    /\ written \in 0 .. MaxLines
    /\ content \in [File -> Seq(Piece)]
    /\ files \in File
    /\ path \in {0} \union File
    /\ out \in File
    /\ inLine \in BOOLEAN /\ closed \in BOOLEAN /\ eof \in BOOLEAN
    /\ fd \in {0} \union File
    /\ info \in {0} \union File
    /\ offset \in 0 .. 2 * MaxLines
    /\ pending \in Seq([line : Number, ends : {FALSE}])
    /\ scanned \in 0 .. written
    /\ offered \in 0 .. scanned
    /\ batch \in Seq(Line) /\ Len(batch) < BatchLines
    /\ pc \in {"opening", "selecting", "reopening", "reading", "draining", "finished"}
    /\ stopping \in BOOLEAN /\ requestDone \in BOOLEAN /\ overtaken \in BOOLEAN
    /\ held \in Seq(Line)
    /\ status \in {"running", "stopped", "error"}
    /\ handed \in Seq(Seq(Line))
    /\ refused \subseteq DOMAIN handed
    /\ taken \in Seq(Line)
    /\ home \in [Number -> {0} \union File]
    /\ before \in 0 .. written
    /\ cut \in {"no", "yes", "missed"}

(* Every piece is read once, in the order it was written, through          *)
(* rotations by renaming and by truncating, and through half-written       *)
(* lines; unless the path is rotated again between the os.Stat that        *)
(* notices a rotation and the os.Open that follows, in which case info is  *)
(* of the file in between and the last file is read twice.                 *)
ReadInOrder ==
    LET pieces == FlattenSeq(taken) \o pending
        Place(i) == 2 * pieces[i].line + (IF pieces[i].ends THEN 1 ELSE 0)
    IN  ~overtaken => \A i, j \in DOMAIN pieces : i < j => Place(i) < Place(j)

(* A rotation separates: no line and no record is put together from what   *)
(* two files hold, although the folder and the pending half line outlive   *)
(* the file they come from.                                                *)
NothingSpansFiles ==
    \A record \in ToSet(handed) \union {held} :
        Cardinality({home[piece.line] : piece \in ToSet(FlattenSeq(record))}) <= 1

(* The state of a source keeps its types, and its records their file.      *)
Consistent == TypeOK /\ NothingSpansFiles

(* What was read is given to the store, in the order it was read, or still *)
(* on its way in the batch or the folder.  Of a source that has stopped    *)
(* nothing is on its way, but for a stdin source that was stopped by the   *)
(* server.  A stdin source does not go on when the store has refused       *)
(* something, and it is not said to be stopped unless that was the last    *)
(* record.                                                                 *)
TakenIsStored ==
    /\ taken = FlattenSeq(handed) \o held \o batch
    /\ status = "stopped" /\ (kind = "file" \/ ~stopping) => held \o batch = << >>
    /\ kind = "stdin" /\ status = "running" => refused = {}
    /\ kind = "stdin" /\ status = "stopped" => refused \subseteq {Len(handed)}

(* flushMultiline is there "so a source's final record isn't silently      *)
(* dropped just because nothing arrived to prove it was complete".         *)
FinalRecordIsStored ==
    status = "stopped" => ToSet(taken) \subseteq ToSet(FlattenSeq(handed))

(* The source of a file catches up with the file at the path, whichever    *)
(* rotations there were, if no truncation went unnoticed because the file  *)
(* had grown again; a stdin source reads what the client sends and ends    *)
(* with it; a source that is told to stop does.                            *)
Unread == {k \in before + 1 .. written :
             /\ kind = "stdin" \/ (path # 0 /\ ToSet(WholeLine(k)) \subseteq ToSet(content[path]))
             /\ WholeLine(k) \notin ToSet(taken)}
UpToDate ==
    \/ ~Running
    \/ /\ ~stopping /\ ~closed /\ ~requestDone
       /\ Unread = {} \/ cut = "missed"
EveryLineArrives == []<>UpToDate
=============================================================================
