---------------------------- MODULE ImportWizard ----------------------------
(***************************************************************************)
(* The import page: Import.tsx and its steps over useImportStore.ts.  The  *)
(* user adds files (FileSelection.tsx), a pattern is detected for each and *)
(* may be changed (FileAnalyzingStep.tsx), the timestamps are reviewed     *)
(* (TimestampToolbar.tsx), a custom pattern may be saved                   *)
(* (SavePatternDialog.tsx), the files are uploaded one after the other     *)
(* (useUpload.ts; IngestSession models one upload in full) and a summary   *)
(* returns to the log view.                                                *)
(*                                                                         *)
(* Every request may be answered late and in any order.  A multiline option*)
(* the server suggests is one the user might have set; a blank header      *)
(* pattern, which disables the import too, is left out.  The read of a     *)
(* preview, the suggest and the parse request of a detection are one step  *)
(* here, but for a read that fails; a preview of timestamps may            *)
(* answer any status, and the overrides of a timestamp are one knob, a     *)
(* number per edit.  The store's fields for a single file are left out.    *)
(***************************************************************************)
EXTENDS Naturals, SequencesExt

CONSTANTS
    Named,       \* patterns of the server
    None,        \* null
    Custom,      \* DEFAULT_PATTERN, the custom pattern
    MaxFiles,    \* bound: files added
    MaxWork      \* bound: runs, reads that fail, patterns tried, timestamp edits, previews and
                 \* uploads in all

ASSUME NullAssumption == None \notin Named /\ Custom \notin Named /\ Custom # None
ASSUME BoundsAssumption == MaxFiles \in Nat /\ MaxWork \in Nat

\* Ids, given out by generateFileId.
File == 1 .. MaxFiles
Pattern == Named \union {Custom}
Verdict == {"exact", "ambiguous", "missing"}

\* An ImportFile: rows is the pattern that parsedLogs is of, layout the status of
\* timestampInference; it is read when it has previewLines, and edited when
\* timestampOverrides has a key.
ImportFile ==
    [status : {"pending", "detecting", "detected", "failed"}, pattern : Pattern \union {None},
     custom : BOOLEAN, rows : Pattern \union {None}, layout : Verdict \union {None},
     read : BOOLEAN, edited : BOOLEAN, confirmed : BOOLEAN,
     upload : {"pending", "uploading", "success", "failed"}]

VARIABLES
    page,       \* Import is mounted
    step,       \* currentStep
    files,      \* ids of files
    file,       \* the ImportFile of each id
    used,       \* fileIdCounter
    activeFile, \* activeFileId
    redetect,   \* the timer of the multiline effect is armed
    allDetecting, \* allDetecting
    reading,    \* a first file is read for its preview
    runs,       \* detection runs: the files left, those it found without a preview,
                \* and whether it waits for ever
    changes,    \* patterns being tried
    previews,   \* timestamp previews in flight
    work,       \* history: work done, at most MaxWork
    dialog,     \* showSaveDialog
    dialogShown, \* showSaveDialogShown
    saving,     \* a pattern is being saved, for these files
    uploading,  \* isUploading
    uploads,    \* uploads going on, in their order: the files left, whether aborted
    seen,       \* history: files whose timestamps the user has confirmed as they are
    late        \* history: the dialog has gone while it saved

importVars == <<step, files, file, activeFile, uploading>>
detectVars == <<redetect, allDetecting, runs>>
requestVars == <<changes, previews>>
dialogVars == <<dialog, dialogShown, saving, late>>
wizardVars ==
    <<page, importVars, used, reading, detectVars, requestVars, dialogVars, uploads, work, seen>>

NewFile == [status |-> "pending", pattern |-> None, custom |-> FALSE, rows |-> None,
            layout |-> None, read |-> FALSE, edited |-> FALSE, confirmed |-> FALSE,
            upload |-> "pending"]

WizardInit ==
    /\ page = TRUE
    /\ step = 1
    /\ files = << >>
    /\ file = [f \in File |-> NewFile]
    /\ used = 0
    /\ activeFile = None
    /\ redetect = FALSE
    /\ allDetecting = FALSE
    /\ reading = FALSE
    /\ runs = {}
    /\ changes = {}
    /\ previews = {}
    /\ work = 0
    /\ dialog = FALSE
    /\ dialogShown = FALSE
    /\ saving = None
    /\ uploading = FALSE
    /\ uploads = << >>
    /\ seen = {}
    /\ late = FALSE

-----------------------------------------------------------------------------
Work == work < MaxWork /\ work' = work + 1

\* A number no other request of the set has.
Fresh(requests) == Min({n \in 1 .. MaxWork : \A r \in requests : r.id # n})

Listed == ToSet(files)
Analyzing == page /\ step = 2 /\ ~uploading /\ files # << >>
Usable == Analyzing /\ ~dialog

(* fileNeedsConfirmation.                                                  *)
NeedsConfirmation(f) == file[f].layout \in {"ambiguous", "missing"} /\ ~file[f].confirmed

IsNextDisabled ==
    \/ uploading
    \/ step = 1 /\ files = << >>
    \/ step = 2 /\ \E f \in Listed : \/ file[f].pattern = None
                                     \/ file[f].status \in {"pending", "detecting"}
                                     \/ NeedsConfirmation(f)

-----------------------------------------------------------------------------
(* Detection runs.                                                         *)

(* runAllDetections as it begins, for the files todo.                      *)
NewRun(todo, base) ==
    [id |-> Fresh(runs), todo |-> todo, here |-> TRUE,
     unread |-> {f \in ToSet(todo) : ~base[f].read}, hung |-> FALSE]

(* Faulty variant of StartRun: it skips a file that has a pattern.         *)
StartRunOfNew(listed, base) ==
    /\ Work
    /\ LET todo == SelectSeq(listed, LAMBDA f : f = listed[1] \/ base[f].pattern = None)
       IN  runs' = runs \union {NewRun(todo, base)}
    /\ allDetecting' = TRUE
    /\ file' = [f \in File |-> IF f \in ToSet(listed) THEN [base[f] EXCEPT !.status = "detecting"]
                               ELSE base[f]]

(* The start of runAllDetections: all files are marked, and detected one   *)
(* after the other.                                                        *)
StartRun(listed, base) ==
    /\ Work
    /\ runs' = runs \union {NewRun(listed, base)}
    /\ allDetecting' = TRUE
    /\ file' = [f \in File |-> IF f \in ToSet(listed) THEN [base[f] EXCEPT !.status = "detecting"]
                               ELSE base[f]]

(* FileAnalyzingStep is mounted: with files it detects.                    *)
MountAnalyzing(listed, base) ==
    /\ redetect' = FALSE
    /\ \/ listed # << >> /\ StartRun(listed, base)
       \/ listed = << >> /\ allDetecting' = FALSE /\ file' = base /\ UNCHANGED <<runs, work>>

(* FileAnalyzingStep is unmounted, if it was there: its runs go on.        *)
UnmountAnalyzing ==
    /\ redetect' = (redetect /\ ~Analyzing)
    /\ allDetecting' = (allDetecting /\ ~Analyzing)
    /\ runs' = IF Analyzing THEN {[r EXCEPT !.here = FALSE] : r \in runs} ELSE runs

(* The end of runAllDetections makes the file that needs attention active. *)
ChooseActive(f, upd) ==
    LET Doubtful(g) == upd[g].layout \in {"ambiguous", "missing"}
        Failed(g) == upd[g].status = "failed"
        First(Test(_)) == files[SelectInSeq(files, Test)]
    IN  activeFile' = IF \E g \in Listed : Doubtful(g) THEN First(Doubtful)
                      ELSE IF \E g \in Listed : Failed(g) THEN First(Failed)
                      ELSE IF files # << >> THEN files[1] ELSE activeFile

(* updateFile; an id that is gone is ignored.                              *)
Updated(f, rec) == [file EXCEPT ![f] = IF f \in Listed THEN rec ELSE file[f]]

(* setFileTimestampInference: "exact" needs no confirmation.               *)
WithInference(rec, verdict) ==
    [rec EXCEPT !.layout = verdict, !.confirmed = (verdict = "exact")]

(* One file of a run is done: the server found pattern p, with a verdict   *)
(* on the timestamps or none, or it found none (Custom), or a request      *)
(* failed or the file has no lines (None).  After the last file, the end   *)
(* of runAllDetections.                                                    *)
DetectionAnswered(r, p, verdict) ==
    LET f == Head(r.todo)
        found == [file[f] EXCEPT !.pattern = p, !.rows = p, !.status = "detected", !.read = TRUE]
        lost == [file[f] EXCEPT !.pattern = Custom, !.custom = TRUE, !.status = "failed",
                                !.read = (@ \/ p = Custom)]
        upd == Updated(f, IF p \notin Named THEN lost
                          ELSE IF verdict = None THEN found ELSE WithInference(found, verdict))
    IN  /\ ~r.hung
        /\ p \notin Named => verdict = None
        /\ file' = upd
        /\ seen' = IF verdict = None THEN seen ELSE seen \ {f}
        /\ UNCHANGED redetect
        /\ \/ /\ Len(r.todo) > 1
              /\ runs' = (runs \ {r}) \union {[r EXCEPT !.todo = Tail(r.todo), !.unread = r.unread \ {f}]}
              /\ UNCHANGED <<activeFile, allDetecting>>
           \/ /\ Len(r.todo) = 1
              /\ runs' = runs \ {r}
              /\ ChooseActive(f, upd)
              /\ allDetecting' = (allDetecting /\ ~r.here)
        /\ UNCHANGED <<page, step, files, used, reading, requestVars, work, dialogVars,
                       uploading, uploads>>

(* A file the run found without a preview is read first.  When that fails  *)
(* nothing tells the run, which waits for the lines for ever.              *)
ReadFails(r) ==
    /\ Work
    /\ ~r.hung
    /\ Head(r.todo) \in r.unread
    /\ runs' = (runs \ {r}) \union {[r EXCEPT !.unread = {}, !.hung = TRUE]}
    /\ UNCHANGED <<page, importVars, used, reading, redetect, allDetecting, requestVars,
                   dialogVars, uploads, seen>>

(* "Re-detect all".                                                        *)
Redetect ==
    /\ Usable /\ ~allDetecting
    /\ StartRun(files, file)
    /\ UNCHANGED <<page, step, files, used, activeFile, redetect, reading, requestVars,
                   dialogVars, uploading, uploads, seen>>

(* IngestSessionOptions: another multiline option, for all files.          *)
SetMultiline ==
    /\ Usable
    /\ redetect' = TRUE
    /\ UNCHANGED <<page, importVars, used, reading, allDetecting, runs, work, requestVars,
                   dialogVars, uploads, seen>>

(* The timer of the multiline effect does not wait for a run.              *)
RedetectFires ==
    /\ redetect /\ Analyzing
    /\ StartRun(files, file)
    /\ redetect' = FALSE
    /\ UNCHANGED <<page, step, files, used, activeFile, reading, requestVars, dialogVars,
                   uploading, uploads, seen>>

-----------------------------------------------------------------------------
(* The first step.                                                         *)

(* processFiles: the first file is read for a preview, which leads to the  *)
(* next step; files added to it lead there at once.                        *)
AddFiles(n) ==
    /\ page /\ step = 1
    /\ used + n <= MaxFiles
    /\ used' = used + n
    /\ files' = files \o [i \in 1 .. n |-> used + i]
    /\ \/ files = << >> /\ reading' = TRUE /\ UNCHANGED <<step, file, detectVars, work>>
       \/ files # << >> /\ step' = 2 /\ MountAnalyzing(files', file) /\ UNCHANGED reading
    /\ UNCHANGED <<page, activeFile, requestVars, dialogVars, uploading, uploads, seen>>

RemoveFile(f) ==
    /\ page /\ step = 1
    /\ \E i \in DOMAIN files : files[i] = f /\ files' = RemoveAt(files, i)
    /\ activeFile' = IF activeFile = f THEN None ELSE activeFile
    /\ file' = [file EXCEPT ![f] = NewFile]
    /\ UNCHANGED <<page, step, used, reading, detectVars, requestVars, dialogVars,
                   uploading, uploads, work, seen>>

(* The preview is read, whatever the user has done since; with no lines,   *)
(* or when the read fails, it leads nowhere.                               *)
PreviewRead(empty) ==
    /\ reading
    /\ reading' = FALSE
    /\ \/ ~empty /\ step' = 2
          /\ IF page /\ step # 2 /\ ~uploading THEN MountAnalyzing(files, file)
             ELSE UNCHANGED <<file, detectVars, work>>
       \/ empty /\ UNCHANGED <<step, file, detectVars, work>>
    /\ UNCHANGED <<page, files, used, activeFile, requestVars, dialogVars, uploading,
                   uploads, seen>>

NextFromFiles ==
    /\ page /\ step = 1
    /\ ~IsNextDisabled
    /\ step' = 2
    /\ MountAnalyzing(files, file)
    /\ UNCHANGED <<page, files, used, activeFile, reading, requestVars, dialogVars,
                   uploading, uploads, seen>>

-----------------------------------------------------------------------------
(* Patterns.                                                               *)

(* handleFilePatternChange, also behind the custom editor and "Test".      *)
ChangePattern(f, p) ==
    /\ Usable /\ f \in Listed
    /\ Work
    /\ changes' = changes \union {[id |-> Fresh(changes), file |-> f, pattern |-> p]}
    /\ file' = [file EXCEPT ![f].status = "detecting"]
    /\ UNCHANGED <<page, step, files, used, activeFile, reading, detectVars, previews,
                   dialogVars, uploading, uploads, seen>>

(* Faulty variant of ChangeAnswered: the rows stay.                        *)
ChangeKeepingRows(c, ok) ==
    /\ changes' = changes \ {c}
    /\ file' = Updated(c.file, [file[c.file] EXCEPT
                  !.pattern = c.pattern, !.custom = (c.pattern = Custom),
                  !.status = IF ok THEN "detected" ELSE "failed"])
    /\ UNCHANGED <<page, step, files, used, activeFile, reading, detectVars, previews,
                   dialogVars, uploading, uploads, work, seen>>

(* The timestamps are not inferred again; rows of a pattern that failed    *)
(* stay beside it.                                                         *)
ChangeAnswered(c, ok) ==
    /\ changes' = changes \ {c}
    /\ file' = Updated(c.file, [file[c.file] EXCEPT
                  !.pattern = c.pattern, !.custom = (c.pattern = Custom),
                  !.rows = IF ok THEN c.pattern ELSE @,
                  !.status = IF ok THEN "detected" ELSE "failed"])
    /\ UNCHANGED <<page, step, files, used, activeFile, reading, detectVars, previews,
                   dialogVars, uploading, uploads, work, seen>>

-----------------------------------------------------------------------------
(* Timestamps.  The toolbar stands in any card with rows, and is about the *)
(* active file.                                                            *)

ToolbarShown ==
    /\ Usable
    /\ activeFile # None /\ file[activeFile].layout # None
    /\ \E f \in Listed : file[f].status = "detected"

(* Faulty variant of PatchOverride: the confirmation stays.                *)
PatchKeepingConfirmed ==
    /\ ToolbarShown
    /\ Work
    /\ file' = [file EXCEPT ![activeFile].edited = TRUE]
    /\ seen' = seen \ {activeFile}
    /\ UNCHANGED <<page, step, files, used, activeFile, reading, detectVars, changes,
                   previews, dialogVars, uploading, uploads>>

PatchOverride ==
    /\ ToolbarShown
    /\ Work
    /\ file' = [file EXCEPT ![activeFile].edited = TRUE, ![activeFile].confirmed = FALSE]
    /\ seen' = seen \ {activeFile}
    /\ UNCHANGED <<page, step, files, used, activeFile, reading, detectVars, changes,
                   previews, dialogVars, uploading, uploads>>

(* "Reset to auto".                                                        *)
ResetOverrides ==
    /\ ToolbarShown
    /\ file[activeFile].edited
    /\ file' = [file EXCEPT ![activeFile].edited = FALSE, ![activeFile].confirmed = FALSE]
    /\ seen' = seen \ {activeFile}
    /\ UNCHANGED <<page, step, files, used, activeFile, reading, detectVars, requestVars,
                   dialogVars, uploading, uploads, work>>

(* "Looks correct".                                                        *)
Confirm ==
    /\ ToolbarShown
    /\ NeedsConfirmation(activeFile)
    /\ file' = [file EXCEPT ![activeFile].confirmed = TRUE]
    /\ seen' = seen \union {activeFile}
    /\ UNCHANGED <<page, step, files, used, activeFile, reading, detectVars, requestVars,
                   dialogVars, uploading, uploads, work>>

(* applyTimestampToAllFiles: the edits go to the other files, and with     *)
(* them a confirmation, but for a file without timestamps.                 *)
ApplyToAll ==
    /\ ToolbarShown
    /\ Len(files) > 1
    /\ LET others == Listed \ {activeFile}
       IN  /\ file' = [f \in File |->
                          IF f \in others
                          THEN [file[f] EXCEPT !.edited = file[activeFile].edited,
                                              !.confirmed = file[activeFile].confirmed
                                                            /\ file[f].layout # "missing"]
                          ELSE file[f]]
           /\ seen' = {f \in seen : f \notin others}
                      \union (IF file[activeFile].confirmed
                              THEN {f \in others : file[f].layout # "missing"} ELSE {})
    /\ UNCHANGED <<page, step, files, used, activeFile, reading, detectVars, requestVars,
                   dialogVars, uploading, uploads, work>>

(* The debounced effect, which also runs when a card is opened: what it    *)
(* asks for is `effective'.                                                *)
Preview ==
    /\ ToolbarShown
    /\ file[activeFile].edited
    /\ Work
    /\ previews' = previews \union {[id |-> Fresh(previews), file |-> activeFile]}
    /\ UNCHANGED <<page, step, files, file, used, activeFile, reading, detectVars, changes,
                   dialogVars, uploading, uploads, seen>>

(* setInferenceForActive, for the file that was active when it was asked.  *)
PreviewAnswered(q, verdict) ==
    /\ previews' = previews \ {q}
    /\ IF verdict = None THEN UNCHANGED <<file, seen>>
       ELSE /\ file' = Updated(q.file, WithInference(file[q.file], verdict))
            /\ seen' = seen \ {q.file}
    /\ UNCHANGED <<page, step, files, used, activeFile, reading, detectVars, changes,
                   dialogVars, uploading, uploads, work>>

-----------------------------------------------------------------------------
(* The upload.                                                             *)

(* proceedWithImport up to its await: handleMultiFileUpload begins with    *)
(* the files it was given.                                                 *)
Proceed(listed) ==
    \/ /\ listed # << >>
       /\ Work
       /\ uploads' = Append(uploads, [todo |-> listed, here |-> page, aborted |-> FALSE])
       /\ uploading' = TRUE
       /\ file' = Updated(listed[1], [file[listed[1]] EXCEPT !.upload = "uploading"])
       /\ UnmountAnalyzing
    \/ listed = << >> /\ UNCHANGED <<uploading, uploads, file, detectVars, work>>

CustomFiles == {f \in Listed : file[f].custom}

(* handleNext at the second step: a custom pattern may be saved first, and *)
(* the import goes on when the dialog closes.                              *)
NextFromPatterns ==
    /\ Usable
    /\ ~IsNextDisabled
    /\ \/ /\ ~dialogShown /\ CustomFiles # {}
          /\ dialog' = TRUE
          /\ dialogShown' = TRUE
          /\ UNCHANGED <<uploading, uploads, file, detectVars, work>>
       \/ /\ dialogShown \/ CustomFiles = {}
          /\ Proceed(files)
          /\ UNCHANGED <<dialog, dialogShown>>
    /\ UNCHANGED <<page, step, files, used, activeFile, reading, requestVars, saving, late,
                   seen>>

(* savePattern up to its await.                                            *)
SavePattern ==
    /\ dialog /\ saving = None
    /\ saving' = files
    /\ UNCHANGED <<page, importVars, used, reading, detectVars, requestVars, dialog, dialogShown,
                   late, uploads, work, seen>>

(* The answer to it.  Once saved, onClose runs, even when the dialog has   *)
(* gone, with the files there were.                                        *)
PatternSaved(ok) ==
    /\ saving # None
    /\ saving' = None
    /\ \/ ok /\ dialog' = FALSE /\ Proceed(saving)
       \/ ~ok /\ UNCHANGED <<dialog, uploading, uploads, file, detectVars, work>>
    /\ UNCHANGED <<page, step, files, used, activeFile, reading, requestVars, dialogShown,
                   late, seen>>

(* onClose: "Skip & Continue", the close button or Escape.                 *)
CloseDialog ==
    /\ dialog
    /\ dialog' = FALSE
    /\ late' = (late \/ saving # None)
    /\ Proceed(files)
    /\ UNCHANGED <<page, step, files, used, activeFile, reading, requestVars, dialogShown,
                   saving, seen>>

(* The upload a hook can abort is the last it began.                       *)
Aborted ==
    LET last == SelectLastInSeq(uploads, LAMBDA u : u.here)
    IN  IF last = 0 THEN uploads ELSE [uploads EXCEPT ![last].aborted = TRUE]

(* Faulty variant of CancelUpload: the page is free before the upload ends. *)
CancelAndGoOn ==
    /\ page /\ step = 2 /\ uploading
    /\ uploads' = Aborted
    /\ uploads' # uploads
    /\ uploading' = FALSE
    /\ UNCHANGED <<page, step, files, file, activeFile, used, reading, detectVars, requestVars,
                   dialogVars, work, seen>>

CancelUpload ==
    /\ page /\ step = 2 /\ uploading
    /\ uploads' = Aborted
    /\ uploads' # uploads
    /\ UNCHANGED <<page, importVars, used, reading, detectVars, requestVars, dialogVars, work,
                   seen>>

(* The end of handleMultiFileUpload and the rest of proceedWithImport.     *)
FinishImport(i, upd) ==
    LET succeeded == \E f \in Listed : upd[f].upload = "success"
        u == uploads[i]
    IN  /\ uploads' = RemoveAt(uploads, i)
        /\ uploading' = FALSE
        /\ \/ /\ u.aborted /\ ~succeeded
              /\ step' = step
              /\ IF page /\ step = 2 /\ uploading THEN MountAnalyzing(files, upd)
                 ELSE file' = upd /\ UNCHANGED <<detectVars, work>>
           \/ /\ ~u.aborted \/ succeeded
              /\ step' = 3
              /\ file' = upd
              /\ UnmountAnalyzing
              /\ UNCHANGED work

(* A file of an upload is done; when aborted, so are all after it.         *)
FileUploaded(i, ok) ==
    LET u == uploads[i]
        rest == IF u.aborted THEN << >> ELSE Tail(u.todo)
        result == IF ok THEN "success" ELSE "failed"
        upd == [f \in File |->
                   IF f \notin Listed \/ f \notin ToSet(u.todo) THEN file[f]
                   ELSE IF f = Head(u.todo) THEN [file[f] EXCEPT !.upload = result]
                   ELSE IF rest = << >> THEN [file[f] EXCEPT !.upload = "failed"]
                   ELSE IF f = Head(rest) THEN [file[f] EXCEPT !.upload = "uploading"]
                   ELSE file[f]]
    IN  /\ \/ rest = << >> /\ FinishImport(i, upd)
           \/ /\ rest # << >>
              /\ uploads' = [uploads EXCEPT ![i].todo = rest]
              /\ file' = upd
              /\ UNCHANGED <<step, uploading, detectVars, work>>
        /\ UNCHANGED <<page, files, used, activeFile, reading, requestVars, dialogVars,
                       seen>>

-----------------------------------------------------------------------------
(* Ways out.                                                               *)

(* The store's reset.                                                      *)
ResetStore ==
    /\ step' = 1
    /\ files' = << >>
    /\ activeFile' = None
    /\ uploading' = FALSE
    /\ file' = [f \in File |-> NewFile]
    /\ seen' = {}

Back ==
    /\ page /\ step # 1 /\ ~uploading /\ ~dialog
    /\ ResetStore
    /\ UnmountAnalyzing
    /\ UNCHANGED <<page, used, reading, requestVars, dialogVars, uploads, work>>

(* Import is unmounted: the dialog goes with it, an upload is aborted.     *)
UnmountImport ==
    /\ page' = FALSE
    /\ dialog' = FALSE
    /\ dialogShown' = FALSE
    /\ late' = (late \/ saving # None)
    /\ uploads' = [i \in DOMAIN uploads |-> [Aborted[i] EXCEPT !.here = FALSE]]
    /\ UnmountAnalyzing
    /\ UNCHANGED <<used, reading, requestVars, saving, work>>

(* The user goes to another page; the store stays as it is.                *)
Leave ==
    /\ page
    /\ UnmountImport
    /\ UNCHANGED <<importVars, seen>>

(* "Home", or the countdown of the summary is over.                        *)
LeaveSummary ==
    /\ page /\ step = 3
    /\ ResetStore
    /\ UnmountImport

Return ==
    /\ ~page
    /\ page' = TRUE
    /\ IF step = 2 /\ ~uploading THEN MountAnalyzing(files, file)
       ELSE UNCHANGED <<file, detectVars, work>>
    /\ UNCHANGED <<step, files, used, activeFile, uploading, reading, requestVars,
                   dialogVars, uploads, seen>>

-----------------------------------------------------------------------------
Detection ==
    \/ Redetect \/ SetMultiline \/ RedetectFires
    \/ \E r \in runs : ReadFails(r)
    \/ \E r \in runs, p \in Pattern \union {None}, verdict \in Verdict \union {None} :
           DetectionAnswered(r, p, verdict)

FirstStep ==
    \/ \E n \in File : AddFiles(n)
    \/ \E f \in File : RemoveFile(f)
    \/ \E empty \in BOOLEAN : PreviewRead(empty)
    \/ NextFromFiles

Review ==
    \/ \E f \in File, p \in Pattern : ChangePattern(f, p)
    \/ \E c \in changes, ok \in BOOLEAN : ChangeAnswered(c, ok)
    \/ PatchOverride \/ ResetOverrides \/ Confirm \/ ApplyToAll \/ Preview
    \/ \E q \in previews, verdict \in Verdict \union {None} : PreviewAnswered(q, verdict)

Upload ==
    \/ NextFromPatterns \/ SavePattern \/ CloseDialog \/ CancelUpload
    \/ \E ok \in BOOLEAN : PatternSaved(ok)
    \/ \E i \in DOMAIN uploads, ok \in BOOLEAN : FileUploaded(i, ok)

WizardNext == FirstStep \/ Detection \/ Review \/ Upload \/ Back \/ Leave \/ LeaveSummary \/ Return

WizardSpec == WizardInit /\ [][WizardNext]_wizardVars

-----------------------------------------------------------------------------
(* Correctness.                                                            *)

(* The variables keep their types.  The file the toolbar is about is in    *)
(* the list, also when a run ends after its files were removed.            *)
WizardTypeOK ==
    /\ {page, redetect, allDetecting, reading, dialog, dialogShown, uploading, late}
           \subseteq BOOLEAN
    /\ step \in 1 .. 3
    /\ files \in Seq(File) /\ IsInjective(files) /\ Listed \subseteq 1 .. used
    /\ \A f \in File : file[f] \in ImportFile
    /\ activeFile \in Listed \union {None}
    /\ work \in 0 .. MaxWork
    /\ Cardinality(runs) + Cardinality(changes) + Cardinality(previews) + Len(uploads) <= work
    /\ \A i \in DOMAIN uploads : uploads[i].todo # << >>
    /\ seen \subseteq 1 .. used

(* A file reported as matched shows the rows of the pattern it will be     *)
(* imported with, however detection runs and choices of the user overlap.  *)
RowsMatchPattern ==
    \A f \in Listed : file[f].status = "detected" => file[f].rows = file[f].pattern

(* A file with doubtful timestamps counts as confirmed only when the user  *)
(* confirmed just these: no new inference, edit or answer since, and for a *)
(* file without timestamps not along with another file.                    *)
ConfirmedWasSeen ==
    \A f \in Listed :
        file[f].layout \in {"ambiguous", "missing"} /\ file[f].confirmed => f \in seen

(* Files are uploaded by one upload at a time, unless the dialog went away *)
(* while it saved: its answer then starts the upload again.                *)
OneUpload == ~late => Len(uploads) <= 1

(* The wizard keeps its types, its list of files and its one upload.       *)
WizardConsistent == WizardTypeOK /\ OneUpload

(* Files a run holds that waits for ever.                                  *)
Stranded == UNION {ToSet(r.todo) : r \in {q \in runs : q.hung}}

(* A file that is marked as being analysed is: a run that goes on will     *)
(* come to it, or the answer for a pattern is on its way.  Otherwise it    *)
(* would block the import.  The exception are the files a run still had to *)
(* do when the read of one of them failed: no run, and no file after it,   *)
(* is told.                                                                *)
DetectingIsAwaited ==
    \A f \in Listed \ Stranded : file[f].status = "detecting" =>
        \/ \E r \in runs : ~r.hung /\ f \in ToSet(r.todo)
        \/ \E c \in changes : c.file = f

=============================================================================
