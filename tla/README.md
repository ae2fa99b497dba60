# Logsonic in TLA+

A verification development for Logsonic: TLA+ modules that model its server, TLC configurations that check
them on small instances, and TLAPS proofs of what matters most for every size. Paths below are relative to the
repository.

## The system

Logsonic is one Go process with an embedded browser application. Logs come in by chunked upload, by a tailed
file or by a piped stream; they are folded into records, decoded, and stored in one Bleve index per day;
browsers search them, watch them live and keep settings on the server.

    browser import --/ingest/start, logs, end--> ingest sessions --+
    file, stdin ----> tail source goroutine --folder, decoder------+--> sharded storage <-- search, stats, delete
                              |                                    |        ^
                              +--rows, after the store accepts-----+        +-- retention, clear, restart
                              v
                           live hub --SSE--> browser live view       workspaces store, pattern library (JSON files)

| Part | State | Operations | What is hard | What makes it correct |
|---|---|---|---|---|
| Live hub, `handlers/live.go` | sources, subscribers, bounded channels, paused flags, skipped counters | add/stop source, publish rows and status, subscribe, pause, resume, SSE delivery | three kinds of goroutine meet at one subscriber; snapshot then unlocked fan-out; full channels; a resume that unlocks between taking and reporting its counters | no row lost or counted twice unsaid; order; shown rows are stored; the end of a source is seen; ingestion never waits for a browser |
| Tail sources, `handlers/live.go` | open file, offset, half line, batch, folder | poll, rotate, read, scan stdin, stop, finish | rotation by renaming or truncating at any moment; half-written lines; several select cases ready at once; store errors | every line once and in order; no record across a rotation; what is taken is stored; a source catches up or ends |
| Ingest sessions, `handlers/ingest.go`, `multiline.go`, `useUpload.ts` | session map, sequence numbers, held-back record | start, chunk, end, expiry sweep | session snapshot used after the unlock; sweep against end against a late chunk; crashes; errors that are only logged | each line in one document; chunking does not change records; nothing held back for ever |
| Sharded storage, `storage/*.go` | map of open indexes, day directories | store, delete, clear, prune, list, search page, restart | an index taken from the map can be closed under its user; check then open; removals that fail half way | an acknowledged row stays and is found; one handle per directory |
| Statistics cache, `handlers/info.go` | cached counts, valid flag | fill, invalidate | filled without the lock | no stale counts |
| Retention, `server/server.go` | clock against day names | prune | boundary of a day | nothing young is deleted |
| Workspaces store, `workspaces/store.go` | map, file, temporary file | create, update, delete, duplicate, list, load | a flush of five steps of which each may fail; crashes and power failures; a corrupt file | memory is the file; the file always loads; answered changes survive |
| Timestamp resolution, `timeresolve/*.go`, `handlers/decode.go` | settings found in a sample or prescribed, last time | resolve a partial time, carry | midnight and new year, lines out of order, a resolver per chunk | ordered lines get their true time |
| Pattern and timestamp libraries, `handlers/grok.go`, `timeresolve/library_store.go`, `CustomPatterns.tsx` | patterns, configurations and their side file, the list of the page | create, update, delete, list, import | check then act without a lock; two files; imports of many requests | a pattern has no configuration but its own; the page shows the library |
| Search paging, `storage/search_page.go` | none | page, distribution | boundaries of pages and buckets | every hit in one page and one bucket |
| Server lifecycle, `server/server.go` | listeners, goroutines | start, shutdown | order of stopping sources, requests and storage | nothing written to a closed index |
| Browser live view, `useLiveLogStore.ts`, `useLogStream.ts` | ring buffer, pause flag, connection | rows, skipped, reconnect, pause | reconnect makes a new subscriber; buffer limit | every row shown or counted |
| Browser search, `useSearchLogs.ts`, `useSearchQueryParams.ts`, `SidebarPanel.tsx` | parameters, address, results, sources | search, page, sort, range, select, delete, Back, reload | answers out of order; two components that search; timers and history | results, spinner, address and selection agree with the parameters |
| Browser import, `useImportStore.ts`, `Import.tsx`, `FileAnalyzingStep.tsx`, `TimestampToolbar.tsx` | files with their patterns, timestamps and confirmations, uploads | add, detect, change, preview, confirm, save, upload | requests of several kinds answered in any order while the user goes on | what is imported is what was shown and confirmed; one upload |
| Browser workspaces, `useWorkspaceStore.ts`, `WorkspaceMenu.tsx` | list, active workspace, view | save, open, favour, copy, delete, refresh | requests that overlap; other clients | what is saved is restored; the menu shows what the server has |
| Query optimisation, pattern suggestion, MCP server, tail CLI, static files | none of their own | | text heuristics, stateless clients | outside this development |

`PROJECT.json` names every part with its sources and lists each hazard at the line where it bites, with the
property that would catch it.

## Modules

| Module | Models |
|---|---|
| `LiveHub` | the hub, with its sources, the request that starts them and its SSE handlers |
| `LiveFeed` | abstract: the fate of a batch of rows at a subscriber |
| `LiveHubProofs` | theorems about `LiveHub`, also that it implements `LiveFeed` |
| `TailSource` | `followFile` and `readStdin`, with the writer of the log, the rotation and the client |
| `RecordFolder` | `multilineFolder`: which lines a chunk completes into records, which it holds back |
| `IngestSession` | the upload handlers, the sweep and the browser's loop |
| `LogStorage` | the store, its requests, the statistics cache and retention |
| `WorkspaceStore` | the workspaces store, its flush and its disk |
| `WorkspaceMap` | abstract: a bounded map that changes one entry at a time |
| `WorkspaceStoreProofs` | theorems about `WorkspaceStore` |
| `TailSourceProofs`, `IngestSessionProofs`, `WorkspaceClientProofs` | theorems about the modules they are named for |
| `SearchProofs` | theorems about both ends of a search, `LogStorage` and `SearchView` |
| `ParsingProofs` | theorems about what lines are read with, `TimeResolver` and `PatternLibrary` |
| `BrowserProofs` | theorems about two pages of the browser, `LiveView` and `ImportWizard` |
| `LiveView` | the browser's stream, ring buffer and pause button, with the subscription they meet |
| `ImportWizard` | the import page from choosing files to the summary |
| `SearchView` | the log view: parameters, address, results, paging, sources |
| `WorkspaceClient` | the workspaces of the browser, with a server and another client |
| `PatternLibrary` | the requests of `/grok`, the side file and the settings page |
| `TimeResolver` | how a line gets its time |
| `MC*` | the instances TLC checks: symmetry and bounds |

`TailSource` and `IngestSession` share `RecordFolder`; `LiveHub` begins where `TailSource` ends, with a record that
the store accepted. `ImportWizard` ends an upload in one step where `IngestSession` has all of its requests, and
`WorkspaceClient` takes each request of the server for one step, which is what `ImplementsWorkspaceMap` proves of
`WorkspaceStore`. Every variable is commented with the field it stands for. A variable marked "history" records what
happened for a property to speak of; no guard reads one, but for `sent` of `LogStorage`, which bounds an instance to
one `Store` call for each row. An operator commented "Faulty variant" is the definition after it with a plausible bug;
no specification uses one. `PROJECT.json` pairs each property with one, and in place of the original it must make TLC
find a violation, so no property holds whatever the code does.

### LiveHub

A source is two publishers: the goroutine that tails it and the request that announces it. Their
publications are a `Snapshot` of the subscribers under the read lock and one `Enqueue` for each of them
later, in any order, each under that subscriber's mutex: exactly the critical sections of `publishRows`,
`publishStatus` and `enqueue`. `ResumeSubscriber` takes the counters in one step and enqueues the reports in
others, because it unlocks in between. A subscriber's channel is its log of accepted events and a cursor.
Rows are batches, the unit that is enqueued or counted. The heartbeat and the payloads are left out.

### TailSource

A line is written in two pieces, so a read may find a half line. `Write`, `MoveAway`, `CreateFile`,
`ReopenLog` and `Truncate` are the program and the two customary rotations; the others are the branches of the
two loops, with the window between `os.Stat` and `os.Open` (`pc = "reopening"`) and a store that may fail at
each batch. The scanner is a goroutine that offers one line at a time on an unbuffered channel. `Split` is
`splitCompleteLines`, which takes pieces one by one into lines and half a line. `handed` lists the records given to
the store in order and `refused` the places of those it refused, so that a property can speak of both. The panic
recovery and what lines say are left out.

### IngestSession

`LookUp`, `Feed`, `PostProcess` and `Store` are the sections of a chunk request; `/ingest/end` and the sweep
have the same last ones, and the three run side by side. The browser's loop sends chunks of any size and ends
or gives up as `useUpload.ts` does; requests may be lost, stores fail, the server crash. All lines have one
timestamp, the case in which a document's identity depends on the sequence number alone. The limits `MaxLines`
and `MaxBytes` of the folder are left out.

### LogStorage

The critical sections of `Storage.mu` are single actions; what is done with an index between them is a step
in which another request may have closed it. `Clear` and `PruneOlderThan` fail after any part of their work. A
restart opens any subset of the shards. `HandleInfo` lists, counts and fills in separate steps. A timestamp is an
instant and what its zone is ahead of UTC: a shard is named by the date in that zone (`DateOf`), and retention reads
the name as a date of UTC (`Expired`). Searches are over all time. `Close` at shutdown and the older `Search` are
left out.

### WorkspaceStore

A change holds the mutex from altering the map to the end of its flush: `WriteTmp`, `SyncTmp`, `RenameTmp`,
`SyncDir`, or `FlushFails` at any of them with the rollback of the caller. `survivors` is what the file may
read as after a power failure: a rename is on disk once the directory was synced, and may be before. A crash of
the process loses memory only. Names, times and the order of lists are left out.

### LiveView

The browser runs one handler at a time, so each of them is one action: `Receive` for an event of the stream,
`Flush` for its timer, `Frame` for the animation frame, `Unmount` for the cleanup when the user leaves the
page. A pause or resume request takes effect at the hub in one step and is answered in another, may be lost
before or after, may overlap with a second one, and may be for a subscriber that is gone. Of the hub there is
only the subscription of the open connection, with the rule of `enqueue`: `LiveHub` has the rest. `unsure`
records that the pause flag may rightly differ from the hub's. Errors and what rows say are left out, and so
is the trimming of more than 100 source statuses.

### ImportWizard

A handler of the page, and the effects its changes cause, are one action; requests are sets of records that
are answered in any order or fail. A detection is a run through the files that are left (`todo`), one request
per file; next to it a user may try patterns (`changes`), look at timestamps (`previews`) and upload. Overrides
of a timestamp are one knob, the two requests of a detection are one, and what a detection finds is any pattern
and any verdict. A file the run found without a preview (`unread`) is read first: when that read is rejected nothing
tells the run, which never goes on (`ReadFails`, `hung`). Slicing of files, the options of a session and the texts are
left out.

### SearchView

The viewer and its table each have a search with an abort controller of its own, and one store for the result
of both: `search` and `refresh`. The history is a sequence of addresses and a position; what the module does
after a load (`cold`) and the timers that write and read the address are steps of their own. The server answers
any number of rows and any sources, since data come and go. A relative range is one value that is computed anew
whenever it is set. Columns, charts, the export and the layout are left out.

### WorkspaceClient

Requests of the menu are in flight, executed or answered, several at once. The server executes one at a time; another
client, which is another browser and so writes what one builds, may write, favour or delete. A view is its range and
its columns, which opening a workspace translates (`LoadWorkspace`, `BuildWorkspace`); the other parts are saved and
restored as they are. `Kept` is what the server makes of a view, which leaves out a custom count of 0, and `Or` is the
`||` that then takes the count of the page.

### PatternLibrary

A request of `/grok` is walked through its steps: the lookup, the change of the library, the change of the side
file, the answer. log2grok, which keeps the patterns, is external. The side file fails to be written, is found
corrupt after a restart, or is overtaken by a crash between two steps. The page has one request for each thing
it does; `other` is whoever else uses the library. An answer leaves out an empty list, and the page then keeps
the one it has and says that it failed to load (`Listed`). An import takes the names of the list at the click
(`OnImportFile`) and sends once the file is read (`FileRead`). The names of one instance differ in case only, since
the page compares without case and the server with it.

### TimeResolver

Times are hours, and a line says its year in four digits, in two or not at all, its date or not, its clock or nothing
(`Format`). `Resolve` composes what is said, the last time and the settings, holds an inferred year below the anchor
and rolls over, in the order of the code. `NewResolver` is a new chunk, or the first batch of a live source, whose
later lines may be of formats the batch did not have; a sample of no formats is one of which no line was matched.
`truth` is when the last line was written, as long as each line was within the limits in which the resolver can tell
(`Promised`); each of those limits is tight: one hour more, and TLC finds a row with a wrong time. What is promised
depends on the sample and the user alone (`hint`), not on what `Sniff` made of the sample: a sample without years of
four digits is promised midnight and New Year, and so is a user who asks for roll overs; a sample that mixes full
dates with lines that say less is promised only the lines that need no roll over and step back no further than one
would. Months of different lengths, leap years, time zones and the parsing of captures are left out.

## Runs

| Run | Instance | Properties |
|---|---|---|
| `live_hub` | 1 source, 2 batches, 1 browser, channel of 1 | `Consistent`, `RowsInSourceOrder`, `EndIsSeen`; `ImplementsLiveFeed`; `PublishNeverBlocks` |
| `ingest_session` | 1 upload, 3 lines, 1 crash | `Consistent`, `SuccessStoresTheFile`, `NoRecordLeftBehind`; `SessionsEnd` |
| `log_storage` | 2 requests, 1 row at 4 times of 2 days and 3 zones, window of 1 day, 1 restart | `Consistent`, `AckedIsStored`, `SearchFindsAcked`, `CacheIsFresh`, `PrunedIsOld` |
| `workspace_store` | 3 ids, 2 contents, limit of 2, 2 failures | `DiskIsSafe`; `ImplementsWorkspaceMap` |
| `tail_source` | 2 lines, 2 files, batch of 2 | `Consistent`, `ReadInOrder`, `TakenIsStored`; `EveryLineArrives` |
| `tail_stop` | as `tail_source` | violates `FinalRecordIsStored` |
| `live_view` | 1 source, 3 rows, room for 2, 2 connections | `Consistent`, `GaplessView`, `PauseFlagIsTheHubs`; `EveryRowIsDrawn` |
| `import_wizard` | 2 files, 3 requests | `WizardConsistent`, `RowsMatchPattern`, `ConfirmedWasSeen`, `DetectingIsAwaited` |
| `search_view` | 2 sources, 3 rows, pages of 1 or 2, 3 addresses, 3 things done | `ViewConsistent`, `ShownIsAsked`, `UrlDescribesView`, `AllSourcesStay` |
| `workspace_client` | 2 workspaces, counts of 0 and 1, 5 things done | `Consistent`, `ListIsServers`; `SavedIsRestored`, `OpenedIsClean` |
| `pattern_library` | 2 names, 3 things done, 1 fault | `Consistent`, `ListIsLibrary`, `ImportIsTaken` |
| `time_resolver` | 6 formats, 4 years of 3 days of 4 hours, 3 anchors | `ResolverConsistent` |

`Consistent` (`WizardConsistent`, `ViewConsistent`, `ResolverConsistent`) is the type invariant of a module with the
invariants that say its variables agree: that rows are accounted for and stored before they are shown (`LiveHub`),
that each line is in one place and has a document of its own (`IngestSession`), one handle per shard (`LogStorage`),
no record of two files (`TailSource`), rows shown or counted (`LiveView`), one upload (`ImportWizard`), a spinner that
tells of a search (`SearchView`), a menu that is not disabled for good (`WorkspaceClient`), no configuration of
another pattern (`PatternLibrary`), the true time of lines in order (`TimeResolver`).

**Bounds.** Each was chosen so that the case a property is about occurs, which the faulty variants confirm. A channel
of one slot is full after one batch, and the second batch overflows it, so accepted, paused and overflowing batches
all occur (the code has 32 slots). Three lines make a file with a record inside, a boundary at a chunk and a held-back
record, in every chunking and with every choice of header lines. Two requests are one that holds an index and one that
closes it or opens it again, or retention does. Four ticks to a day, a clock of five and zones half a day ahead of UTC
and behind it put rows on both sides of the window, and on either side of midnight in their own zone and in UTC. Two
of three ids reach the limit of the map. Two lines and two files make a rotation in the middle of a line, between
lines and behind the last; a batch of two is filled, or left unfilled for the tick. Restarts and failures are counted
to keep the instance finite; two of them are a crash during the recovery from another. The view has room for two of
its three rows (the code for 1000), so that both the rows that wait and the ring buffer overflow, and two connections
make a reconnect. Two files make an active one and another; three requests are a detection, a pattern tried and a
preview that cross (a read that fails counts as one). Three addresses are two to go back to and one to drop. Two
workspaces are one that is open and one that is opened; five clicks are two requests that overlap and what is done
with their outcome; a count of 0 and one that is not are a custom range that loses its count and one that keeps it.
Deleting the only pattern of two names makes an empty library. Three days to a year and four hours to a day keep the
order of the code's thresholds (half a day, half a year, less than a day of slack), and the latest anchor is the last
hour of a year.

`MaxLines`, `MaxFiles`, `MaxBatches`, `FileLines`, `MaxTime`, `MaxRestarts`, `MaxFailures`, `MaxRows`, `MaxUrls`,
`MaxWork`, `MaxConnections` and `WireCapacity` are bounds of the models; `BufferCapacity`, `BatchLines`,
`MaxWorkspaces`, `DayTicks`, `RetentionDays`, `RowLimit`, `Sizes`, `DayGap`, `YearGap` and `FutureSlack` are
constants of the code. Symmetry is used in runs of safety properties and of steps only, never with fairness. The
deadlock check is off: sources end, uploads end, clients leave and users stop, so a quiet system is a proper one;
that nothing waits for ever is stated instead, as liveness or as what must be in flight while something waits.

**Fairness.** Goroutines are scheduled and timers fire; nothing is assumed of programs, networks or users.
- `LiveHub`: weak fairness of each fan-out and of the publications of a source. Nothing is assumed of a browser's
  reading.
- `IngestSession`: handlers run to their end, time passes and the sweep's ticker fires. The browser's steps are
  not fair: `SessionsEnd` is for the browser that has gone.
- `TailSource`: weak fairness of the two loops, strong fairness of finishing, since Go's `select` picks at
  random among ready cases, so that a stop that is ready again and again is taken.
- `LiveView`: weak fairness of the timer and the frame. Each is one callback the browser owes the page while it
  is shown; in a hidden tab frames are not drawn and rows wait, which the safety properties cover.
- The other modules state no fairness. Their properties are about every state and step, and where something must not
  wait for ever (`DetectingIsAwaited`, but for the files of a run that hangs, the buttons of the menu, the spinner)
  they say what is under way.

## Theorems

Proved with TLAPS for all values of the constants that satisfy the named assumptions of the modules.

`LiveHubProofs`, from `FiltersAssumption`, `BufferCapacityAssumption` and `MaxBatchesAssumption`:
- `TypeCorrect`: the types, and no channel over its capacity.
- `RowsAreAccountedFor`: every batch offered to a subscriber is in exactly one place.
- `ShownRowsAreStored`, and with these `HubStaysConsistent`, the invariant `Consistent` of the run.
- `RowsKeepTheirOrder`.

None of these but the types is inductive. `HubInv` adds to the types what a publication in flight knows: its batch
is stored and numbered below `next` (`StoredNext`), was not offered yet to a subscriber it has still to reach,
while everything offered before has a smaller number (`OfferedIsPast`, `OnItsWay`), and the publisher's event
names its own source (`EventsNameTheirSource`). It also says that the rows events of a log name the source of their
batches and that every pending report is a `skipped` event. Order follows because a source offers its batches in
number order and an append keeps what was before; the accounting because a resume moves the counters to
reports in one step, source by source.

`EndsAreSeen`, for the invariant `EndIsSeen`: `EndInv` adds to `HubInv`
that a source is listed only while it runs (`ListedRuns`), that a browser whose stream is open is registered
(`StreamsRegistered`), that the tailing goroutine, and nobody else, holds a terminal status exactly when the source
has finished (`EndsAreSaid`), and that no channel has such a status of a source that has not (`HeardIsOver`). A
browser greeted with a running source is registered when the end is published, so the end is on its way to it.

`HubImplementsFeed`, for the property `ImplementsLiveFeed`: the place of
a batch is its fate (`FatesArePlaces`); what an event can be about (`FeedInv`) keeps two fates apart. `Enqueue`,
`Deliver`, `ResumeSubscriber` and `ReportSkipped` are steps of `LiveFeed`, and all other actions stutter.
`FatesGoForward` draws the consequence: no step takes a batch from counted to shown, from shown to counted, or back
from a report.

`WorkspaceStoreProofs`, from `IdAssumption` and the other assumptions of `WorkspaceStore`:
- `StoreTypeCorrect`, `MemoryStaysTheFile`, `FileStaysLoadable`, `AnsweredChangesSurvive`, `GarbageStays`, and with
  the middle two `DiskStaysSafe`, the invariant of the run.
- `StoreImplementsMap`: the store refines `WorkspaceMap`; a rename is the commit of one entry, the directory
  fsync settles it, and all other steps of requests and crashes stutter or read.

`Inv` says, besides, that the memory differs from the file at most in the entry of the change that is being
flushed, and that what is renamed is that memory and is synced. The rollback needs the first, the power failure
the second, and the bound on the size, checked when the change begins, is carried to the rename.

`SearchProofs`, from `RowTimeAssumption` and the other assumptions of `LogStorage`: all five invariants of the
run, `StorageStaysConsistent`, `AckedStaysStored`, `SearchesFindAcked`, `CacheStaysFresh`, `PrunedStaysOld`, for any
number of rows, times, requests and days. They share one inductive invariant, `IInv`:
- `TypedAndShaped`: the types, and what the step a request is at says of its fields.
- `OneHandlePerShard`: an index that is in the map is open once, and none is open that is not.
- `Books`: what a `Store` call has stored and nobody removed (`Kept`) is in the store and its day has a directory;
  a call has a row before it exactly while the row is not stored, and no two calls have one row.
- `SearchesFind`: a search has, for every row it owes, the day still before it, or opened and so in the map, or read.
- `Counts`: a fill of the cache has, for every acknowledged row, counted it, skipped its day, or the day still before
  it, and has counted nothing that was deleted; unless an invalidation overtook it.

`PrunedStaysOld` speaks of the age a row has by the name of its shard (`AgeByName`), its true age less what its zone is
ahead of UTC: for the rows of a zone behind UTC that is more than their age, and they may be taken that much too early.

A step changes one request, or the shards of one day, or the clock; three lemmas (`Steps`, `Moves`, `Grows`) say
what every conjunct needs to know of such a step, and each action is shown to be one of them.

`ParsingProofs`, from the assumptions of `PatternLibrary`: `PatternsKeepTheirConfigs`, the invariant
`Consistent` of the run, for any names, patterns and files and any number of restarts and failed writes. A
configuration that belongs to its pattern is not inductive. `Owned` adds, for a name whose requests have not
crossed, that a configuration outlives its pattern only while a handler stands between the two halves of the
deletion, and that a handler about to write a configuration has its pattern in the library. `Shaped` says what the
step a request is at says of its fields. All but five of the actions only send, answer or look (`Kept`, `Unmoved`),
so one lemma, `StillKeeps`, does for them. For the settings page, two more parts:
- `PageShowsLibrary` (`ListIsLibrary`). While nothing disturbs the page (`mixed`) no other client has a request in
  flight, and when every slot is quiet its list is the library. What an answer carries is the library only if the
  request went out alone and still is alone (`ListInv`); a request of the page starts a new listing when it is done.
  An answer with an empty list leaves an error in the place of the list, which stays until another is asked for.
- `ImportsAreTaken` (`ImportIsTaken`). It is for imports whose list, taken at the click, is still the page's when the
  file has been read, with no load error beside a list that is not empty (`Stale`): removing either condition makes
  TLC find a refused pattern. While such an import runs alone and undisturbed (`Takes`), the names of the library
  in lower case are what the import has in `existing`, and the name of its request once that is stored; it updates
  exactly the names it has there, and every name of the library is one the page knew or one of the file
  (`ImportInv`). So a name that is refused differs from such a name in case only.

`BrowserProofs`, from the assumptions of `LiveView`: `ViewIsConsistent`, `ViewHasNoGap` and `PauseFlagIsRight`, the
three invariants of the run, for any number of rows and connections and a ring of any size. The rows that wait are the
latest received (`PendingLatest`) and the table holds those before them (`RowsBehind`), unless so many wait that
some were dropped; a frame then fills the table with them alone. For the button, `RequestsInv` says which requests are
in flight: a request counts as `alone` only while it is the only one, and then the answer it carries is the hub's flag.

`IngestSessionProofs`, from the assumptions of `IngestSession`: the three invariants of the run, for any number of
uploads, files of any length, any headers, chunks and crashes.
- What the folder computes. `FoldCuts`: of a run of lines, `Fold` makes records that are runs, follow each other
  without a gap, each but the first opened by a header, with no header inside (`Cut`). It is proved by induction over
  the number of lines taken. The induction theorems of the library take an operator as a parameter, which no prover here
  can instantiate, so `LeastNumber` and `SetInduction` derive induction over a set of numbers from the
  well-foundedness of `<` on the naturals. `FeedFolds` carries the cut over to what `Feed` closes and holds back.
- Where the lines are. `IngestInv` says of each upload: every piece of work, document, held-back record and
  chunk is a run of lines, and two of them are apart, one wholly before the other (`LinesInv`); which step a handler,
  the client and the session are at when there is such a piece (`ShapeInv`, `ClientInv`, `SessionInv`). From it follow
  `NothingIsLeftBehind` (`NoRecordLeftBehind`) and `LinesAreOnceEach` (`EachLineOnce`).
- Numbers. `NumbersInv`: no two rows or documents of an upload have one number, and a handler's rows are numbered in
  order. With `DistinctNames`, that no two uploads have a file of one name, `UploadsAreConsistent` (`Consistent`)
  follows. The hypothesis is needed: under one name the documents of two uploads overwrite each other (see below), and
  whoever uploads chooses the names.
- Success. An upload that can still report success (`Good`) keeps more: each document is a whole record of the file
  (`Complete`), in the order of the numbers (`SequenceInv`), one handler at a time has work, behind what is stored and
  before what is held back (`TurnsInv`), and each line sent is found somewhere (`AllInv`). Other uploads need not:
  when a client gives up on a chunk, its handler works on while `/ingest/end` flushes. At the end the documents
  are the records of one fold over the whole file, since two records that begin and end at headers and have none inside
  are equal when they share a line: `SuccessIsStored` (`SuccessStoresTheFile`), again with `DistinctNames`.

`WorkspaceClientProofs`, from the assumptions of `WorkspaceClient`: the invariants and the action properties of the
run, for any number of requests in flight, executed and answered in any order.
- `ClientIsConsistent` (`Consistent`). `TypedInv` gives each request its shape: what it carries, and what its answer
  can be (`Shape`). Lists hold only workspaces that were built from a view, under ids the server gave.
- `MenuIsServers` (`ListIsServers`). A request that went out alone is the only one while nothing disturbs it
  (`AloneIsOnly`), and until its answer is taken in the list and the server are apart by what it does (`Pending`).
- `SavedComesBack` (`SavedIsRestored`). Two requests about one id make it torn (`OverlapIsTorn`). For the others: the
  server's copy brings back what the user was told is saved (`ServerHolds`), so does the list unless it may be old
  (`ListHolds`), the server has what it answered, and a mark or a copy carries a content that brings it back
  (`RequestHolds`). A copy of a torn workspace tells nothing, as its source may have changed unseen.
- `OpenedHasNoChanges` (`OpenedIsClean`): building from the view that opening a kept workspace makes gives that
  workspace again (`OpenedBuildsTheSame`), unless it has no columns. The equivalence goes both ways: a custom range
  that lost its count of 0 looks changed from the start, and no other does. For the view, `OpenedBringsBack` says that
  what the server keeps brings back the range that was saved, or with a count of 0 the one with the count there
  was (`Restored`). Both need that null is no range and no count, and that 0 is no range.

`TailSourceProofs`, from `MaxLinesAssumption`, `MaxFilesAssumption` and `BatchLinesAssumption`: the three invariants
of `tail_source`, for any number of lines and files, reads of any length and any batch.
- What the code computes. `SplitKeeps`: the lines of a buffer, put one after the other, and the half line are the
  buffer, and the half line has no end in it. `FolderKeeps`: what the folder closes and holds back is what it held and
  was fed. Both are by induction over the length, as is `FlattenConcat` for the records of a source.
- `TailReadsInOrder` (`ReadInOrder`). The code compares sizes and identities, never contents, so the order is an
  invariant of places (`OrderInv`): all that was read comes before what the open file holds behind the offset, before
  every later file, and, when the file was truncated below the offset or is about to be opened again, before all
  of it. `ContentInv` says what the writer and the rotations allow: each file is in order and older files hold earlier
  pieces. The hypothesis `~overtaken` is needed: when the path changes between `os.Stat` and `os.Open`, a file is
  read twice.
- `TailIsConsistent` (`Consistent`). `HomeInv`: the half line, the folder and the batch are of the open file, so
  each of the three is empty when another one is opened; each record is of one file.
- `WhatIsTakenIsStored` (`TakenIsStored`). `EndInv`: lines taken are those of the records handed over, of the folder
  and of the batch, in this order, and which of them can be left at an end.
The store may refuse any batch. The unproved `FinalRecordIsStored` is false, as `tail_stop` shows.

`BrowserProofs`, from `NullAssumption` and `BoundsAssumption` of `ImportWizard`: the four invariants of
`import_wizard`, for any number of files, patterns, requests and clicks. They share `WizardInv`:
- `PromiseInv` says what each file knows. A file that says it is matched has the rows of its pattern
  (`RowsAreOfThePattern`, for `RowsMatchPattern`); one that counts as confirmed and has doubtful timestamps is one
  the user has confirmed since they were found (`ConfirmedIsSeen`, for `ConfirmedWasSeen`); one that is being analysed
  is in the list of a run, or a pattern is being tried on it (`DetectingEnds`, for `DetectingIsAwaited`, where the run
  must be one that goes on: a run whose read failed holds its files for ever, and they are left out by name).
- `RunsInv` and `WizardRequestsInv` are the shape of what is in flight, and `CountInv` bounds it, so that its sets are
  finite. `ListInv` keeps the active file in the list, through removals too.
- `UploadInv`: unless the save dialog went away while it saved, a save has its dialog, the dialog comes before the
  upload, and there is one upload. With it, `WizardIsConsistent` (`WizardConsistent`) follows.

`SearchProofs` again, from the assumptions of `SearchView`: the four invariants of `search_view`, for any sources,
queries, saved workspaces and page sizes and any number of searches, answers and addresses. They share `ViewInv`:
- `AskedInv`: what the viewer asked for last are the parameters of the page, since its effect runs after every change
  of them, but for live rows. `InFlightInv`: the search in flight is that one, and is aborted when the user leaves.
  `ShownInv`: when it is answered, and the table's own search too, the rows are those of what was asked. From these
  `RowsAreOfTheSearch` (`ShownIsAsked`). Almost every action ends with that effect: `RenderingKeepsSearches`.
- `SpinnerInv`, for `ViewStaysConsistent` (`ViewConsistent`): a search that the table's did not interfere with has
  the spinner, and the spinner has a search. The attempt to prove `LoadingIsSearching` as it was first written failed:
  after Back to an address that was not searched for, a search still in flight has no spinner. TLC
  confirmed that with one more thing done than the run allows, and the property now says so.
- `HistoryInv`: entries are places, or Home with parameters, and Home is shown at one of Home. With it
  `AddressDescribesView` (`UrlDescribesView`). The proof needs no exception for a pending read of the address,
  which the property once made; it is stronger now.
- `ParamsInv` bounds the page: it is one that a search which finds the most rows would have.
- `NewSourcesAreSearched` (`AllSourcesStay`) is inductive by itself, given the types.
The assumptions are that null is no parameter, request or selection, that at least one row can be found, and that
what a workspace holds can be searched for.

`ParsingProofs` again, from `CalendarAssumption`, `SettingsAssumption` and `FormatAssumption` of `TimeResolver`:
`LinesInOrderAreDated` (`ResolverConsistent`), for any lengths of day, year and century, any thresholds in their order,
any formats, samples, anchors and settings. The argument has three parts.
- Times. `PartsOfATime` and `Composed`: a time is put together again from its year, date and clock. A year is a
  whole number of days, so the days of a time and its years and dates agree (`SameDay`); times less than a
  year apart are of one year or of two that follow each other (`CloseQuotients`).
- One line. What is composed is the time of the line, or that less a year when the year is the one of the line
  before, or that less a day when the date is (`AsWritten`: `DatedLineIsAsWritten`, `NextDayIsAsWritten`). In
  the first case holding it below the anchor changes nothing, since the line is not an hour after it. Two digits of
  a year are found among the anchor's last hundred (`ExpandingFindsTheYear`). Then the roll over adds what is missing
  and nothing else (`RollingOverFindsTheTime`): here the thresholds must leave the step back that is out of order
  apart from the one that is a new day, and that from the one that is a new year.
- All lines. `Settled`: a line that was dated rightly is the one the next starts from, and a resolver looks for roll
  overs where they are promised and not where every line has a full date; in between the promise is kept either way.
That the limits are tight is not proved; TLC finds a wrong row beyond each.

Every safety invariant and action property of the passing runs is proved, and both refinements. Model-checked only:
liveness (`PublishNeverBlocks`, `SessionsEnd`, `EveryLineArrives`, `EveryRowIsDrawn`), which is beyond the
prover with fairness.

## Where the code and its words differ

`tail_stop` shows that a stdin source the server stops forgets the lines collected since the last tick; the
comment on `flushMultiline` promises that the final record is not dropped.

The others are part of the models, and the properties leave them out by name.

Server:
- Rows refused by a full channel are reported only when a pause is resumed; a client that never pauses is never
  told, though `live-tailing-design.md` promises a `skipped` event (`unreported`).
- The sequence starts at 1 in each session, so uploads of two files with one name overwrite each other's documents
  where timestamps are equal.
- A fill of the statistics cache that is running at an invalidation is cached as valid (`overtaken`), and so is one
  that could not count a day (`uncounted`), though `System_Architecture.md` speaks of fresh statistics after each
  batch.
- A shard is removed by the start of its day, with rows up to a day younger than the window. The store names the day
  in the zone of the row (`storage.go:225`) and retention reads that name as UTC (`storage.go:339`), so a row written
  behind UTC is taken earlier still: one of 23:59 at -08:00 about 16 hours after it was written with a window of two
  days, though `configuration.md:12` says that logs older than N days are deleted. A search over a range compares
  the same names with the days of its ends in UTC (`intersectingDates`, `search_page.go:499`) and can miss such rows
  near either end; the searches of the model are over all time.
- When the log is rotated again between the `os.Stat` that notices a rotation and the `os.Open` that follows, the
  last file is read twice (`overtaken`). When a file is truncated and grows past the old offset between two ticks,
  its first lines are not read (`cut = "missed"`).
- Patterns: two creates of one name may both succeed, and an update may create what was deleted since. A pattern
  and its timestamp configuration are removed in two steps, so that crossing requests, or a crash or a failed write
  between them, leave a configuration that a later pattern of the name takes over (`torn`). A corrupt side file
  counts as empty, and the next change writes over it. A library that holds two names differing in case only cannot
  be imported: the page updates the one that is not there.
- A list of patterns that is empty is left out of its answer (`types.go:242`), which the page takes for a failure
  (`CustomPatterns.tsx:95-103`): after the only pattern is deleted the page says that it failed to load and goes on
  with its old list, and in a new installation it has an error in the place of no patterns. An import of the deleted
  name is then sent as an update and refused. The import also decides by the list of the click, although the file is
  read after it (`CustomPatterns.tsx:268-271`), so that a list loaded meanwhile is ignored (`Stale`, `clean`).
- `timestamp-resolution.md:15` promises that time-only lines after a fully stamped line carry its date forward and
  that midnight is detected. `Sniff` (`sniff.go:103-105`) turns roll overs off for all lines when a year of four
  digits and a date in one capture occur anywhere in the sample, since "a 4-digit timestamp on every line never needs
  rollover": the first clock-only line after midnight is put on the day before. `InOrderIsTrue` promises no midnight
  for such samples (`hint` = "mixed").
- Times: an upload makes a resolver for each chunk, though `resolver.go` says one per session, so the year and the
  date a line got from the one before it do not reach the next chunk. A live source keeps what it saw in its first
  batch, also that there were no times at all, or no line of it was matched, and then stamps every later line with the
  time it started (`synthetic`). Lines with a full date in separate captures, or in a field that was picked, look for
  roll overs, though the comment in `Sniff` says that such lines never need one: a line more than twelve hours late is
  put into the future. A first line without a time makes the anchor the last time, which lifts the clamp below the
  anchor. A clock alone that is later than the anchor's by more than an hour goes back a whole year. A year written
  `00` reads as none. A prescribed start day or year holds for every line, not for the first: the afternoon of the
  second day is put on the first.

Live view. A browser that reconnects while paused still says so while rows flow, and `live-tailing-design.md` says
a pause freezes the view; the next click puts the flag right (`unsure`). The pause button is disabled when no source
is shown as started, and a paused subscriber is told of none, so a view that was paused when its last source ended
cannot be resumed without leaving the page. A source that ends before its request announces it, or while the
browser is paused, is shown as started until the user leaves the page.

Import:
- Of two files whose timestamps must be confirmed one may never be: only the toolbar of the active file confirms, a
  detection makes the first such file active, applying a choice to all never confirms a file without timestamps, and
  nothing makes the other active. Next stays disabled until one of them is removed.
- When the save dialog is closed while it saves, its answer starts the upload a second time (`late`).
- The read of a preview before a detection may be rejected, of a file that changed or is gone. The promise at
  `FileAnalyzingStep.tsx:523-527` is settled by a callback that `FileSelectionService.ts:179-185` then never calls:
  the run hangs, its files stay "detecting", Next stays disabled and "Re-detect all" is not offered, until the user
  removes the files, changes the multiline setting or goes back (`hung`, `Stranded`).
- A pattern chosen after the timestamps were confirmed leaves them confirmed.
- A detection overwrites a pattern the user has chosen meanwhile, and one that belongs to a wizard that was reset
  goes on in the new one; of two patterns tried on a file, the one answered last stays. "Reset to auto" keeps the
  edited overrides. The preview shows the first file's lines and the globally selected pattern for every file.

Search:
- After a delete the table searches with the parameters of the click and an abort controller of its own: its answer
  may come after, and over, that of a newer search, and may end the spinner of one that is under way (`shown.by`,
  `alone`).
- Going back to an address without `q` keeps the old query, though the comment in the store says otherwise
  (`draft`). Zooming, choosing sources and going back do not return to the first page. Selecting no source means no
  filter, so retention that takes the last selected source widens the search to all. A source that appears between
  two visits is not selected after a reload.

Workspaces:
- The star in the menu sends back the copy of the list, which may be older than what was saved since, though
  `getting-started.md` says that a workspace restores what was saved (`torn`). Nor does it restore a custom range with a
  count of 0, which the field accepts (`RelativeDateSelector.tsx:59-62`): the server leaves the count out (`types.go:279`),
  the page takes its own count in its place (`useWorkspaceStore.ts:89`, `281`), and the menu reads Unsaved
  (`Restored`, `Countless`). A late answer to a save or a copy makes that workspace active
  again, so that the next update overwrites it with another's view. A refresh that is answered late brings back what
  was deleted, or loses what was saved meanwhile (`mixed`). A workspace without columns keeps those of the view
  before it.

## Plan

Done, in this order: `LiveHub` with `LiveFeed` and its proofs; `IngestSession`; `LogStorage`; `WorkspaceStore` with
`WorkspaceMap` and its proofs; `TailSource`; `LiveView`; `ImportWizard`; `SearchView`; `WorkspaceClient`;
`PatternLibrary`; the proofs of `LogStorage`; `TimeResolver`; the proofs of `PatternLibrary`; the proofs of
`EndIsSeen` and of the refinement of `LiveFeed`; the proofs of `LiveView`, of `IngestSession` and of
`WorkspaceClient`; the proofs about the list and the import of `PatternLibrary`; the proofs of `TailSource`, of
`ImportWizard`, of `SearchView` and of `TimeResolver`.

To come:
1. `ServerLifecycle`: shutdown, composed of the ends of sources, requests and storage.
2. `SearchPaging`: pages and buckets against a reference definition.
3. A composition of `LiveView` with the subscriber side of `LiveHub`.

## Not modelled

- Search paging: arithmetic over one sorted result, deterministic and covered by many unit tests of its package.
- Server lifecycle: start and shutdown; what a stop does to a source is in `TailSource`, what a restart does to the
  shards in `LogStorage`, but not the order in which a shutdown takes them.
- Rewriting of Bleve queries and the encoding of numbers: right or wrong as an inverted index is.
- Detection of formats, of record boundaries and of patterns, pattern suggestion: heuristics over text.
- The MCP server, the tail command line, the export: stateless clients of the HTTP interface.
- Two thirds of the repository are markup, styling, generated components, charts, tests that drive a browser, the
  demonstration and packaging. They keep no state of which a property could speak, so the map covers the code that
  decides something and stops there.
