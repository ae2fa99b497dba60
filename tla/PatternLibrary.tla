--------------------------- MODULE PatternLibrary ---------------------------
(***************************************************************************)
(* The pattern library: the handlers of /grok (grok.go), the side file in  *)
(* which the server keeps the timestamp configuration of a pattern         *)
(* (library_store.go), and the settings page that lists, edits, deletes    *)
(* and imports patterns (CustomPatterns.tsx).  The patterns themselves     *)
(* are kept by log2grok, which is external: each of its calls is one step  *)
(* that succeeds and is durable, or fails and changes nothing.             *)
(*                                                                         *)
(* The page sends one request at a time for each thing it does, so a       *)
(* request is named by that thing; one more is for whoever else uses the   *)
(* library, such as the save dialog of the import wizard.  A handler looks *)
(* a name up, changes the library and changes the side file in steps of    *)
(* their own, and no lock is held from one to the next.  What is left out: *)
(* the filter, the order of the list, leaving the page and coming back,    *)
(* and what a pattern says; its body stands for all of that.               *)
(***************************************************************************)
EXTENDS Naturals, Sequences

CONSTANTS
    Name,       \* names of patterns
    Lower,      \* the lower-case form of a name
    Body,       \* what a pattern consists of but for its configuration
    Config,     \* timestamp configurations
    File,       \* the files that may be imported, sequences of patterns
    Garbage,    \* a side file that is not JSON
    None,       \* null, or a pattern that is not there
    MaxWork,    \* bound: what users do
    MaxFailures \* bound: restarts, lost messages and failed writes

Pattern == [name : Name, body : Body, config : Config \union {None}]
Configs == [Name -> Config \union {None}]
NoConfigs == [n \in Name |-> None]
Nothing == [n \in Name |-> None]

ASSUME NoneAssumption == None \notin Name \union Body \union Config
ASSUME LowerAssumption == DOMAIN Lower = Name
ASSUME FileAssumption == File \subseteq Seq(Pattern) /\ << >> \notin File
ASSUME GarbageAssumption == Garbage \notin Configs
ASSUME BoundAssumption == MaxWork \in Nat /\ MaxFailures \in Nat

(* The functions of the page that send requests; "mount" is loadPatterns   *)
(* when the page appears, or when its user tries again.                    *)
Slot == {"mount", "save", "delete", "import", "other"}

(* What a list says of a pattern, if it is there.                          *)
Entry == [body : Body, config : Config \union {None}]
List == [Name -> Entry \union {None}]

ASSUME EntryAssumption == None \notin Entry

(* A request, with the name it is about and how far its handler is; the    *)
(* list of a GET is of the library first, and then has the configurations. *)
Nameless == [name |-> None, body |-> None, config |-> None]
Named(n) == [Nameless EXCEPT !.name = n]
Bodies == [Name -> Body \union {None}]
InFlight ==
    [op : {"GET", "POST", "PUT", "DELETE"},
     pattern : [name : Name \union {None}, body : Body \union {None},
                config : Config \union {None}],
     at : {"sent", "checked", "stored", "removed", "listed", "ok", "refused", "failed"},
     list : Bodies \union List \union {None}, alone : BOOLEAN]

ASSUME RequestAssumption == None \notin InFlight

VARIABLES
    library,       \* the patterns of log2grok: the body of each name
    configs,       \* LibraryStore.data
    sideFile,      \* pattern_timestamps.json
    requests,      \* the request of each slot, with how far its handler is
    patterns,      \* patterns of the page
    loading,       \* loading
    loadError,     \* loadError
    draft,         \* draft with isCreate: the name of it
    pendingDelete, \* pendingDelete
    import,        \* the import: its file, if that is being read, what is left of it, existing
    given,         \* history: the configurations given since the name was created
    torn,          \* history: names whose requests crossed, or were cut off
    mixed,         \* history: the list of the page may be old
    work,          \* history: what users did, at most MaxWork
    failures       \* history: faults, at most MaxFailures

serverVars == <<library, configs, sideFile>>
listVars == <<patterns, loading, loadError>>
pageVars == <<listVars, draft, pendingDelete, import>>
historyVars == <<given, torn, mixed, work, failures>>
vars == <<serverVars, requests, pageVars, historyVars>>

Work == work < MaxWork /\ work' = work + 1
Fault == failures < MaxFailures /\ failures' = failures + 1
FaultIf(b) == failures' = (IF b THEN failures + 1 ELSE failures) /\ failures' <= MaxFailures

-----------------------------------------------------------------------------
(* Requests.  "alone" is history: no other was in flight in its time.      *)

Idle(k) == requests[k] = None
OthersIdle(k) == \A j \in Slot \ {k} : Idle(j)

Request(k, op, pattern) ==
    [op |-> op, pattern |-> pattern, at |-> "sent", list |-> None,
     alone |-> OthersIdle(k) /\ (Idle(k) \/ requests[k].alone)]

Send(k, op, pattern) ==
    requests' = [j \in Slot |->
        IF j = k THEN Request(k, op, pattern)
        ELSE IF Idle(j) THEN None ELSE [requests[j] EXCEPT !.alone = FALSE]]

Done(k) == requests' = [requests EXCEPT ![k] = None]

(* The handler of a request goes on, or answers: "ok", "refused" (the name *)
(* is there already, or it is not) or "failed".                            *)
Errors == {"refused", "failed"}
GoOn(k, at) == requests' = [requests EXCEPT ![k].at = at]

Pending(k, ops, at) == ~Idle(k) /\ requests[k].op \in ops /\ requests[k].at = at
Fails(k, ops) == \E at \in Errors : Pending(k, ops, at)
Pat(k) == requests[k].pattern

-----------------------------------------------------------------------------
(* The server.                                                             *)

(* Set and Delete of LibraryStore: a change stays in memory also when its  *)
(* flush fails.                                                            *)
SetConfigs(new, flushed) ==
    /\ configs' = new
    /\ sideFile' = IF flushed THEN new ELSE sideFile
    /\ FaultIf(~flushed)

(* A request about the name in another slot has come as far as "at".       *)
AnotherAt(k, at) == \E j \in Slot \ {k} : ~Idle(j) /\ requests[j].at = at /\ Pat(j).name = Pat(k).name

(* POST wants a name that is not there, PUT one that is.                   *)
LookUp(k) ==
    /\ Pending(k, {"POST", "PUT"}, "sent")
    /\ GoOn(k, IF (library[Pat(k).name] # None) = (requests[k].op = "PUT")
               THEN "checked" ELSE "refused")
    /\ UNCHANGED <<serverVars, pageVars, historyVars>>

(* UpsertLibraryEntry, whatever has happened to the name since.            *)
Upsert(k) ==
    /\ Pending(k, {"POST", "PUT"}, "checked")
    /\ LET p == Pat(k)
       IN  \/ /\ library' = [library EXCEPT ![p.name] = p.body]
              /\ given' = [given EXCEPT ![p.name] =
                              (IF library[p.name] = None THEN {} ELSE @)
                              \union ({p.config} \ {None})]
              /\ torn' = IF AnotherAt(k, "removed") THEN torn \union {p.name} ELSE torn
              /\ GoOn(k, IF p.config = None THEN "ok" ELSE "stored")
           \/ GoOn(k, "failed") /\ UNCHANGED <<library, given, torn>>
    /\ UNCHANGED <<configs, sideFile, pageVars, mixed, work, failures>>

(* The configuration goes to the side file afterwards, and only if there   *)
(* is one; a failure is logged.                                            *)
SetConfig(k, flushed) ==
    /\ Pending(k, {"POST", "PUT"}, "stored")
    /\ SetConfigs([configs EXCEPT ![Pat(k).name] = Pat(k).config], flushed)
    /\ GoOn(k, "ok")
    /\ UNCHANGED <<library, pageVars, given, torn, mixed, work>>

(* RemoveLibraryEntry.                                                     *)
Remove(k) ==
    /\ Pending(k, {"DELETE"}, "sent")
    /\ LET n == Pat(k).name
       IN  \/ /\ library[n] # None
              /\ library' = [library EXCEPT ![n] = None]
              /\ torn' = IF AnotherAt(k, "stored") THEN torn \union {n} ELSE torn
              /\ GoOn(k, "removed")
           \/ /\ GoOn(k, IF library[n] = None THEN "refused" ELSE "failed")
              /\ UNCHANGED <<library, torn>>
    /\ UNCHANGED <<configs, sideFile, pageVars, given, mixed, work, failures>>

(* Faulty variant of DropConfig: the configuration stays.                  *)
DropNothing(k, flushed) ==
    /\ Pending(k, {"DELETE"}, "removed")
    /\ flushed
    /\ GoOn(k, "ok")
    /\ UNCHANGED <<serverVars, pageVars, historyVars>>

(* "Drop any side-file timestamp config so it doesn't shadow a future      *)
(* pattern reusing the same name."                                         *)
DropConfig(k, flushed) ==
    /\ Pending(k, {"DELETE"}, "removed")
    /\ IF configs[Pat(k).name] = None
       THEN flushed /\ UNCHANGED <<configs, sideFile, failures>>
       ELSE SetConfigs([configs EXCEPT ![Pat(k).name] = None], flushed)
    /\ GoOn(k, "ok")
    /\ UNCHANGED <<library, pageVars, given, torn, mixed, work>>

(* GET lists the library, and then takes a snapshot of the side file.      *)
ListLibrary(k) ==
    /\ Pending(k, {"GET"}, "sent")
    /\ requests' = [requests EXCEPT ![k].at = "listed", ![k].list = library]
    /\ UNCHANGED <<serverVars, pageVars, historyVars>>

View(bodies) ==
    [n \in Name |-> IF bodies[n] = None THEN None
                    ELSE [body |-> bodies[n], config |-> configs[n]]]

Snapshot(k) ==
    /\ Pending(k, {"GET"}, "listed")
    /\ requests' = [requests EXCEPT ![k].at = "ok", ![k].list = View(@)]
    /\ UNCHANGED <<serverVars, pageVars, historyVars>>

Handle ==
    \E k \in Slot :
        \/ LookUp(k) \/ Upsert(k) \/ Remove(k) \/ ListLibrary(k) \/ Snapshot(k)
        \/ \E flushed \in BOOLEAN : SetConfig(k, flushed) \/ DropConfig(k, flushed)

(* A request is lost before it arrives, or its answer afterwards.          *)
Lose(k) ==
    /\ Fault
    /\ ~Idle(k) /\ requests[k].at \in {"sent", "ok"}
    /\ GoOn(k, "failed")
    /\ mixed' = TRUE
    /\ UNCHANGED <<serverVars, pageVars, given, torn, work>>

(* A restart reads the side file; one that is not JSON counts as empty and *)
(* is written over by the next change.                                     *)
Restart(found) ==
    /\ Fault
    /\ found \in {sideFile, Garbage}
    /\ sideFile' = found
    /\ configs' = IF found = Garbage THEN NoConfigs ELSE found
    /\ requests' = [k \in Slot |->
           IF Idle(k) THEN None
           ELSE [requests[k] EXCEPT !.alone = FALSE,
                                    !.at = IF @ \in Errors \union {"ok"} THEN @ ELSE "failed"]]
    /\ torn' = torn \union {n \in Name : configs'[n] \notin {None, configs[n]}}
                    \union {Pat(k).name : k \in {j \in Slot : Pending(j, {"DELETE"}, "removed")}}
    /\ mixed' = TRUE
    /\ UNCHANGED <<library, pageVars, given, work>>

-----------------------------------------------------------------------------
(* The settings page.                                                      *)

Init ==
    /\ library = Nothing
    /\ configs = NoConfigs
    /\ sideFile = NoConfigs
    /\ requests = [k \in Slot |-> IF k = "mount"
                                  THEN [op |-> "GET", pattern |-> Nameless, at |-> "sent",
                                        list |-> None, alone |-> TRUE]
                                  ELSE None]
    /\ patterns = Nothing
    /\ loading = TRUE
    /\ loadError = FALSE
    /\ draft = None
    /\ pendingDelete = None
    /\ import = None
    /\ given = [n \in Name |-> {}]
    /\ torn = {}
    /\ mixed = TRUE
    /\ work = 0
    /\ failures = 0

Known == {n \in Name : patterns[n] # None}
Lowered(names) == {Lower[n] : n \in names}

LoadPatterns(k) == Send(k, "GET", Nameless) /\ loading' = TRUE /\ loadError' = FALSE

Retry ==
    /\ Work
    /\ loadError /\ ~loading /\ draft = None /\ pendingDelete = None
    /\ Idle("mount")
    /\ LoadPatterns("mount")
    /\ UNCHANGED <<serverVars, patterns, draft, pendingDelete, import, given, torn, mixed, failures>>

(* An empty list is left out of its answer, which then counts as failed:   *)
(* the patterns stay as they were.                                         *)
Listed(k) ==
    /\ Pending(k, {"GET"}, "ok")
    /\ IF requests[k].list = Nothing
       THEN loadError' = TRUE /\ UNCHANGED patterns
       ELSE patterns' = requests[k].list /\ UNCHANGED loadError
    /\ loading' = FALSE
    /\ Done(k)
    /\ mixed' = ~requests[k].alone
    /\ UNCHANGED <<serverVars, draft, pendingDelete, import, given, torn, work, failures>>

ListFails(k) ==
    /\ Pending(k, {"GET"}, "failed")
    /\ loading' = FALSE
    /\ loadError' = TRUE
    /\ Done(k)
    /\ mixed' = TRUE
    /\ UNCHANGED <<serverVars, patterns, draft, pendingDelete, import, given, torn, work, failures>>

NoDialog == draft = None /\ pendingDelete = None
TableShown == NoDialog /\ ~loading /\ ~loadError

OpenCreate ==
    /\ Work /\ NoDialog
    /\ draft' = [create |-> TRUE, name |-> None]
    /\ UNCHANGED <<serverVars, requests, listVars, pendingDelete, import, given, torn, mixed,
                   failures>>

OpenEdit(n) ==
    /\ Work /\ TableShown /\ n \in Known
    /\ draft' = [create |-> FALSE, name |-> n]
    /\ UNCHANGED <<serverVars, requests, listVars, pendingDelete, import, given, torn, mixed,
                   failures>>

(* The dialogs can be closed with Escape also while their request runs.    *)
CloseDialog ==
    /\ ~NoDialog
    /\ draft' = None
    /\ pendingDelete' = None
    /\ UNCHANGED <<serverVars, requests, listVars, import, historyVars>>

(* A new name must differ from those in the list in more than case.  The   *)
(* configuration is the one in the list, "this page doesn't edit it".      *)
HandleSave(p) ==
    /\ Work
    /\ draft # None /\ Idle("save")
    /\ IF draft.create
       THEN Lower[p.name] \notin Lowered(Known) /\ p.config = None
       ELSE /\ p.name = draft.name
            /\ p.config = IF p.name \in Known THEN patterns[p.name].config ELSE None
    /\ Send("save", IF draft.create THEN "POST" ELSE "PUT", p)
    /\ UNCHANGED <<serverVars, pageVars, given, torn, mixed, failures>>

SaveAnswered ==
    /\ Pending("save", {"POST", "PUT"}, "ok")
    /\ draft' = None
    /\ LoadPatterns("save")
    /\ UNCHANGED <<serverVars, patterns, pendingDelete, import, historyVars>>

SaveFails ==
    /\ Fails("save", {"POST", "PUT"})
    /\ Done("save")
    /\ UNCHANGED <<serverVars, pageVars, historyVars>>

AskDelete(n) ==
    /\ TableShown /\ n \in Known
    /\ pendingDelete' = n
    /\ UNCHANGED <<serverVars, requests, listVars, draft, import, historyVars>>

HandleDelete ==
    /\ Work
    /\ pendingDelete # None /\ Idle("delete")
    /\ Send("delete", "DELETE", Named(pendingDelete))
    /\ UNCHANGED <<serverVars, pageVars, given, torn, mixed, failures>>

(* Faulty variant of DeleteAnswered: the list is left as it is.            *)
DeleteAnsweredOnly ==
    /\ Pending("delete", {"DELETE"}, "ok")
    /\ pendingDelete' = None
    /\ Done("delete")
    /\ UNCHANGED <<serverVars, listVars, draft, import, historyVars>>

DeleteAnswered ==
    /\ Pending("delete", {"DELETE"}, "ok")
    /\ pendingDelete' = None
    /\ LoadPatterns("delete")
    /\ UNCHANGED <<serverVars, patterns, draft, import, historyVars>>

DeleteFails ==
    /\ Fails("delete", {"DELETE"})
    /\ Done("delete")
    /\ UNCHANGED <<serverVars, pageVars, historyVars>>

-----------------------------------------------------------------------------
(* Importing a file: one request after the other.                          *)

(* A pattern is updated if its name is known but for case.                 *)
SendPattern(p, existing) ==
    Send("import", IF Lower[p.name] \in existing THEN "PUT" ELSE "POST", p)

(* The file is being read.                                                 *)
Reading == import # None /\ import.reading

(* The list is the one of the click, whatever the page loads while the     *)
(* file is read.                                                           *)
OnImportFile(file) ==
    /\ Work /\ NoDialog
    /\ Idle("import") /\ ~Reading
    /\ import' = [file |-> file, reading |-> TRUE, todo |-> file,
                  existing |-> Lowered(Known), clean |-> FALSE]
    /\ UNCHANGED <<serverVars, requests, listVars, draft, pendingDelete, given, torn, mixed,
                   failures>>

(* The page says that it failed to load patterns, and has some.            *)
Stale == loadError /\ Known # {}

(* The history notes if the list of the click is still the page's.         *)
FileRead ==
    /\ Reading
    /\ import' = [import EXCEPT !.reading = FALSE,
                     !.clean = ~mixed /\ ~Stale /\ import.existing = Lowered(Known)]
    /\ SendPattern(import.file[1], import.existing)
    /\ UNCHANGED <<serverVars, listVars, draft, pendingDelete, historyVars>>

(* It cannot be read, or has no patterns.                                  *)
FileReadFails ==
    /\ Reading
    /\ import' = None
    /\ UNCHANGED <<serverVars, requests, listVars, draft, pendingDelete, historyVars>>

(* Faulty variant of Existing: names of the file are not remembered.       *)
ExistingBefore(p) == import.existing

Existing(p) == import.existing \union {Lower[p.name]}

ImportAnswered ==
    /\ Pending("import", {"POST", "PUT"}, "ok") \/ Fails("import", {"POST", "PUT"})
    /\ LET ok == requests["import"].at = "ok"
           existing == IF ok THEN Existing(Pat("import")) ELSE import.existing
       IN  IF Len(import.todo) > 1
           THEN /\ import' = [import EXCEPT !.todo = Tail(@), !.existing = existing]
                /\ SendPattern(import.todo[2], existing)
                /\ UNCHANGED <<loading, loadError>>
           ELSE import' = None /\ LoadPatterns("import")
    /\ UNCHANGED <<serverVars, patterns, draft, pendingDelete, historyVars>>

-----------------------------------------------------------------------------
(* Whoever else uses the library: another page, or the save dialog of the  *)
(* import wizard, which creates patterns with a configuration.             *)
OtherSends(op, p) ==
    /\ Work
    /\ Idle("other")
    /\ Send("other", op, p)
    /\ mixed' = TRUE
    /\ UNCHANGED <<serverVars, pageVars, given, torn, failures>>

OtherAnswered ==
    /\ ~Idle("other") /\ requests["other"].at \in Errors \union {"ok"}
    /\ Done("other")
    /\ UNCHANGED <<serverVars, pageVars, historyVars>>

Page ==
    \/ \E k \in Slot : Listed(k) \/ ListFails(k)
    \/ Retry \/ OpenCreate \/ CloseDialog
    \/ \E n \in Name : OpenEdit(n) \/ AskDelete(n)
    \/ \E p \in Pattern : HandleSave(p)
    \/ SaveAnswered \/ SaveFails
    \/ HandleDelete \/ DeleteAnswered \/ DeleteFails
    \/ \E file \in File : OnImportFile(file)
    \/ FileRead \/ FileReadFails
    \/ ImportAnswered

Next ==
    \/ Handle
    \/ \E k \in Slot : Lose(k)
    \/ \E found \in {sideFile, Garbage} : Restart(found)
    \/ Page
    \/ \E op \in {"POST", "PUT"}, p \in Pattern : OtherSends(op, p)
    \/ \E n \in Name : OtherSends("DELETE", Named(n))
    \/ OtherAnswered

Spec == Init /\ [][Next]_vars

-----------------------------------------------------------------------------
(* Correctness.                                                            *)

TypeOK ==
    /\ library \in Bodies
    /\ configs \in Configs /\ sideFile \in Configs \union {Garbage}
    /\ patterns \in List
    /\ requests \in [Slot -> InFlight \union {None}]
    /\ \A k \in Slot : ~Idle(k) /\ requests[k].alone => OthersIdle(k)
    /\ loading \in BOOLEAN /\ loadError \in BOOLEAN /\ mixed \in BOOLEAN
    /\ draft \in [create : BOOLEAN, name : Name \union {None}] \union {None}
    /\ pendingDelete \in Name \union {None}
    /\ given \in [Name -> SUBSET Config] /\ torn \subseteq Name
    /\ work \in 0 .. MaxWork /\ failures \in 0 .. MaxFailures

(* A pattern has no timestamp configuration but one it was given itself: a *)
(* deleted pattern of the same name leaves it none, whatever writes fail   *)
(* and whatever a restart finds; unless requests about the name crossed, a *)
(* restart cut its deletion off, or found a configuration whose removal    *)
(* the side file had not taken.                                            *)
ConfigIsItsOwn ==
    \A n \in Name \ torn :
        library[n] # None /\ configs[n] # None => configs[n] \in given[n]

(* The library keeps its types, and the configurations their patterns.     *)
Consistent == TypeOK /\ ConfigIsItsOwn

(* When the page rests, its list is the library, with the configurations   *)
(* it would send back with an edit: what it changes it loads again.  Only  *)
(* requests that overlap, get lost or are somebody else's leave it old.    *)
(* Of a library that is empty it says that it failed to load, whatever     *)
(* list it had.                                                            *)
ListIsLibrary ==
    ((\A k \in Slot : Idle(k)) /\ ~mixed)
      => IF library = Nothing THEN loadError ELSE patterns = View(library) /\ ~loadError

(* Every pattern of an imported file is created or updated, whichever it   *)
(* takes, also when the file names one twice: none is refused for its name *)
(* unless the list is not the library's (Stale) or has changed by the time *)
(* the file is read, or the library changes under the import; or names     *)
(* differ in case only, which the page takes for one, the server for two.  *)
ImportIsTaken ==
    LET r == requests["import"]
    IN  /\ ~Idle("import") /\ import # None /\ import.clean /\ ~mixed
        /\ r.alone /\ r.at = "refused"
        => \E n \in Known \union {import.file[i].name : i \in DOMAIN import.file} :
              n # r.pattern.name /\ Lower[n] = Lower[r.pattern.name]

=============================================================================
