--------------------------- MODULE WorkspaceStore ---------------------------
(***************************************************************************)
(* The store of saved workspaces, workspaces/store.go: a map in memory     *)
(* behind one mutex, and one file that every change rewrites through a     *)
(* temporary file, fsync, rename and an fsync of the directory.            *)
(*                                                                         *)
(* A change holds the mutex from the moment it alters the map until its    *)
(* flush has succeeded or been rolled back, so one change at a time has a  *)
(* program counter.  The file is the version it holds, or Garbage when     *)
(* load refuses it.  A request that validate refuses, or that the map      *)
(* refuses (unknown or taken id, no room), changes nothing and is no step. *)
(***************************************************************************)
EXTENDS Naturals, FiniteSets

CONSTANTS
    Id,             \* ids of workspaces
    Content,        \* what a valid workspace says, but for its name and times
    None,           \* no workspace under an id
    Garbage,        \* a file that cannot be parsed
    MaxWorkspaces,  \* maxWorkspaces
    MaxFailures     \* bound: crashes, power failures, failed directory fsyncs

ASSUME IdAssumption == IsFiniteSet(Id)
ASSUME NoneAssumption == None \notin Content
ASSUME MaxWorkspacesAssumption == MaxWorkspaces \in Nat
ASSUME MaxFailuresAssumption == MaxFailures \in Nat

Version == [Id -> Content \union {None}]
ASSUME GarbageAssumption == Garbage \notin Version

Empty == [i \in Id |-> None]
Size(map) == Cardinality({i \in Id : map[i] # None})

VARIABLES
    data,       \* Store.data
    loadErr,    \* Store.loadErr # nil
    pc,         \* how far the change that holds the mutex has come
    id,         \* the entry it alters, None when the mutex is free
    existing,   \* the entry it restores if its flush fails
    tmp,        \* the temporary file: its version, and whether it is synced
    file,       \* what workspaces.json reads as
    survivors,  \* what it may read as after a power failure
    shown,      \* history: the version the last reader was given
    unsettled,  \* history: no directory fsync has succeeded since a rename
    failures    \* crashes, power failures and failed directory fsyncs so far

memoryVars == <<data, loadErr, pc, id, existing>>
diskVars == <<tmp, file, survivors>>
vars == <<memoryVars, diskVars, shown, unsettled, failures>>

Loadable(version) == version # Garbage /\ Size(version) <= MaxWorkspaces

(* NewStore and load.  A file that load refuses makes every later request  *)
(* fail, so that it is never overwritten.                                  *)
Load(version) ==
    /\ data' = IF Loadable(version) THEN version ELSE Empty
    /\ loadErr' = ~Loadable(version)

NoTmp == [version |-> Garbage, synced |-> FALSE]

Init ==
    /\ file \in {Empty, Garbage}
    /\ survivors = {file}
    /\ data = Empty
    /\ loadErr = (file = Garbage)
    /\ pc = "free"
    /\ id = None
    /\ existing = None
    /\ tmp = NoTmp
    /\ shown = Empty
    /\ unsettled = FALSE
    /\ failures = 0

-----------------------------------------------------------------------------
(* Requests: the change in memory, under the mutex.                        *)

Release == pc' = "free" /\ id' = None /\ existing' = None

Usable == pc = "free" /\ ~loadErr

Alter(i, content) ==
    /\ data' = [data EXCEPT ![i] = content]
    /\ id' = i
    /\ existing' = data[i]
    /\ pc' = "changed"
    /\ UNCHANGED <<loadErr, diskVars, shown, unsettled, failures>>

(* Faulty variant of HasSpace: one too many.                               *)
HasSpaceOrIsFull == Size(data) <= MaxWorkspaces

HasSpace == Size(data) < MaxWorkspaces

Create(i, content) ==
    /\ Usable
    /\ HasSpace
    /\ data[i] = None
    /\ Alter(i, content)

Update(i, content) ==
    /\ Usable
    /\ data[i] # None
    /\ Alter(i, content)

Delete(i) ==
    /\ Usable
    /\ data[i] # None
    /\ Alter(i, None)

Duplicate(i, copy) ==
    /\ Usable
    /\ HasSpace
    /\ data[i] # None
    /\ data[copy] = None
    /\ Alter(copy, data[i])

(* Faulty variant of List: no lock.                                        *)
ListUnlocked ==
    /\ ~loadErr
    /\ shown' = data
    /\ UNCHANGED <<memoryVars, diskVars, unsettled, failures>>

(* List and Get, under the read lock.                                      *)
List ==
    /\ Usable
    /\ shown' = data
    /\ UNCHANGED <<memoryVars, diskVars, unsettled, failures>>

-----------------------------------------------------------------------------
(* flushLocked.                                                            *)

WriteTmp ==
    /\ pc = "changed"
    /\ tmp' = [version |-> data, synced |-> FALSE]
    /\ pc' = "written"
    /\ UNCHANGED <<data, loadErr, id, existing, file, survivors, shown, unsettled, failures>>

SyncTmp ==
    /\ pc = "written"
    /\ tmp' = [tmp EXCEPT !.synced = TRUE]
    /\ pc' = "synced"
    /\ UNCHANGED <<data, loadErr, id, existing, file, survivors, shown, unsettled, failures>>

(* A rename may reach the disk before the data it names, unless that was   *)
(* synced.                                                                 *)
RenameTmp ==
    /\ pc = "synced"
    /\ file' = tmp.version
    /\ survivors' = survivors \union {IF tmp.synced THEN tmp.version ELSE Garbage}
    /\ tmp' = NoTmp
    /\ pc' = "renamed"
    /\ UNCHANGED <<data, loadErr, id, existing, shown, unsettled, failures>>

(* Nothing checks the outcome of the directory fsync.                      *)
SyncDir(done) ==
    /\ pc = "renamed"
    /\ survivors' = IF done THEN {file} ELSE survivors
    /\ unsettled' = ~done
    /\ failures' = IF done THEN failures ELSE failures + 1
    /\ failures' <= MaxFailures
    /\ Release
    /\ UNCHANGED <<data, loadErr, tmp, file, shown>>

(* Opening, writing, syncing, closing or renaming the temporary file       *)
(* fails: the request undoes its change in memory and reports the error.   *)
FlushFails(left) ==
    /\ pc \in {"changed", "written", "synced"}
    /\ data' = [data EXCEPT ![id] = existing]
    /\ tmp' = left
    /\ Release
    /\ UNCHANGED <<loadErr, file, survivors, shown, unsettled, failures>>

-----------------------------------------------------------------------------
(* A crash of the process keeps what was written, synced or not; a power   *)
(* failure keeps what the disk has.                                        *)

Restart ==
    /\ failures < MaxFailures
    /\ failures' = failures + 1
    /\ Release
    /\ UNCHANGED <<tmp, shown>>

Crash ==
    /\ Restart
    /\ Load(file)
    /\ unsettled' = (unsettled \/ pc = "renamed")
    /\ UNCHANGED <<file, survivors>>

PowerFailure ==
    /\ Restart
    /\ file' \in survivors
    /\ survivors' = {file'}
    /\ Load(file')
    /\ unsettled' = FALSE

-----------------------------------------------------------------------------
Next ==
    \/ \E i \in Id, content \in Content : Create(i, content) \/ Update(i, content)
    \/ \E i \in Id : Delete(i)
    \/ \E i, copy \in Id : Duplicate(i, copy)
    \/ List
    \/ WriteTmp \/ SyncTmp \/ RenameTmp
    \/ \E done \in BOOLEAN : SyncDir(done)
    \/ \E left \in {tmp, NoTmp} : FlushFails(left)
    \/ Crash
    \/ PowerFailure

Spec == Init /\ [][Next]_vars

-----------------------------------------------------------------------------
(* Correctness.                                                            *)

(* The variables keep their types.                                         *)
TypeOK ==
    /\ data \in Version
    /\ loadErr \in BOOLEAN
    /\ pc \in {"free", "changed", "written", "synced", "renamed"}
    /\ id \in Id \union {None}
    /\ existing \in Content \union {None}
    /\ tmp \in [version : Version \union {Garbage}, synced : BOOLEAN]
    /\ file \in Version \union {Garbage}
    /\ survivors \subseteq Version \union {Garbage}
    /\ shown \in Version
    /\ unsettled \in BOOLEAN
    /\ failures \in 0 .. MaxFailures

(* Between two requests the map in memory is the one in the file, whichever *)
(* step of the flush before failed: the answer a client got, success or    *)
(* error, is what a restart confirms.                                      *)
MemoryIsFile == Usable => data = file

(* The store never brings itself into a state it refuses to start from:    *)
(* whatever a crash or a power failure leaves behind, while a flush is     *)
(* running too, loads, unless the file did not load to begin with.         *)
NeverUnloadable ==
    ~loadErr => Loadable(file) /\ \A version \in survivors : Loadable(version)

(* A change that was answered survives a power failure, if the directory   *)
(* fsync, whose outcome nobody checks, has succeeded since.                *)
AnsweredSurvives == Usable /\ ~unsettled => survivors = {data}

(* The disk is safe at every moment, whichever step of a flush failed or   *)
(* was cut off: what it reads as loads, and keeps what was answered.       *)
DiskIsSafe == NeverUnloadable /\ AnsweredSurvives

(* A file that does not load is left alone for its owner to repair.        *)
GarbageIsKept == [][file = Garbage => UNCHANGED file]_vars

Visible(version) == IF Loadable(version) THEN version ELSE Empty

Map == INSTANCE WorkspaceMap
           WITH value <- Visible(file),
                fallback <- {Visible(version) : version \in survivors}

(* Clients read committed versions only, a version differs from the one    *)
(* before in one entry, and a power failure goes back to a version         *)
(* committed since the last directory fsync.                               *)
ImplementsWorkspaceMap == Map!Spec

=============================================================================
