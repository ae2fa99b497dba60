------------------------ MODULE WorkspaceStoreProofs ------------------------
(***************************************************************************)
(* Proofs about WorkspaceStore, for any ids, contents and limit.           *)
(*                                                                         *)
(* Memory and file differ only while a flush runs, and then in the one     *)
(* entry it alters; what a power failure may bring back is a set of        *)
(* loadable versions that shrinks to the file when the directory is        *)
(* synced; the temporary file is renamed only when it holds the map in     *)
(* memory and is synced.  Together these are inductive.                    *)
(***************************************************************************)
EXTENDS WorkspaceStore, FiniteSetTheorems, TLAPS

Flushing == pc \in {"changed", "written", "synced"}

(* A file that did not load: nothing touches it.                           *)
Refused ==
    loadErr => file = Garbage /\ survivors = {Garbage} /\ pc = "free" /\ data = Empty

(* A file that did: whatever a restart finds loads.                        *)
AllLoadable ==
    ~loadErr => file \in survivors /\ \A version \in survivors : Loadable(version)

(* The map in memory, while no flush is running and while one is.          *)
MemoryAtRest == ~loadErr /\ ~Flushing => data = file
MemoryInFlush ==
    Flushing =>
        /\ id \in Id
        /\ existing = file[id]
        /\ data = [file EXCEPT ![id] = data[id]]
        /\ Size(data) <= MaxWorkspaces

(* What is renamed is the map in memory, and is on disk.                   *)
TmpIsMemory ==
    /\ pc \in {"written", "synced"} => tmp.version = data
    /\ pc = "synced" => tmp.synced

(* Only a rename that has not been settled leaves the disk undecided.      *)
Settled == pc # "renamed" /\ ~unsettled => survivors = {file}

Inv ==
    /\ TypeOK
    /\ Refused
    /\ AllLoadable
    /\ MemoryAtRest
    /\ MemoryInFlush
    /\ TmpIsMemory
    /\ Settled

-----------------------------------------------------------------------------
(* The number of workspaces in a version is a natural number.              *)
LEMMA SizeType ==
    ASSUME NEW v \in Version
    PROVE  Size(v) \in Nat
<1>1. IsFiniteSet({i \in Id : v[i] # None})
  BY IdAssumption, FS_Subset
<1> QED
  BY <1>1, FS_CardinalityType DEF Size

(* The store without workspaces is within every limit.                     *)
LEMMA EmptySize == Empty \in Version /\ Size(Empty) = 0
<1>1. {i \in Id : Empty[i] # None} = {}
  BY DEF Empty
<1> QED
  BY <1>1, FS_EmptySet DEF Size, Empty, Version

(* Adding a workspace adds one to the size at most.                        *)
LEMMA SizeOfAdded ==
    ASSUME NEW v \in Version, NEW i \in Id, NEW c \in Content \union {None}
    PROVE  Size([v EXCEPT ![i] = c]) <= Size(v) + 1
<1> DEFINE old == {k \in Id : v[k] # None}
           new == {k \in Id : [v EXCEPT ![i] = c][k] # None}
<1>1. IsFiniteSet(old)
  BY IdAssumption, FS_Subset
<1>2. new \subseteq old \union {i}
  BY DEF Version
<1>3. /\ IsFiniteSet(old \union {i})
      /\ Cardinality(old \union {i}) <= Cardinality(old) + 1
  <2>1. /\ IsFiniteSet(old \union {i})
        /\ \/ Cardinality(old \union {i}) = Cardinality(old)
           \/ Cardinality(old \union {i}) = Cardinality(old) + 1
    BY <1>1, FS_AddElement
  <2>2. Cardinality(old) \in Nat
    BY <1>1, FS_CardinalityType
  <2> HIDE DEF old
  <2> QED
    BY <2>1, <2>2
<1>4. Cardinality(new) <= Cardinality(old \union {i})
  BY <1>2, <1>3, FS_Subset
<1>5. /\ Cardinality(new) \in Nat
      /\ Cardinality(old) \in Nat
      /\ Cardinality(old \union {i}) \in Nat
  BY <1>1, <1>2, <1>3, FS_Subset, FS_CardinalityType
<1>6. Size(v) = Cardinality(old) /\ Size([v EXCEPT ![i] = c]) = Cardinality(new)
  BY DEF Size
<1> HIDE DEF old, new
<1> QED
  BY <1>3, <1>4, <1>5, <1>6

(* Replacing or removing a workspace adds nothing.                         *)
LEMMA SizeOfReplaced ==
    ASSUME NEW v \in Version, NEW i \in Id, v[i] # None, NEW c \in Content \union {None}
    PROVE  Size([v EXCEPT ![i] = c]) <= Size(v)
<1>1. IsFiniteSet({k \in Id : v[k] # None})
  BY IdAssumption, FS_Subset
<1>2. {k \in Id : [v EXCEPT ![i] = c][k] # None} \subseteq {k \in Id : v[k] # None}
  BY DEF Version
<1> QED
  BY <1>1, <1>2, FS_Subset DEF Size

(* Undoing the change of one entry gives back the map before it.           *)
LEMMA UndoRestores ==
    ASSUME NEW v \in Version, NEW w \in Version, NEW i \in Id,
           w = [v EXCEPT ![i] = w[i]]
    PROVE  [w EXCEPT ![i] = v[i]] = v
BY DEF Version

(* No temporary file is a value of tmp.                                    *)
LEMMA NoTmpType == NoTmp \in [version : Version \union {Garbage}, synced : BOOLEAN]
BY DEF NoTmp

(* What cannot be parsed does not load.                                    *)
LEMMA GarbageRefused == ~Loadable(Garbage)
BY DEF Loadable

-----------------------------------------------------------------------------
(* The invariant holds at the start.                                       *)
LEMMA InvInit == Init => Inv
<1> SUFFICES ASSUME Init PROVE Inv
  OBVIOUS
<1>1. Empty \in Version /\ Size(Empty) <= MaxWorkspaces
  BY EmptySize, MaxWorkspacesAssumption
<1>2. Empty # Garbage
  BY <1>1, GarbageAssumption
<1>3. TypeOK
  <2>1. file \in Version \union {Garbage} /\ survivors \subseteq Version \union {Garbage}
    BY <1>1 DEF Init
  <2>2. tmp \in [version : Version \union {Garbage}, synced : BOOLEAN]
    BY NoTmpType DEF Init
  <2>3. loadErr \in BOOLEAN /\ unsettled \in BOOLEAN
    BY DEF Init
  <2>4. failures \in 0 .. MaxFailures
    BY MaxFailuresAssumption DEF Init
  <2>5. data \in Version /\ shown \in Version /\ pc = "free" /\ id = None /\ existing = None
    BY <1>1 DEF Init
  <2> QED
    BY <2>1, <2>2, <2>3, <2>4, <2>5, Zenon DEF TypeOK
<1>4. Refused /\ MemoryAtRest /\ MemoryInFlush /\ TmpIsMemory /\ Settled
  BY <1>2 DEF Init, Refused, MemoryAtRest, MemoryInFlush, TmpIsMemory, Settled, Flushing
<1>5. AllLoadable
  BY <1>1, <1>2 DEF Init, AllLoadable, Loadable
<1> QED
  BY <1>3, <1>4, <1>5 DEF Inv

(* The start of a change: the map in memory is the file with one entry     *)
(* altered, and is within the limit.                                       *)
LEMMA InvAlter ==
    ASSUME Inv, Usable, NEW i \in Id, NEW c \in Content \union {None}, Alter(i, c),
           Size([data EXCEPT ![i] = c]) <= MaxWorkspaces
    PROVE  Inv'
<1> USE DEF Inv, Alter, Usable, diskVars
<1>1. data \in Version /\ data' \in Version
  BY DEF TypeOK, Version
<1>2. data = file
  BY DEF MemoryAtRest, Flushing
<1>3. data' = [file EXCEPT ![i] = data'[i]] /\ existing' = file[i]
  BY <1>1, <1>2 DEF Version
<1>4. TypeOK'
  BY <1>1 DEF TypeOK, Version
<1>5. MemoryInFlush'
  BY <1>3 DEF MemoryInFlush
<1>6. (Refused /\ AllLoadable /\ MemoryAtRest /\ TmpIsMemory /\ Settled)'
  BY DEF Refused, AllLoadable, MemoryAtRest, Flushing, TmpIsMemory, Settled
<1> QED
  BY <1>4, <1>5, <1>6

(* A restart reads a version the disk may hold.                            *)
LEMMA InvLoad ==
    ASSUME Inv, NEW v \in survivors, file' = v, file' \in survivors',
           survivors' \subseteq survivors, Load(v), Restart,
           ~unsettled' => survivors' = {v}, unsettled' \in BOOLEAN
    PROVE  Inv'
<1> USE DEF Inv, Load, Restart, Release
<1>1. CASE loadErr
  <2>1. v = Garbage /\ survivors' = {Garbage} /\ ~Loadable(v)
    BY <1>1, GarbageRefused DEF Refused
  <2>2. TypeOK'
    BY <2>1, EmptySize, MaxFailuresAssumption DEF TypeOK
  <2> QED
    BY <2>1, <2>2 DEF Refused, AllLoadable, MemoryAtRest, MemoryInFlush, TmpIsMemory, Settled, Flushing
<1>2. CASE ~loadErr
  <2>1. Loadable(v) /\ \A w \in survivors' : Loadable(w)
    BY <1>2 DEF AllLoadable
  <2>2. v \in Version
    BY <2>1, GarbageRefused DEF TypeOK
  <2>3. TypeOK'
    BY <2>1, <2>2, MaxFailuresAssumption DEF TypeOK
  <2> QED
    BY <2>1, <2>3 DEF Refused, AllLoadable, MemoryAtRest, MemoryInFlush, TmpIsMemory, Settled, Flushing, Loadable
<1> QED
  BY <1>1, <1>2

(* Every step preserves the invariant.                                     *)
LEMMA InvNext == Inv /\ [Next]_vars => Inv'
<1> SUFFICES ASSUME Inv, [Next]_vars PROVE Inv'
  OBVIOUS
<1>0. data \in Version /\ Size(data) \in Nat /\ MaxWorkspaces \in Nat
  BY SizeType, MaxWorkspacesAssumption DEF Inv, TypeOK
<1>a. Usable => Size(data) <= MaxWorkspaces
  BY DEF Inv, Usable, AllLoadable, MemoryAtRest, Flushing, Loadable
<1>1. ASSUME NEW i \in Id, NEW c \in Content, Create(i, c) PROVE Inv'
  <2>1. Size([data EXCEPT ![i] = c]) <= Size(data) + 1
    BY <1>0, SizeOfAdded
  <2>2. [data EXCEPT ![i] = c] \in Version
    BY <1>0 DEF Version
  <2>3. Size([data EXCEPT ![i] = c]) <= MaxWorkspaces
    BY <1>0, <1>1, <2>1, <2>2, SizeType DEF Create, HasSpace
  <2> QED
    BY <1>1, <2>3, InvAlter DEF Create
<1>2. ASSUME NEW i \in Id, NEW c \in Content, Update(i, c) PROVE Inv'
  <2>1. Size([data EXCEPT ![i] = c]) <= Size(data)
    BY <1>0, <1>2, SizeOfReplaced DEF Update
  <2>2. [data EXCEPT ![i] = c] \in Version
    BY <1>0 DEF Version
  <2>3. Size([data EXCEPT ![i] = c]) <= MaxWorkspaces
    BY <1>0, <1>a, <1>2, <2>1, <2>2, SizeType DEF Update
  <2> QED
    BY <1>2, <2>3, InvAlter DEF Update
<1>3. ASSUME NEW i \in Id, Delete(i) PROVE Inv'
  <2>1. Size([data EXCEPT ![i] = None]) <= Size(data)
    BY <1>0, <1>3, SizeOfReplaced DEF Delete
  <2>2. [data EXCEPT ![i] = None] \in Version
    BY <1>0 DEF Version
  <2>3. Size([data EXCEPT ![i] = None]) <= MaxWorkspaces
    BY <1>0, <1>a, <1>3, <2>1, <2>2, SizeType DEF Delete
  <2> QED
    BY <1>3, <2>3, InvAlter DEF Delete
<1>4. ASSUME NEW i \in Id, NEW copy \in Id, Duplicate(i, copy) PROVE Inv'
  <2>0. data[i] \in Content \union {None}
    BY <1>0 DEF Version
  <2>1. Size([data EXCEPT ![copy] = data[i]]) <= Size(data) + 1
    BY <1>0, <2>0, SizeOfAdded
  <2>2. [data EXCEPT ![copy] = data[i]] \in Version
    BY <1>0, <2>0 DEF Version
  <2>3. Size([data EXCEPT ![copy] = data[i]]) <= MaxWorkspaces
    BY <1>0, <1>4, <2>1, <2>2, SizeType DEF Duplicate, HasSpace
  <2> QED
    BY <1>4, <2>0, <2>3, InvAlter DEF Duplicate
<1>5. CASE List
  BY <1>0, <1>5 DEF List, Inv, TypeOK, Refused, AllLoadable, MemoryAtRest, MemoryInFlush,
                    TmpIsMemory, Settled, Flushing, memoryVars, diskVars
<1>6. CASE WriteTmp
  <2>1. TypeOK'
    BY <1>6 DEF WriteTmp, Inv, TypeOK
  <2>2. (Refused /\ AllLoadable /\ MemoryAtRest /\ MemoryInFlush /\ TmpIsMemory /\ Settled)'
    BY <1>6 DEF WriteTmp, Inv, Refused, AllLoadable, MemoryAtRest, MemoryInFlush,
                TmpIsMemory, Settled, Flushing
  <2> QED
    BY <2>1, <2>2 DEF Inv
<1>7. CASE SyncTmp
  <2>1. tmp'.version = tmp.version /\ tmp'.synced = TRUE
    BY <1>7 DEF SyncTmp, Inv, TypeOK
  <2>2. TypeOK'
    BY <1>7 DEF SyncTmp, Inv, TypeOK
  <2>3. (Refused /\ AllLoadable /\ MemoryAtRest /\ MemoryInFlush /\ TmpIsMemory /\ Settled)'
    BY <1>7, <2>1 DEF SyncTmp, Inv, Refused, AllLoadable, MemoryAtRest, MemoryInFlush,
                      TmpIsMemory, Settled, Flushing
  <2> QED
    BY <2>2, <2>3 DEF Inv
<1>8. CASE RenameTmp
  <2>1. tmp.version = data /\ tmp.synced /\ Size(data) <= MaxWorkspaces /\ ~loadErr
    BY <1>8 DEF RenameTmp, Inv, TmpIsMemory, MemoryInFlush, Flushing, Refused
  <2>2. file' = data /\ survivors' = survivors \union {data} /\ data' = data
    BY <1>8, <2>1 DEF RenameTmp
  <2>3. Loadable(data)
    BY <1>0, <2>1, GarbageAssumption DEF Loadable
  <2>4. TypeOK'
    BY <1>0, <1>8, <2>2, NoTmpType DEF RenameTmp, Inv, TypeOK
  <2>5. (Refused /\ AllLoadable /\ MemoryAtRest /\ MemoryInFlush /\ TmpIsMemory /\ Settled)'
    BY <1>8, <2>1, <2>2, <2>3 DEF RenameTmp, Inv, Refused, AllLoadable, MemoryAtRest,
                      MemoryInFlush, TmpIsMemory, Settled, Flushing
  <2> QED
    BY <2>4, <2>5 DEF Inv
<1>9. ASSUME NEW done \in BOOLEAN, SyncDir(done) PROVE Inv'
  <2>1. TypeOK'
    BY <1>9 DEF SyncDir, Release, Inv, TypeOK
  <2>2. (Refused /\ AllLoadable /\ MemoryAtRest /\ MemoryInFlush /\ TmpIsMemory /\ Settled)'
    BY <1>9 DEF SyncDir, Release, Inv, Refused, AllLoadable, MemoryAtRest, MemoryInFlush,
                TmpIsMemory, Settled, Flushing
  <2> QED
    BY <2>1, <2>2 DEF Inv
<1>10. ASSUME NEW left \in {tmp, NoTmp}, FlushFails(left) PROVE Inv'
  <2>1. ~loadErr /\ file \in Version /\ id \in Id
    <3>1. Flushing /\ ~loadErr
      BY <1>10 DEF FlushFails, Inv, Refused, Flushing
    <3>2. file # Garbage
      BY <3>1 DEF Inv, AllLoadable, Loadable
    <3> QED
      BY <3>1, <3>2 DEF Inv, TypeOK, MemoryInFlush
  <2>2. data' = file
    BY <1>0, <1>10, <2>1, UndoRestores DEF FlushFails, Inv, MemoryInFlush, Flushing
  <2>3. TypeOK'
    BY <1>10, <2>1, <2>2, NoTmpType DEF FlushFails, Release, Inv, TypeOK
  <2>4. (Refused /\ AllLoadable /\ MemoryAtRest /\ MemoryInFlush /\ TmpIsMemory /\ Settled)'
    BY <1>10, <2>1, <2>2 DEF FlushFails, Release, Inv, Refused, AllLoadable, MemoryAtRest,
                MemoryInFlush, TmpIsMemory, Settled, Flushing
  <2> QED
    BY <2>3, <2>4 DEF Inv
<1>11. CASE Crash
  <2>1. file \in survivors
    BY DEF Inv, Refused, AllLoadable
  <2>2. ~unsettled' => survivors' = {file}
    BY <1>11 DEF Crash, Inv, Settled
  <2>3. unsettled' \in BOOLEAN
    BY <1>11 DEF Crash, Inv, TypeOK
  <2> QED
    BY <1>11, <2>1, <2>2, <2>3, InvLoad DEF Crash
<1>12. CASE PowerFailure
  BY <1>12, InvLoad DEF PowerFailure
<1>13. CASE UNCHANGED vars
  BY <1>13 DEF vars, memoryVars, diskVars, Inv, TypeOK, Refused, AllLoadable, MemoryAtRest,
               MemoryInFlush, TmpIsMemory, Settled, Flushing
<1> QED
  BY <1>1, <1>2, <1>3, <1>4, <1>5, <1>6, <1>7, <1>8, <1>9, <1>10, <1>11, <1>12, <1>13 DEF Next

(* The invariant holds in every reachable state.                           *)
LEMMA InvHolds == Spec => []Inv
<1>1. Init => Inv
  BY InvInit
<1>2. Inv /\ [Next]_vars => Inv'
  BY InvNext
<1> QED
  BY <1>1, <1>2, PTL DEF Spec

(* The state stays well typed.                                             *)
THEOREM StoreTypeCorrect == Spec => []TypeOK
<1>1. Inv => TypeOK
  BY DEF Inv
<1> QED
  BY <1>1, InvHolds, PTL

(* Between two requests the map in memory is the one in the file, whatever *)
(* step of a flush before failed.                                          *)
THEOREM MemoryStaysTheFile == Spec => []MemoryIsFile
<1>1. Inv => MemoryIsFile
  BY DEF Inv, MemoryAtRest, MemoryIsFile, Usable, Flushing
<1> QED
  BY <1>1, InvHolds, PTL

(* The store never writes, and no crash or power failure leaves, a file it *)
(* refuses to start from.                                                  *)
THEOREM FileStaysLoadable == Spec => []NeverUnloadable
<1>1. Inv => NeverUnloadable
  BY DEF Inv, AllLoadable, NeverUnloadable
<1> QED
  BY <1>1, InvHolds, PTL

(* An answered change survives a power failure once the directory has been *)
(* synced.                                                                 *)
THEOREM AnsweredChangesSurvive == Spec => []AnsweredSurvives
<1>1. Inv => AnsweredSurvives
  BY DEF Inv, MemoryAtRest, Settled, AnsweredSurvives, Usable, Flushing
<1> QED
  BY <1>1, InvHolds, PTL

(* Whatever the disk reads as loads, and keeps what was answered.          *)
THEOREM DiskStaysSafe == Spec => []DiskIsSafe
<1>1. NeverUnloadable /\ AnsweredSurvives => DiskIsSafe
  BY DEF DiskIsSafe
<1> QED
  BY FileStaysLoadable, AnsweredChangesSurvive, <1>1, PTL

(* A file that does not load is never written over.                        *)
THEOREM GarbageStays == Spec => GarbageIsKept
<1>1. Inv /\ [Next]_vars => [file = Garbage => UNCHANGED file]_vars
  <2> SUFFICES ASSUME Inv, [Next]_vars, file = Garbage PROVE file' = file
    OBVIOUS
  <2>1. loadErr /\ survivors = {Garbage} /\ pc = "free"
    BY GarbageRefused DEF Inv, AllLoadable, Refused
  <2> QED
    BY <2>1 DEF Next, Create, Update, Delete, Duplicate, Usable, List, WriteTmp, SyncTmp,
                RenameTmp, SyncDir, FlushFails, Crash, PowerFailure, vars, diskVars
<1> QED
  BY <1>1, InvHolds, PTL DEF Spec, GarbageIsKept

-----------------------------------------------------------------------------
(* The refinement: the file as a reader of it would see it, and what a     *)
(* power failure may bring back, are the abstract map.                     *)

Fallback == {Visible(version) : version \in survivors}

(* The initial state maps to the initial state of the map.                 *)
LEMMA MapInit == Init => Map!Init
<1> SUFFICES ASSUME Init PROVE Map!Init
  OBVIOUS
<1>1. Visible(file) = Empty
  BY GarbageRefused DEF Init, Visible
<1>2. Fallback = {Empty}
  BY <1>1 DEF Init, Fallback
<1> QED
  BY <1>1, <1>2 DEF Map!Init, Map!Empty, Empty, Init, Fallback

(* Every step maps to a step of the map, or to none.                       *)
LEMMA MapNext == Inv /\ [Next]_vars => [Map!Next]_Map!vars
<1> SUFFICES ASSUME Inv, [Next]_vars PROVE Map!Next \/ UNCHANGED Map!vars
  OBVIOUS
<1>1. CASE UNCHANGED <<file, survivors, shown>>
  BY <1>1 DEF Map!vars, Visible, Loadable
<1>2. CASE List
  <2>1. shown' = Visible(file) /\ UNCHANGED <<file, survivors>>
    BY <1>2 DEF List, Usable, Inv, MemoryAtRest, AllLoadable, Flushing, Visible, diskVars
  <2> QED
    BY <2>1 DEF Map!Next, Map!Read, Visible, Loadable
<1>3. CASE RenameTmp
  <2>1. /\ tmp.version = data /\ tmp.synced /\ ~loadErr
        /\ id \in Id
        /\ data = [file EXCEPT ![id] = data[id]]
        /\ Size(data) <= MaxWorkspaces
        /\ data \in Version
    BY <1>3 DEF RenameTmp, Inv, TypeOK, TmpIsMemory, MemoryInFlush, Flushing, Refused
  <2>2. file' = data /\ survivors' = survivors \union {data} /\ shown' = shown
    BY <1>3, <2>1 DEF RenameTmp
  <2>3. Loadable(data) /\ Loadable(file)
    BY <2>1, GarbageAssumption DEF Loadable, Inv, AllLoadable
  <2>4. Visible(data) = data /\ Visible(file) = file /\ Visible(file)' = data
    BY <2>2, <2>3 DEF Visible, Loadable
  <2>5. Fallback' = Fallback \union {data}
    BY <2>2, <2>4 DEF Fallback, Visible, Loadable
  <2>6. data[id] \in Content \union {None}
    BY <2>1 DEF Version
  <2>7. Map!Size(data) <= MaxWorkspaces
    <3>1. Map!Size(data) = Size(data)
      BY DEF Map!Size, Size, Map!Cardinality, Cardinality
    <3> QED
      BY <2>1, <3>1
  <2>8. Map!Commit
    BY <2>1, <2>2, <2>4, <2>5, <2>6, <2>7 DEF Map!Commit, Map!Size, Fallback
  <2> QED
    BY <2>8 DEF Map!Next
<1>4. ASSUME NEW done \in BOOLEAN, SyncDir(done) PROVE Map!Next \/ UNCHANGED Map!vars
  <2>1. file' = file /\ shown' = shown /\ (survivors' = {file} \/ survivors' = survivors)
    BY <1>4 DEF SyncDir
  <2>2. CASE survivors' = {file}
    BY <2>1, <2>2 DEF Map!Next, Map!Settle, Visible, Loadable
  <2>3. CASE survivors' = survivors
    BY <2>1, <2>3, <1>1
  <2> QED
    BY <2>1, <2>2, <2>3
<1>5. CASE PowerFailure
  <2>1. file' \in survivors /\ survivors' = {file'} /\ shown' = shown
    BY <1>5 DEF PowerFailure, Restart
  <2>2. Visible(file)' \in Fallback /\ Fallback' = {Visible(file)'}
    BY <2>1 DEF Fallback, Visible, Loadable
  <2> QED
    BY <2>1, <2>2 DEF Map!Next, Map!PowerFailure, Fallback
<1>6. ASSUME NEW i \in Id, NEW c \in Content \union {None}, Alter(i, c)
      PROVE  UNCHANGED <<file, survivors, shown>>
  BY <1>6 DEF Alter, diskVars
<1>7. ASSUME NEW i \in Id, NEW copy \in Id, Duplicate(i, copy)
      PROVE  UNCHANGED <<file, survivors, shown>>
  BY <1>7 DEF Duplicate, Alter, diskVars
<1>8. CASE WriteTmp \/ SyncTmp \/ (\E left \in {tmp, NoTmp} : FlushFails(left)) \/ Crash
  <2>1. UNCHANGED <<file, survivors, shown>>
    BY <1>8 DEF WriteTmp, SyncTmp, FlushFails, Crash, Restart
  <2> QED
    BY <2>1, <1>1
<1>9. CASE UNCHANGED vars
  BY <1>1, <1>9 DEF vars, diskVars
<1> QED
  BY <1>1, <1>2, <1>3, <1>4, <1>5, <1>6, <1>7, <1>8, <1>9 DEF Next, Create, Update, Delete

(* Clients see a bounded map that changes one entry at a time, and that a  *)
(* power failure takes back no further than the last directory fsync.      *)
THEOREM StoreImplementsMap == Spec => ImplementsWorkspaceMap
<1>1. Init => Map!Init
  BY MapInit
<1>2. Inv /\ [Next]_vars => [Map!Next]_Map!vars
  BY MapNext
<1> QED
  BY <1>1, <1>2, InvHolds, PTL DEF Spec, ImplementsWorkspaceMap, Map!Spec

=============================================================================
