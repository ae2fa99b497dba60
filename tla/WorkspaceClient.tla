--------------------------- MODULE WorkspaceClient ---------------------------
(***************************************************************************)
(* Workspaces in the browser (useWorkspaceStore.ts, WorkspaceMenu.tsx):    *)
(* the list of the menu, the active workspace and the view that is saved   *)
(* to one and restored from one, against a server that executes requests   *)
(* one at a time (WorkspaceStore) and that another client uses too.        *)
(*                                                                         *)
(* Nothing orders the requests of the menu: several are in flight at once, *)
(* they are executed and answered in any order, or their connection fails  *)
(* before or after they are executed.  A view is its time and its columns; *)
(* the query, the sources, the order and the colours are saved and         *)
(* restored as they are, and names and the order of the list are left out. *)
(***************************************************************************)
EXTENDS Naturals, TLC

CONSTANTS
    Id,       \* ids the server may give
    Preset,   \* named relative ranges
    Custom,   \* relativeValue of a custom range
    Count,    \* counts of a custom range; the field for it takes a 0 too
    Start,    \* absolute ranges
    Now,      \* the absolute range that a relative one has at this moment
    Column,   \* columns
    Mandatory, \* the column that is always selected
    Other,    \* the workspaces that another client writes
    None,     \* null, or a field that is left out
    MaxWork   \* bound: requests, edits and what another client does

ASSUME RelativeAssumption ==
    /\ Custom \notin Preset
    /\ None \notin Preset \union {Custom} \union Count
    /\ 0 \notin Preset \union {Custom, None}
ASSUME StartAssumption == Now \notin Start /\ None \notin Start
ASSUME ColumnAssumption == Mandatory \in Column
ASSUME IdAssumption == None \notin Id /\ MaxWork \in Nat

View == [relative : BOOLEAN, value : Preset \union {Custom}, count : Count,
         range : Start \union {Now}, columns : SUBSET Column]
Time == [mode : {"relative", "absolute"}, relative : Preset \union {Custom, None},
         count : Count \union {None}, start : Start \union {Now, None}]
Content == [time : Time, columns : SUBSET Column]
Workspace == [id : Id, content : Content, favorite : BOOLEAN]
Kind == {"list", "create", "update", "favorite", "delete", "duplicate"}
Answer == [ok : BOOLEAN, list : SUBSET Workspace]

ASSUME AnswerAssumption == None \notin Answer

VARIABLES
    server,     \* the workspaces of the server
    used,       \* ids it has given
    view,       \* useSearchQueryParamsStore, as far as a workspace holds it
    workspaces, \* workspaces of useWorkspaceStore
    active,     \* activeWorkspaceId
    isLoading,  \* isLoading
    requests,   \* the requests in flight, executed (with an answer) or not
    saved,      \* history: the view the user was told is saved, by id
    torn,       \* history: ids with requests that overlapped, or sent from an old list
    mixed,      \* history: the list may be old
    work        \* history: what was done, at most MaxWork

clientVars == <<view, workspaces, active, isLoading>>
historyVars == <<saved, torn, mixed>>
vars == <<server, used, clientVars, requests, historyVars, work>>

Work == work < MaxWork /\ work' = work + 1
Ids(list) == {w.id : w \in list}
Entry(list, id) == CHOOSE w \in list : w.id = id
Listed == active \in Ids(workspaces)

-----------------------------------------------------------------------------
(* A view and what a workspace holds of it.                                *)

(* buildWorkspaceFromState.                                                *)
BuildWorkspace(v) ==
    [time |-> IF v.relative
              THEN [mode |-> "relative", relative |-> v.value,
                    count |-> IF v.value = Custom THEN v.count ELSE None, start |-> None]
              ELSE [mode |-> "absolute", relative |-> None, count |-> None, start |-> v.range],
     columns |-> v.columns]

(* What the server keeps of a view and answers with: types.WorkspaceTime   *)
(* leaves out a count of 0.                                                *)
Kept(v) ==
    LET built == BuildWorkspace(v)
    IN  [time |-> [built.time EXCEPT !.count = IF built.time.count = 0 THEN None ELSE @],
         columns |-> built.columns]

(* The other client is another browser: what it writes was built there.    *)
ASSUME OtherAssumption ==
    Other \subseteq [id : Id, content : {Kept(v) : v \in View}, favorite : BOOLEAN]

(* field || default.                                                       *)
Or(field, default) == IF field \in {None, 0} THEN default ELSE field

(* Faulty variant of ApplyWorkspace: the range stays relative.             *)
ApplyRelative(c, v) ==
    [relative |-> v.relative,
     value |-> Or(c.time.relative, v.value),
     count |-> Or(c.time.count, v.count),
     range |-> IF c.time.mode = "absolute" THEN c.time.start ELSE Now,
     columns |-> IF c.columns # {} THEN c.columns ELSE v.columns]

(* applyWorkspaceToCurrentState: what is left out stays, a count of 0 too. *)
ApplyWorkspace(c, v) ==
    [relative |-> c.time.mode # "absolute",
     value |-> Or(c.time.relative, v.value),
     count |-> Or(c.time.count, v.count),
     range |-> IF c.time.mode = "absolute" THEN c.time.start ELSE Now,
     columns |-> IF c.columns # {} THEN c.columns ELSE v.columns]

(* What of a view a workspace is to bring back.                            *)
Gist(v) == [BuildWorkspace(v) EXCEPT
                !.time = IF v.relative THEN <<v.value, IF v.value = Custom THEN v.count ELSE None>>
                         ELSE <<v.range>>]

(* isWorkspaceDirty.                                                       *)
Dirty == Listed /\ BuildWorkspace(view) # Entry(workspaces, active).content

(* Faulty variant of Upsert: a workspace is always added.                  *)
Insert(list, w) == list \union {w}

(* upsertWorkspace.                                                        *)
Upsert(list, w) == {x \in list : x.id # w.id} \union {w}

-----------------------------------------------------------------------------
Init ==
    /\ server = {} /\ used = {}
    /\ view \in [relative : {TRUE}, value : Preset, count : Count, range : {Now},
                 columns : {{}, {Mandatory}}]
    /\ workspaces = {} /\ active = None /\ isLoading = FALSE
    /\ requests = {}
    /\ saved = [id \in Id |-> None]
    /\ torn = {} /\ mixed = FALSE
    /\ work = 0

(* Someone else's doing: no request in flight is alone any more.           *)
Disturbed == {[r EXCEPT !.alone = FALSE] : r \in requests}

(* A request in flight is about an id, the one it names or the new one it  *)
(* was answered with.                                                      *)
About(r, id) ==
    \/ r.id = id
    \/ r.kind \in {"create", "duplicate"} /\ r.answer # None /\ id \in Ids(r.answer.list)

(* A click sends a request.  The history notes what is already under way.  *)
(* The body is as the server keeps it.                                     *)
Send(kind, id, body) ==
    /\ Work
    /\ requests' = Disturbed \union
                     {[kind |-> kind, id |-> id, body |-> body, gist |-> Gist(view), n |-> work,
                       alone |-> requests = {}, answer |-> None]}
    /\ isLoading' = TRUE
    /\ mixed' = (mixed \/ requests # {})
    /\ torn' = IF (kind = "favorite" /\ mixed) \/ (id # None /\ \E r \in requests : About(r, id))
               THEN torn \union {id} ELSE torn
    /\ saved' = IF kind \in {"update", "delete"} THEN [saved EXCEPT ![id] = None] ELSE saved
    /\ UNCHANGED <<server, used, view, workspaces, active>>

(* The menu is opened.                                                     *)
RefreshWorkspaces == Send("list", None, None)

SaveCurrentWorkspace ==
    ~isLoading /\ Send("create", None, [content |-> Kept(view), favorite |-> FALSE])

UpdateActiveWorkspace ==
    /\ ~isLoading /\ Dirty
    /\ Send("update", active, [content |-> Kept(view),
                               favorite |-> Entry(workspaces, active).favorite])

(* Faulty variant of ToggleFavorite: the view is sent along.               *)
ToggleFavoriteOfView(id) ==
    Send("favorite", id, [content |-> Kept(view),
                          favorite |-> ~Entry(workspaces, id).favorite])

(* The workspace is sent as the list has it.                               *)
ToggleFavorite(id) ==
    Send("favorite", id, [content |-> Entry(workspaces, id).content,
                          favorite |-> ~Entry(workspaces, id).favorite])

DeleteWorkspace(id) == Send("delete", id, None)
DuplicateWorkspace(id) == Send("duplicate", id, None)

(* A workspace of the list is opened without a request.                    *)
LoadWorkspace(id) ==
    /\ Work
    /\ view' = ApplyWorkspace(Entry(workspaces, id).content, view)
    /\ active' = id
    /\ isLoading' = FALSE
    /\ UNCHANGED <<server, used, workspaces, requests, historyVars>>

(* What the user changes of the view.                                      *)
Edit(v) ==
    /\ Work
    /\ view' = v
    /\ UNCHANGED <<server, used, workspaces, active, isLoading, requests, historyVars>>

ChoosePreset(p) == Edit([view EXCEPT !.relative = TRUE, !.value = p, !.range = Now])
ChooseCustom(n) ==
    Edit([view EXCEPT !.relative = TRUE, !.value = Custom, !.count = n, !.range = Now])
ChooseAbsolute(range) == Edit([view EXCEPT !.relative = FALSE, !.range = range])
SetSelectedColumns(S) == Edit([view EXCEPT !.columns = S \union {Mandatory}])

(* The page is loaded again: the view is kept, the list is not.            *)
Reload ==
    /\ Work
    /\ workspaces' = {} /\ active' = None /\ isLoading' = FALSE
    /\ requests' = {}
    /\ mixed' = TRUE
    /\ torn' = torn \union {r.id : r \in {x \in requests : x.id # None}}
    /\ UNCHANGED <<server, used, view, saved>>

-----------------------------------------------------------------------------
(* The server.                                                             *)

Answered(r, list) == [r EXCEPT !.answer = [ok |-> TRUE, list |-> list]]
Refused(r) == [r EXCEPT !.answer = [ok |-> FALSE, list |-> {}]]

Reply(r, answered) == requests' = (requests \ {r}) \union {answered}

(* The server executes a request; an id it does not know is an error.      *)
ExecuteList(r) ==
    /\ r.kind = "list"
    /\ Reply(r, Answered(r, server))
    /\ UNCHANGED <<server, used>>

ExecuteNew(r, new) ==
    /\ new \notin used
    /\ \E w \in IF r.kind = "create" THEN {[id |-> new, content |-> r.body.content,
                                                favorite |-> r.body.favorite]}
               ELSE {[Entry(server, r.id) EXCEPT !.id = new, !.favorite = FALSE]} :
          /\ server' = server \union {w}
          /\ Reply(r, Answered(r, {w}))
    /\ used' = used \union {new}

ExecuteChange(r) ==
    /\ r.id \in Ids(server)
    /\ server' = IF r.kind = "delete" THEN {w \in server : w.id # r.id}
                 ELSE Upsert(server, [id |-> r.id, content |-> r.body.content,
                                      favorite |-> r.body.favorite])
    /\ Reply(r, Answered(r, {w \in server' : w.id = r.id}))
    /\ UNCHANGED used

ExecuteUnknown(r) ==
    /\ r.id # None /\ r.id \notin Ids(server)
    /\ Reply(r, Refused(r))
    /\ UNCHANGED <<server, used>>

Execute(r) ==
    /\ r.answer = None
    /\ \/ ExecuteList(r)
       \/ /\ r.kind = "create" \/ (r.kind = "duplicate" /\ r.id \in Ids(server))
          /\ \E new \in Id : ExecuteNew(r, new)
       \/ r.kind \in {"update", "favorite", "delete"} /\ ExecuteChange(r)
       \/ ExecuteUnknown(r)
    /\ UNCHANGED <<clientVars, historyVars, work>>

(* Another client creates, changes or deletes a workspace.                 *)
OtherClient(w) ==
    /\ Work
    /\ \/ w.id \notin used /\ server' = server \union {w}
       \/ w.id \in Ids(server) /\ server' \in {Upsert(server, w), {x \in server : x.id # w.id}}
    /\ used' = used \union {w.id}
    /\ requests' = Disturbed
    /\ mixed' = TRUE
    /\ torn' = torn \union {w.id}
    /\ UNCHANGED <<clientVars, saved>>

-----------------------------------------------------------------------------
(* Answers.                                                                *)

(* Faulty variant of Succeeded: a deleted workspace stays the active one,  *)
(* and in the list.                                                        *)
SucceededKeepingDeleted(r) ==
    /\ \/ r.kind = "list" /\ workspaces' = r.answer.list /\ UNCHANGED active
       \/ /\ r.kind \in {"create", "update", "duplicate", "favorite"}
          /\ \E w \in r.answer.list :
                /\ workspaces' = Upsert(workspaces, w)
                /\ active' = IF r.kind = "favorite" THEN active ELSE w.id
       \/ r.kind = "delete" /\ UNCHANGED <<workspaces, active>>
    /\ isLoading' = FALSE

Succeeded(r) ==
    /\ \/ r.kind = "list" /\ workspaces' = r.answer.list /\ UNCHANGED active
       \/ /\ r.kind \in {"create", "update", "duplicate", "favorite"}
          /\ \E w \in r.answer.list :
                /\ workspaces' = Upsert(workspaces, w)
                /\ active' = IF r.kind = "favorite" THEN active ELSE w.id
       \/ /\ r.kind = "delete"
          /\ workspaces' = {w \in workspaces : w.id # r.id}
          /\ active' = IF active = r.id THEN None ELSE active
    /\ isLoading' = FALSE

Failed == isLoading' = FALSE /\ UNCHANGED <<workspaces, active>>

(* What the user is told is saved.                                         *)
Told(r) ==
    CASE r.kind \in {"create", "update"} ->
            [id \in Id |-> IF \E w \in r.answer.list : w.id = id THEN r.gist ELSE saved[id]]
      [] r.kind = "duplicate" /\ r.id \notin torn ->
            [id \in Id |-> IF \E w \in r.answer.list : w.id = id THEN saved[r.id] ELSE saved[id]]
      [] OTHER -> saved

Receive(r) ==
    /\ r.answer # None
    /\ requests' = requests \ {r}
    /\ IF r.answer.ok
       THEN /\ Succeeded(r)
            /\ saved' = Told(r)
            /\ mixed' = IF r.kind = "list" /\ r.alone THEN FALSE ELSE mixed
       ELSE /\ Failed
            /\ mixed' = TRUE
            /\ UNCHANGED saved
    /\ UNCHANGED <<server, used, view, torn, work>>

(* The connection fails: the request was executed or not.                  *)
ConnectionFails(r) ==
    /\ requests' = requests \ {r}
    /\ Failed
    /\ mixed' = TRUE
    /\ UNCHANGED <<server, used, view, saved, torn, work>>

-----------------------------------------------------------------------------
Next ==
    \/ RefreshWorkspaces \/ SaveCurrentWorkspace \/ UpdateActiveWorkspace \/ Reload
    \/ \E id \in Ids(workspaces) : ToggleFavorite(id)
    \/ \E id \in Ids(workspaces) : DeleteWorkspace(id)
    \/ \E id \in Ids(workspaces) : DuplicateWorkspace(id)
    \/ \E id \in Ids(workspaces) : LoadWorkspace(id)
    \/ \E p \in Preset : ChoosePreset(p)
    \/ \E n \in Count : ChooseCustom(n)
    \/ \E range \in Start : ChooseAbsolute(range)
    \/ \E S \in SUBSET Column : SetSelectedColumns(S)
    \/ \E r \in requests : Execute(r)
    \/ \E w \in Other : OtherClient(w)
    \/ \E r \in requests : Receive(r)
    \/ \E r \in requests : ConnectionFails(r)

Spec == Init /\ [][Next]_vars

-----------------------------------------------------------------------------
(* The list and the server have one workspace of an id, and a view and     *)
(* what is saved of it keep their shapes.                                  *)
TypeOK ==
    /\ view \in View
    /\ \A list \in {server, workspaces} :
          /\ \A w \in list : w \in Workspace
          /\ \A w, x \in list : w.id = x.id => w = x
    /\ Ids(server) \subseteq used /\ used \subseteq Id
    /\ active \in Id \union {None}
    /\ isLoading \in BOOLEAN /\ mixed \in BOOLEAN
    /\ \A r \in requests : r.kind \in Kind /\ r.id \in Id \union {None}
    /\ torn \subseteq Id
    /\ work \in 0 .. MaxWork

(* The range t comes back in the view v, which takes the place of u.  The  *)
(* exception is a custom range with a count of 0, of which the count is    *)
(* the one there was.                                                      *)
Restored(t, u, v) ==
    \/ Gist(v).time = t
    \/ t = <<Custom, 0>> /\ Gist(v).time = <<Custom, u.count>>

(* Opening a workspace brings back the view that was saved to it ("to      *)
(* restore query, time range, sources, columns"), whatever was opened,     *)
(* marked as a favourite or copied since, as long as no requests about it  *)
(* overlapped and nobody else has changed it.  A count of 0 does not come  *)
(* back, and without columns it leaves those there are.                    *)
SavedIsRestored ==
    [][\A id \in Ids(workspaces) \ torn :
          (LoadWorkspace(id) /\ ~mixed /\ saved[id] # None)
            => /\ Restored(saved[id].time, view, view')
               /\ saved[id].columns # {} => view'.columns = saved[id].columns]_vars

(* A custom range whose count was 0, and was left out.                     *)
Countless(c) == c.time.relative = Custom /\ c.time.count = None

(* A workspace that was just opened has no unsaved changes, whatever view  *)
(* it takes the place of, unless it has no columns, or a range without its *)
(* count: that one always differs from the view, which has some count.     *)
OpenedIsClean ==
    [][\A id \in Ids(workspaces) :
          LET c == Entry(workspaces, id).content
          IN  (LoadWorkspace(id) /\ c.columns # {}) => (Dirty' <=> Countless(c))]_vars

(* When no request is in flight and none overlapped another, the menu      *)
(* shows the workspaces the server has, as they are there.                 *)
ListIsServers == (requests = {} /\ ~mixed) => workspaces = server

(* The buttons of the menu are not disabled for good: nothing loads when   *)
(* no request is in flight.                                                *)
IdleIsNotLoading == requests = {} => ~isLoading

(* The client keeps its types and its ids, and the menu its buttons.       *)
Consistent == TypeOK /\ IdleIsNotLoading

=============================================================================
