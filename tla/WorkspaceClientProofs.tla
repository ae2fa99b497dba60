------------------------ MODULE WorkspaceClientProofs ------------------------
(***************************************************************************)
(* Theorems about WorkspaceClient: the list of the menu, and the views     *)
(* that are saved to a workspace and restored from it.                     *)
(***************************************************************************)
EXTENDS WorkspaceClient, TLAPS

Built == {Kept(v) : v \in View}
Gists == {Gist(v) : v \in View}

(* What a workspace holds brings back the view of g.                       *)
Holds(c, g) == \E v \in View : c = Kept(v) /\ g = Gist(v)

BuiltWorkspace == [id : Id, content : Built, favorite : BOOLEAN]
Body == [content : Built, favorite : BOOLEAN]
AnswerOfBuilt == [ok : BOOLEAN, list : SUBSET BuiltWorkspace]
Request == [kind : Kind, id : Id \union {None}, body : Body \union {None}, gist : Gists,
            n : Nat, alone : BOOLEAN, answer : AnswerOfBuilt \union {None}]

WithAnswer(r, a) == [r EXCEPT !.answer = a]
NotAlone(r) == [r EXCEPT !.alone = FALSE]
OneOfAnId(list) == \A w, x \in list : w.id = x.id => w = x
Sends(r, w) == w.content = r.body.content
New(r) == r.kind \in {"create", "duplicate"}
Write(r) == r.kind \in {"update", "favorite"}
Done(r) == r.answer # None /\ r.answer.ok

(* A request and its answer, by what was asked.                            *)
Shape(r) ==
    /\ r \in Request
    /\ r.kind \in {"list", "create"} <=> r.id = None
    /\ r.kind \in {"create", "update", "favorite"} => r.body \in Body
    /\ r.kind \in {"create", "update"} => Holds(r.body.content, r.gist)
    /\ r.answer # None => OneOfAnId(r.answer.list)
    /\ (r.answer # None /\ ~r.answer.ok) => r.answer.list = {}
    /\ (Done(r) /\ New(r)) =>
          \E w \in BuiltWorkspace :
             /\ r.answer.list = {w}
             /\ r.kind = "create" => Sends(r, w)
    /\ (Done(r) /\ Write(r)) =>
          \E w \in BuiltWorkspace : r.answer.list = {w} /\ w.id = r.id /\ Sends(r, w)
    /\ (Done(r) /\ r.kind = "delete") => r.answer.list = {}

Typed ==
    /\ view \in View
    /\ server \subseteq BuiltWorkspace /\ workspaces \subseteq BuiltWorkspace
    /\ OneOfAnId(server) /\ OneOfAnId(workspaces)
    /\ used \subseteq Id /\ Ids(server) \subseteq used /\ Ids(workspaces) \subseteq used
    /\ active \in used \union {None}
    /\ isLoading \in BOOLEAN /\ mixed \in BOOLEAN
    /\ torn \subseteq Id
    /\ work \in 0 .. MaxWork
    /\ saved \in [Id -> Gists \union {None}]

Requests ==
    \A r \in requests :
       /\ Shape(r)
       /\ r.id \in used \union {None}
       /\ r.answer # None => Ids(r.answer.list) \subseteq used

Unused == \A id \in Id \ used : saved[id] = None

TypedInv == Typed /\ Requests /\ Unused /\ IdleIsNotLoading

-----------------------------------------------------------------------------
(* The list and the server, when every request went out alone.             *)
AloneIsOnly == \A r \in requests : r.alone => requests = {r}
AloneIsCurrent ==
    \A r \in requests : (r.alone /\ r.kind = "list" /\ Done(r)) => r.answer.list = server
UnmixedIsAlone == ~mixed => \A r \in requests : r.alone

Pending(r) ==
    /\ ~Done(r) => workspaces = server
    /\ (Done(r) /\ r.kind = "list") => workspaces = server
    /\ (Done(r) /\ (New(r) \/ Write(r))) =>
          \A w \in r.answer.list : server = Upsert(workspaces, w)
    /\ (Done(r) /\ r.kind = "delete") => server = {w \in workspaces : w.id # r.id}

ListInv ==
    /\ AloneIsOnly /\ AloneIsCurrent /\ UnmixedIsAlone
    /\ ~mixed => \A r \in requests : Pending(r)
    /\ ListIsServers

-----------------------------------------------------------------------------
(* What is saved.                                                          *)
Sure(id) == id \notin torn /\ saved[id] # None

(* Of a request in flight: the server has what it was answered, and the    *)
(* user is not told yet; a copy and a mark leave what is saved as it is.   *)
AnswerIsCurrent(r) ==
    (Done(r) /\ r.kind \in {"create", "update", "duplicate"}) =>
       \A w \in r.answer.list : w.id \notin torn =>
          \A x \in server : x.id = w.id => x.content = w.content
NotYetTold(r) ==
    /\ (r.kind \in {"update", "delete"} /\ r.id \notin torn) => saved[r.id] = None
    /\ (New(r) /\ Done(r)) => \A w \in r.answer.list : w.id \notin torn => saved[w.id] = None
CopyHolds(r) ==
    (r.kind = "duplicate" /\ Done(r) /\ Sure(r.id)) =>
       \A w \in r.answer.list : Holds(w.content, saved[r.id])
MarkHolds(r) == (r.kind = "favorite" /\ Sure(r.id)) => Holds(r.body.content, saved[r.id])

RequestHolds(r) == AnswerIsCurrent(r) /\ NotYetTold(r) /\ CopyHolds(r) /\ MarkHolds(r)

RequestsHold == \A r \in requests : RequestHolds(r)
OverlapIsTorn ==
    \A r, q \in requests : \A id \in Id : (r # q /\ About(r, id) /\ About(q, id)) => id \in torn
ServerHolds == \A x \in server : Sure(x.id) => Holds(x.content, saved[x.id])
ListHolds == ~mixed => \A x \in workspaces : Sure(x.id) => Holds(x.content, saved[x.id])

SavedInv == RequestsHold /\ OverlapIsTorn /\ ServerHolds /\ ListHolds

-----------------------------------------------------------------------------
(* Lists.                                                                  *)

LEMMA EntryIs ==
    ASSUME NEW list, NEW id \in Ids(list)
    PROVE  Entry(list, id) \in list /\ Entry(list, id).id = id
BY DEF Entry, Ids

LEMMA Upserted ==
    ASSUME NEW list \in SUBSET BuiltWorkspace, OneOfAnId(list), NEW w \in BuiltWorkspace
    PROVE  /\ Upsert(list, w) \subseteq BuiltWorkspace
           /\ OneOfAnId(Upsert(list, w))
           /\ Ids(Upsert(list, w)) = Ids(list) \union {w.id}
           /\ {x \in Upsert(list, w) : x.id = w.id} = {w}
<1>1. /\ Upsert(list, w) \subseteq BuiltWorkspace
      /\ OneOfAnId(Upsert(list, w))
      /\ {x \in Upsert(list, w) : x.id = w.id} = {w}
  BY DEF Upsert, OneOfAnId
<1>2. Ids(Upsert(list, w)) = Ids(list) \union {w.id}
  BY DEF Upsert, Ids
<1> QED
  BY <1>1, <1>2

LEMMA Removed ==
    ASSUME NEW list \in SUBSET BuiltWorkspace, OneOfAnId(list), NEW id
    PROVE  LET left == {x \in list : x.id # id}
           IN  /\ left \subseteq BuiltWorkspace
               /\ OneOfAnId(left)
               /\ Ids(left) \subseteq Ids(list)
               /\ {x \in left : x.id = id} = {}
BY DEF OneOfAnId, Ids

(* Requests.                                                               *)

LEMMA KeptIs ==
    ASSUME NEW u \in View
    PROVE  LET c == Kept(u)
               mode == IF u.relative THEN "relative" ELSE "absolute"
               relative == IF u.relative THEN u.value ELSE None
               count == IF u.relative /\ u.value = Custom /\ u.count # 0 THEN u.count ELSE None
               start == IF u.relative THEN None ELSE u.range
           IN  /\ c = [time |-> [mode |-> mode, relative |-> relative,
                                 count |-> count, start |-> start],
                       columns |-> u.columns]
               /\ c.time.mode = mode /\ c.time.relative = relative
               /\ c.time.count = count /\ c.time.start = start
               /\ c.columns = u.columns
<1>1. PICK t : t = BuildWorkspace(u).time
  OBVIOUS
<1>2. PICK m : m = IF u.relative THEN "relative" ELSE "absolute"
  OBVIOUS
<1>3. PICK r : r = IF u.relative THEN u.value ELSE None
  OBVIOUS
<1>4. PICK k : k = IF u.relative /\ u.value = Custom THEN u.count ELSE None
  OBVIOUS
<1>5. PICK s : s = IF u.relative THEN None ELSE u.range
  OBVIOUS
<1>6. t = [mode |-> m, relative |-> r, count |-> k, start |-> s]
  <2>1. CASE u.relative
    BY <1>1, <1>2, <1>3, <1>4, <1>5, <2>1 DEF BuildWorkspace
  <2>2. CASE ~u.relative
    BY <1>1, <1>2, <1>3, <1>4, <1>5, <2>2 DEF BuildWorkspace
  <2> QED
    BY <2>1, <2>2
<1>7. PICK n : n = IF k = 0 THEN None ELSE k
  OBVIOUS
<1>8. [t EXCEPT !.count = n] = [mode |-> m, relative |-> r, count |-> n, start |-> s]
  BY <1>6
<1>9. Kept(u) = [time |-> [mode |-> m, relative |-> r, count |-> n, start |-> s],
                 columns |-> u.columns]
  <2>1. BuildWorkspace(u).columns = u.columns
    BY DEF BuildWorkspace
  <2>2. t.count = k
    BY <1>6
  <2>3. Kept(u) = [time |-> [t EXCEPT !.count = n], columns |-> u.columns]
    BY <1>1, <1>7, <2>1, <2>2 DEF Kept
  <2> QED
    BY <1>8, <2>3
<1>10. n = IF u.relative /\ u.value = Custom /\ u.count # 0 THEN u.count ELSE None
  BY <1>4, <1>7, RelativeAssumption
<1> QED
  BY <1>2, <1>3, <1>5, <1>9, <1>10

LEMMA BuiltIsContent == Built \subseteq Content
<1> SUFFICES ASSUME NEW u \in View PROVE Kept(u) \in Content
  BY DEF Built
<1>1. PICK c : c = Kept(u)
  OBVIOUS
<1>2. PICK t : t = c.time
  OBVIOUS
<1>3. PICK m, r, k, s :
         /\ c = [time |-> [mode |-> m, relative |-> r, count |-> k, start |-> s],
                 columns |-> u.columns]
         /\ m \in {"relative", "absolute"} /\ r \in {u.value, None}
         /\ k \in {u.count, None} /\ s \in {None, u.range}
  BY <1>1, KeptIs
<1>4. /\ u.value \in Preset \union {Custom} /\ u.count \in Count
      /\ u.range \in Start \union {Now} /\ u.columns \in SUBSET Column
  BY DEF View
<1>5. [mode |-> m, relative |-> r, count |-> k, start |-> s] \in Time
  BY <1>3, <1>4 DEF Time
<1> QED
  BY <1>1, <1>3, <1>4, <1>5 DEF Content

LEMMA NoneIsNoAnswer == None \notin AnswerOfBuilt
<1>1. Built \subseteq Content
  BY BuiltIsContent
<1>2. BuiltWorkspace \subseteq Workspace
  BY <1>1 DEF BuiltWorkspace, Workspace
<1>3. AnswerOfBuilt \subseteq Answer
  BY <1>2 DEF AnswerOfBuilt, Answer
<1> QED
  BY <1>3, AnswerAssumption

LEMMA AnsweredIs ==
    ASSUME NEW r \in Request, NEW a \in AnswerOfBuilt
    PROVE  LET q == WithAnswer(r, a)
           IN  /\ q \in Request
               /\ q.answer = a /\ q.answer # None
               /\ q.kind = r.kind /\ q.id = r.id /\ q.body = r.body /\ q.gist = r.gist
               /\ q.n = r.n /\ q.alone = r.alone
<1>1. LET q == WithAnswer(r, a)
      IN  /\ q \in Request
          /\ q.answer = a
          /\ q.kind = r.kind /\ q.id = r.id /\ q.body = r.body /\ q.gist = r.gist
          /\ q.n = r.n /\ q.alone = r.alone
  BY DEF WithAnswer, Request
<1> QED
  BY <1>1, NoneIsNoAnswer

LEMMA NotAloneIs ==
    ASSUME NEW r \in Request
    PROVE  LET q == NotAlone(r)
           IN  /\ q \in Request
               /\ q.answer = r.answer /\ q.alone = FALSE
               /\ q.kind = r.kind /\ q.id = r.id /\ q.body = r.body /\ q.gist = r.gist
               /\ q.n = r.n
BY DEF NotAlone, Request

LEMMA NotAloneKeeps ==
    ASSUME NEW r, Shape(r)
    PROVE  /\ Shape(NotAlone(r))
           /\ Done(NotAlone(r)) <=> Done(r)
           /\ \A id : About(NotAlone(r), id) <=> About(r, id)
<1>1. r \in Request
  BY DEF Shape
<1>2. \A w : Sends(NotAlone(r), w) <=> Sends(r, w)
  BY <1>1, NotAloneIs DEF Sends
<1>3. /\ Done(NotAlone(r)) <=> Done(r)
      /\ New(NotAlone(r)) <=> New(r)
      /\ Write(NotAlone(r)) <=> Write(r)
  BY <1>1, NotAloneIs DEF Done, New, Write
<1>4. \A id : About(NotAlone(r), id) <=> About(r, id)
  BY <1>1, NotAloneIs DEF About
<1> DEFINE q == NotAlone(r)
<1>5. /\ q \in Request
      /\ q.answer = r.answer
      /\ q.kind = r.kind /\ q.id = r.id /\ q.body = r.body /\ q.gist = r.gist
  BY <1>1, NotAloneIs
<1>6. Shape(q)
  <2> HIDE DEF q
  <2>1. /\ Done(q) <=> Done(r)
        /\ New(q) <=> New(r)
        /\ Write(q) <=> Write(r)
        /\ \A w : Sends(q, w) <=> Sends(r, w)
    BY <1>2, <1>3 DEF q
  <2> QED
    BY <1>5, <2>1 DEF Shape
<1> QED
  BY <1>3, <1>4, <1>6

-----------------------------------------------------------------------------
(* The steps.                                                              *)

(* What a click asks for.                                                  *)
Asks(kind, id, body) ==
    /\ kind \in Kind /\ id \in Ids(workspaces) \union {None} /\ body \in Body \union {None}
    /\ kind \in {"list", "create"} <=> id = None
    /\ kind \in {"create", "update", "favorite"} => body \in Body
    /\ kind \in {"create", "update"} => Holds(body.content, Gist(view))
    /\ kind = "favorite" => body.content = Entry(workspaces, id).content

SendStep ==
    \E kind \in Kind, id \in Ids(workspaces) \union {None}, body \in Body \union {None} :
       Send(kind, id, body) /\ Asks(kind, id, body)

LEMMA ViewIsBuilt ==
    ASSUME view \in View
    PROVE  /\ Kept(view) \in Built /\ Gist(view) \in Gists
           /\ Holds(Kept(view), Gist(view))
BY DEF Built, Gists, Holds

LEMMA EntryIsBuilt ==
    ASSUME Typed, NEW id \in Ids(workspaces)
    PROVE  /\ Entry(workspaces, id) \in BuiltWorkspace /\ Entry(workspaces, id) \in workspaces
           /\ Entry(workspaces, id).id = id /\ id \in Id /\ id # None
           /\ Entry(workspaces, id).content \in Built
           /\ Entry(workspaces, id).favorite \in BOOLEAN
<1>1. Entry(workspaces, id) \in workspaces /\ Entry(workspaces, id).id = id
  BY EntryIs
<1>2. Entry(workspaces, id) \in BuiltWorkspace
  BY <1>1 DEF Typed
<1> QED
  BY <1>1, <1>2, IdAssumption DEF BuiltWorkspace

LEMMA EveryClickAsks ==
    ASSUME Typed
    PROVE  /\ RefreshWorkspaces => SendStep
           /\ SaveCurrentWorkspace => SendStep
           /\ UpdateActiveWorkspace => SendStep
           /\ \A id \in Ids(workspaces) :
                 (ToggleFavorite(id) \/ DeleteWorkspace(id) \/ DuplicateWorkspace(id)) => SendStep
<1>0. Kept(view) \in Built /\ Holds(Kept(view), Gist(view))
  BY ViewIsBuilt DEF Typed
<1>1. ASSUME RefreshWorkspaces PROVE SendStep
  <2>1. Asks("list", None, None)
    BY DEF Asks, Kind
  <2> QED
    BY <1>1, <2>1 DEF RefreshWorkspaces, SendStep, Asks
<1>2. ASSUME SaveCurrentWorkspace PROVE SendStep
  <2> DEFINE body == [content |-> Kept(view), favorite |-> FALSE]
  <2>1. body \in Body /\ body.content = Kept(view)
    BY <1>0 DEF Body
  <2>2. Send("create", None, body)
    BY <1>2 DEF SaveCurrentWorkspace
  <2> HIDE DEF body
  <2>3. Asks("create", None, body)
    BY <1>0, <2>1 DEF Asks, Kind
  <2> QED
    BY <2>2, <2>3 DEF SendStep, Asks
<1>3. ASSUME UpdateActiveWorkspace PROVE SendStep
  <2> DEFINE body == [content |-> Kept(view),
                      favorite |-> Entry(workspaces, active).favorite]
  <2>1. active \in Ids(workspaces) /\ Send("update", active, body)
    BY <1>3 DEF UpdateActiveWorkspace, Dirty, Listed
  <2>2. body \in Body /\ body.content = Kept(view)
    BY <1>0, <2>1, EntryIsBuilt DEF Body
  <2>4. active # None
    BY <2>1, EntryIsBuilt
  <2> HIDE DEF body
  <2>3. Asks("update", active, body)
    BY <1>0, <2>1, <2>2, <2>4 DEF Asks, Kind
  <2> QED
    BY <2>1, <2>3 DEF SendStep, Asks
<1>4. ASSUME NEW id \in Ids(workspaces),
             ToggleFavorite(id) \/ DeleteWorkspace(id) \/ DuplicateWorkspace(id)
      PROVE  SendStep
  <2> DEFINE body == [content |-> Entry(workspaces, id).content,
                      favorite |-> ~Entry(workspaces, id).favorite]
  <2>1. id # None /\ id \in Id
    BY EntryIsBuilt
  <2>2. CASE ToggleFavorite(id)
    <3>1. body \in Body /\ body.content = Entry(workspaces, id).content
      BY EntryIsBuilt DEF Body
    <3>2. Send("favorite", id, body)
      BY <2>2 DEF ToggleFavorite
    <3> HIDE DEF body
    <3>3. Asks("favorite", id, body)
      BY <2>1, <3>1 DEF Asks, Kind
    <3> QED
      BY <3>2, <3>3 DEF SendStep, Asks
  <2>3. CASE DeleteWorkspace(id)
    <3>1. Asks("delete", id, None)
      BY <2>1 DEF Asks, Kind
    <3> QED
      BY <2>3, <3>1 DEF DeleteWorkspace, SendStep, Asks
  <2>4. CASE DuplicateWorkspace(id)
    <3>1. Asks("duplicate", id, None)
      BY <2>1 DEF Asks, Kind
    <3> QED
      BY <2>4, <3>1 DEF DuplicateWorkspace, SendStep, Asks
  <2> QED
    BY <1>4, <2>2, <2>3, <2>4
<1> QED
  BY <1>1, <1>2, <1>3, <1>4

(* A view is edited or replaced, and nothing but the menu's state goes     *)
(* with it.                                                                *)
ViewStep ==
    /\ view' \in View
    /\ Work
    /\ \/ UNCHANGED <<active, isLoading>>
       \/ active' \in Ids(workspaces) /\ isLoading' = FALSE
    /\ UNCHANGED <<server, used, workspaces, requests, historyVars>>

(* A workspace as it is opened.                                            *)
LEMMA AppliedIsView ==
    ASSUME NEW c \in Built, NEW v \in View
    PROVE  ApplyWorkspace(c, v) \in View
<1>1. PICK u \in View : c = Kept(u)
  BY DEF Built
<1> DEFINE t == c.time
<1>2. /\ t.mode = IF u.relative THEN "relative" ELSE "absolute"
      /\ t.relative = IF u.relative THEN u.value ELSE None
      /\ t.count = IF u.relative /\ u.value = Custom /\ u.count # 0 THEN u.count ELSE None
      /\ t.start = IF u.relative THEN None ELSE u.range
      /\ c.columns = u.columns
  BY <1>1, KeptIs
<1> HIDE DEF t
<1>3. /\ u.relative \in BOOLEAN /\ u.value \in Preset \union {Custom} /\ u.count \in Count
      /\ u.range \in Start \union {Now} /\ u.columns \in SUBSET Column
      /\ v.value \in Preset \union {Custom} /\ v.count \in Count
      /\ v.range \in Start \union {Now} /\ v.columns \in SUBSET Column
  BY DEF View
<1>4. /\ Or(t.relative, v.value) \in Preset \union {Custom}
      /\ Or(t.count, v.count) \in Count
      /\ (IF t.mode = "absolute" THEN t.start ELSE Now) \in Start \union {Now}
      /\ (IF c.columns # {} THEN c.columns ELSE v.columns) \in SUBSET Column
      /\ (t.mode # "absolute") \in BOOLEAN
  BY <1>2, <1>3 DEF Or
<1> QED
  BY <1>4 DEF ApplyWorkspace, View, t

LEMMA OpensAView ==
    ASSUME Typed, NEW id \in Ids(workspaces), LoadWorkspace(id)
    PROVE  ViewStep
<1>1. Entry(workspaces, id).content \in Built
  BY EntryIsBuilt
<1>2. ApplyWorkspace(Entry(workspaces, id).content, view) \in View
  BY <1>1, AppliedIsView DEF Typed
<1> QED
  BY <1>2 DEF LoadWorkspace, ViewStep

LEMMA EditsAView ==
    ASSUME Typed
    PROVE  /\ \A p \in Preset : ChoosePreset(p) => ViewStep
           /\ \A n \in Count : ChooseCustom(n) => ViewStep
           /\ \A range \in Start : ChooseAbsolute(range) => ViewStep
           /\ \A S \in SUBSET Column : SetSelectedColumns(S) => ViewStep
<1>1. \A v \in View : Edit(v) => ViewStep
  BY DEF Edit, ViewStep
<1>2. ASSUME NEW p \in Preset
      PROVE  [view EXCEPT !.relative = TRUE, !.value = p, !.range = Now] \in View
  BY DEF Typed, View
<1>3. ASSUME NEW n \in Count
      PROVE  [view EXCEPT !.relative = TRUE, !.value = Custom, !.count = n, !.range = Now]
               \in View
  BY DEF Typed, View
<1>4. ASSUME NEW range \in Start
      PROVE  [view EXCEPT !.relative = FALSE, !.range = range] \in View
  BY DEF Typed, View
<1>5. ASSUME NEW S \in SUBSET Column
      PROVE  [view EXCEPT !.columns = S \union {Mandatory}] \in View
  BY ColumnAssumption DEF Typed, View
<1> QED
  BY <1>1, <1>2, <1>3, <1>4, <1>5
     DEF ChoosePreset, ChooseCustom, ChooseAbsolute, SetSelectedColumns

(* A step, by what can happen.                                             *)
LEMMA Steps ==
    ASSUME Typed, [Next]_vars
    PROVE  \/ SendStep \/ ViewStep \/ Reload
           \/ \E r \in requests : Execute(r)
           \/ \E w \in Other : OtherClient(w)
           \/ \E r \in requests : Receive(r)
           \/ \E r \in requests : ConnectionFails(r)
           \/ UNCHANGED vars
BY EveryClickAsks, OpensAView, EditsAView DEF Next

-----------------------------------------------------------------------------
(* What a request does at the server, with its answer a.                   *)
Listing(r, a) ==
    /\ r.kind = "list"
    /\ a = [ok |-> TRUE, list |-> server]
    /\ server' = server /\ used' = used

Adding(r, a, w) ==
    /\ New(r) /\ w \in BuiltWorkspace /\ w.id \notin used
    /\ r.kind = "create" => w.content = r.body.content
    /\ r.kind = "duplicate" => \E x \in server : x.id = r.id /\ w.content = x.content
    /\ a = [ok |-> TRUE, list |-> {w}]
    /\ server' = server \union {w} /\ used' = used \union {w.id}

Changing(r, a, w) ==
    /\ Write(r) /\ r.id \in Ids(server)
    /\ w \in BuiltWorkspace /\ w.id = r.id /\ w.content = r.body.content
    /\ a = [ok |-> TRUE, list |-> {w}]
    /\ server' = Upsert(server, w) /\ used' = used

Deleting(r, a) ==
    /\ r.kind = "delete" /\ r.id # None
    /\ a = [ok |-> TRUE, list |-> {}]
    /\ server' = {w \in server : w.id # r.id} /\ used' = used

Refusing(r, a) ==
    /\ r.id # None
    /\ a = [ok |-> FALSE, list |-> {}]
    /\ server' = server /\ used' = used

Executed(r, a) ==
    /\ Listing(r, a) \/ (\E w : Adding(r, a, w)) \/ (\E w : Changing(r, a, w))
          \/ Deleting(r, a) \/ Refusing(r, a)
    /\ a \in AnswerOfBuilt
    /\ r.answer = None
    /\ requests' = (requests \ {r}) \union {WithAnswer(r, a)}
    /\ UNCHANGED <<clientVars, historyVars, work>>

LEMMA ExecuteIs ==
    ASSUME Typed, NEW r \in requests, Shape(r), Execute(r)
    PROVE  \E a : Executed(r, a)
<1>1. r \in Request /\ r.answer = None
  BY DEF Execute, Shape
<1>2. UNCHANGED <<clientVars, historyVars, work>>
  BY DEF Execute
<1>3. server \subseteq BuiltWorkspace /\ OneOfAnId(server)
  BY DEF Typed
<1>4. CASE ExecuteList(r)
  <2> DEFINE a == [ok |-> TRUE, list |-> server]
  <2>1. a \in AnswerOfBuilt
    BY <1>3 DEF AnswerOfBuilt
  <2>2. requests' = (requests \ {r}) \union {WithAnswer(r, a)}
    BY <1>4 DEF ExecuteList, Reply, Answered, WithAnswer
  <2>3. Listing(r, a)
    BY <1>4 DEF ExecuteList, Listing
  <2> HIDE DEF a
  <2> QED
    BY <1>1, <1>2, <2>1, <2>2, <2>3 DEF Executed
<1>5. ASSUME r.kind = "create" \/ (r.kind = "duplicate" /\ r.id \in Ids(server)),
             NEW new \in Id, ExecuteNew(r, new)
      PROVE  \E a : Executed(r, a)
  <2>1. PICK w \in IF r.kind = "create"
                   THEN {[id |-> new, content |-> r.body.content, favorite |-> r.body.favorite]}
                   ELSE {[Entry(server, r.id) EXCEPT !.id = new, !.favorite = FALSE]} :
               /\ server' = server \union {w}
               /\ Reply(r, Answered(r, {w}))
    BY <1>5 DEF ExecuteNew
  <2>2. /\ w \in BuiltWorkspace /\ w.id = new
        /\ r.kind = "create" => w.content = r.body.content
        /\ r.kind = "duplicate" => \E x \in server : x.id = r.id /\ w.content = x.content
    <3>1. CASE r.kind = "create"
      <4>1. r.body \in Body
        BY <3>1 DEF Shape
      <4>2. w = [id |-> new, content |-> r.body.content, favorite |-> r.body.favorite]
        BY <2>1, <3>1
      <4>3. r.kind # "duplicate"
        BY <3>1
      <4> QED
        BY <3>1, <4>1, <4>2, <4>3 DEF Body, BuiltWorkspace
    <3>2. CASE r.kind # "create"
      <4> DEFINE x == Entry(server, r.id)
      <4>1. x \in server /\ x.id = r.id
        BY <1>5, <3>2, EntryIs
      <4>2. w = [x EXCEPT !.id = new, !.favorite = FALSE]
        BY <2>1, <3>2
      <4>3. x \in BuiltWorkspace
        BY <1>3, <4>1
      <4> HIDE DEF x
      <4>4. w \in BuiltWorkspace /\ w.id = new /\ w.content = x.content
        BY <4>2, <4>3 DEF BuiltWorkspace
      <4> QED
        BY <3>2, <4>1, <4>4
    <3> QED
      BY <3>1, <3>2
  <2> DEFINE a == [ok |-> TRUE, list |-> {w}]
  <2>3. a \in AnswerOfBuilt
    BY <2>2 DEF AnswerOfBuilt
  <2>4. requests' = (requests \ {r}) \union {WithAnswer(r, a)}
    BY <2>1 DEF Reply, Answered, WithAnswer
  <2>5. new \notin used /\ used' = used \union {new}
    BY <1>5 DEF ExecuteNew
  <2>6. Adding(r, a, w)
    BY <1>5, <2>1, <2>2, <2>5 DEF Adding, New
  <2> HIDE DEF a
  <2> QED
    BY <1>1, <1>2, <2>3, <2>4, <2>6 DEF Executed
<1>6. CASE r.kind \in {"update", "favorite"} /\ ExecuteChange(r)
  <2> DEFINE w == [id |-> r.id, content |-> r.body.content, favorite |-> r.body.favorite]
             a == [ok |-> TRUE, list |-> {w}]
  <2>1. r.id \in Ids(server) /\ r.id \in Id /\ r.body \in Body
    BY <1>3, <1>6 DEF ExecuteChange, Shape, Ids, BuiltWorkspace
  <2>2. w \in BuiltWorkspace /\ w.id = r.id /\ w.content = r.body.content
    BY <2>1 DEF Body, BuiltWorkspace
  <2>3. server' = Upsert(server, w) /\ used' = used
    BY <1>6 DEF ExecuteChange
  <2>4. Reply(r, Answered(r, {x \in server' : x.id = r.id}))
    BY <1>6 DEF ExecuteChange
  <2>5. a \in AnswerOfBuilt
    BY <2>2 DEF AnswerOfBuilt
  <2> HIDE DEF w
  <2>6. {x \in server' : x.id = r.id} = {w}
    BY <1>3, <2>2, <2>3, Upserted
  <2>7. requests' = (requests \ {r}) \union {WithAnswer(r, a)}
    BY <2>4, <2>6 DEF Reply, Answered, WithAnswer
  <2>8. Changing(r, a, w)
    BY <1>6, <2>1, <2>2, <2>3 DEF Changing, Write
  <2> HIDE DEF a
  <2> QED
    BY <1>1, <1>2, <2>5, <2>7, <2>8 DEF Executed
<1>7. CASE r.kind = "delete" /\ ExecuteChange(r)
  <2> DEFINE a == [ok |-> TRUE, list |-> {}]
  <2>1. server' = {w \in server : w.id # r.id} /\ used' = used
    BY <1>7 DEF ExecuteChange
  <2>2. {w \in server' : w.id = r.id} = {}
    BY <2>1
  <2>3. requests' = (requests \ {r}) \union {WithAnswer(r, a)}
    BY <1>7, <2>2 DEF ExecuteChange, Reply, Answered, WithAnswer
  <2>4. a \in AnswerOfBuilt
    BY DEF AnswerOfBuilt
  <2>5. r.id # None
    BY <1>7 DEF Shape
  <2>6. Deleting(r, a)
    BY <1>7, <2>1, <2>5 DEF Deleting
  <2> HIDE DEF a
  <2> QED
    BY <1>1, <1>2, <2>3, <2>4, <2>6 DEF Executed
<1>8. CASE ExecuteUnknown(r)
  <2> DEFINE a == [ok |-> FALSE, list |-> {}]
  <2>1. a \in AnswerOfBuilt
    BY DEF AnswerOfBuilt
  <2>2. requests' = (requests \ {r}) \union {WithAnswer(r, a)}
    BY <1>8 DEF ExecuteUnknown, Reply, Refused, WithAnswer
  <2>3. Refusing(r, a)
    BY <1>8 DEF ExecuteUnknown, Refusing
  <2> HIDE DEF a
  <2> QED
    BY <1>1, <1>2, <2>1, <2>2, <2>3 DEF Executed
<1> QED
  BY <1>4, <1>5, <1>6, <1>7, <1>8 DEF Execute

(* The answered request keeps its shape.                                   *)
LEMMA ExecutedKeeps ==
    ASSUME Typed, NEW r \in requests, Shape(r), NEW a, Executed(r, a)
    PROVE  /\ Shape(WithAnswer(r, a))
           /\ Ids(a.list) \subseteq used'
           /\ used \subseteq used' /\ used' \subseteq Id
           /\ server' \subseteq BuiltWorkspace /\ OneOfAnId(server') /\ Ids(server') \subseteq used'
<1> DEFINE q == WithAnswer(r, a)
<1>1. r \in Request /\ a \in AnswerOfBuilt
  BY DEF Shape, Executed
<1>2. /\ q \in Request
      /\ q.answer = a /\ q.answer # None
      /\ q.kind = r.kind /\ q.id = r.id /\ q.body = r.body /\ q.gist = r.gist
  BY <1>1, AnsweredIs
<1> HIDE DEF q
<1>3. /\ New(q) <=> New(r)
      /\ Write(q) <=> Write(r)
      /\ Done(q) <=> a.ok
      /\ \A w : Sends(q, w) <=> w.content = r.body.content
  BY <1>2 DEF New, Write, Done, Sends
<1>4. /\ q.kind \in {"list", "create"} <=> q.id = None
      /\ q.kind \in {"create", "update", "favorite"} => q.body \in Body
      /\ q.kind \in {"create", "update"} => Holds(q.body.content, q.gist)
  BY <1>2 DEF Shape
<1>5. server \subseteq BuiltWorkspace /\ OneOfAnId(server) /\ Ids(server) \subseteq used
      /\ used \subseteq Id
  BY DEF Typed
<1> DEFINE Goal == /\ Shape(q)
                   /\ Ids(a.list) \subseteq used'
                   /\ used \subseteq used' /\ used' \subseteq Id
                   /\ server' \subseteq BuiltWorkspace /\ OneOfAnId(server')
                   /\ Ids(server') \subseteq used'
<1>6. ASSUME Listing(r, a) PROVE Goal
  <2>1. /\ a.ok /\ a.list = server /\ server' = server /\ used' = used
        /\ ~New(q) /\ ~Write(q) /\ q.kind # "delete"
    BY <1>2, <1>6 DEF Listing, New, Write
  <2>2. Shape(q)
    BY <1>2, <1>4, <1>5, <2>1 DEF Shape
  <2> QED
    BY <1>5, <2>1, <2>2
<1>7. ASSUME NEW w, Adding(r, a, w)
      PROVE  Goal
  <2>1. /\ a.ok /\ a.list = {w} /\ server' = server \union {w} /\ used' = used \union {w.id}
        /\ w \in BuiltWorkspace /\ w.id \notin used
        /\ r.kind = "create" => w.content = r.body.content
    BY <1>7 DEF Adding
  <2>2. ~Write(q) /\ q.kind # "delete"
    BY <1>2, <1>7 DEF Adding, New, Write
  <2>3. OneOfAnId(a.list) /\ Ids(a.list) = {w.id} /\ w.id \in Id
    BY <2>1 DEF OneOfAnId, Ids, BuiltWorkspace
  <2>4. Shape(q)
    BY <1>2, <1>3, <1>4, <2>1, <2>2, <2>3 DEF Shape
  <2>5. OneOfAnId(server') /\ Ids(server') \subseteq used'
    BY <1>5, <2>1 DEF OneOfAnId, Ids
  <2> QED
    BY <1>5, <2>1, <2>3, <2>4, <2>5
<1>8. ASSUME NEW w, Changing(r, a, w)
      PROVE  Goal
  <2>1. /\ a.ok /\ a.list = {w} /\ server' = Upsert(server, w) /\ used' = used
        /\ w \in BuiltWorkspace /\ w.id = r.id /\ r.id \in Ids(server)
        /\ w.content = r.body.content
    BY <1>8 DEF Changing
  <2>2. ~New(q) /\ q.kind # "delete"
    BY <1>2, <1>8 DEF Changing, New, Write
  <2>3. OneOfAnId(a.list) /\ Ids(a.list) = {r.id}
    BY <2>1 DEF OneOfAnId, Ids
  <2>4. Shape(q)
    BY <1>2, <1>3, <1>4, <2>1, <2>2, <2>3 DEF Shape
  <2>5. /\ server' \subseteq BuiltWorkspace /\ OneOfAnId(server')
        /\ Ids(server') = Ids(server) \union {r.id}
    BY <1>5, <2>1, Upserted
  <2> QED
    BY <1>5, <2>1, <2>3, <2>4, <2>5
<1>9. ASSUME Deleting(r, a) PROVE Goal
  <2>1. /\ a.ok /\ a.list = {} /\ used' = used /\ r.kind = "delete"
        /\ server' = {w \in server : w.id # r.id}
    BY <1>9 DEF Deleting
  <2>2. ~New(q) /\ ~Write(q)
    BY <1>2, <2>1 DEF New, Write
  <2>3. OneOfAnId(a.list) /\ Ids(a.list) = {}
    BY <2>1 DEF OneOfAnId, Ids
  <2>4. Shape(q)
    BY <1>2, <1>4, <2>1, <2>2, <2>3 DEF Shape
  <2> DEFINE left == {w \in server : w.id # r.id}
  <2>6. left \subseteq BuiltWorkspace /\ OneOfAnId(left) /\ Ids(left) \subseteq Ids(server)
    BY <1>5, Removed
  <2> HIDE DEF left
  <2>5. /\ server' \subseteq BuiltWorkspace /\ OneOfAnId(server')
        /\ Ids(server') \subseteq Ids(server)
    BY <2>1, <2>6 DEF left
  <2> QED
    BY <1>5, <2>1, <2>3, <2>4, <2>5
<1>10. ASSUME Refusing(r, a) PROVE Goal
  <2>1. ~a.ok /\ a.list = {} /\ used' = used /\ server' = server
    BY <1>10 DEF Refusing
  <2>2. ~Done(q)
    BY <1>3, <2>1
  <2>3. OneOfAnId(a.list) /\ Ids(a.list) = {}
    BY <2>1 DEF OneOfAnId, Ids
  <2>4. Shape(q)
    BY <1>2, <1>4, <2>1, <2>2, <2>3 DEF Shape
  <2> QED
    BY <1>5, <2>1, <2>3, <2>4
<1> HIDE DEF Goal
<1>11. Goal
  BY <1>6, <1>7, <1>8, <1>9, <1>10 DEF Executed
<1> QED
  BY <1>11 DEF q, Goal

(* What a click adds to the requests.                                      *)
Fresh(kind, id, body) ==
    [kind |-> kind, id |-> id, body |-> body, gist |-> Gist(view), n |-> work,
     alone |-> requests = {}, answer |-> None]

LEMMA SentIs ==
    ASSUME Typed, NEW kind, NEW id, NEW body, Send(kind, id, body), Asks(kind, id, body)
    PROVE  LET q == Fresh(kind, id, body)
           IN  /\ requests' = {NotAlone(r) : r \in requests} \union {q}
               /\ Shape(q) /\ ~Done(q) /\ q.answer = None
               /\ q.kind = kind /\ q.id = id /\ q.body = body /\ q.gist = Gist(view)
               /\ q.alone <=> requests = {}
               /\ id \in used \union {None}
<1> DEFINE q == Fresh(kind, id, body)
           alone == requests = {}
<1>1. requests' = {NotAlone(r) : r \in requests} \union {q}
  BY DEF Send, Disturbed, NotAlone, Fresh
<1>2. /\ kind \in Kind /\ id \in Ids(workspaces) \union {None} /\ body \in Body \union {None}
      /\ kind \in {"list", "create"} <=> id = None
      /\ kind \in {"create", "update", "favorite"} => body \in Body
      /\ kind \in {"create", "update"} => Holds(body.content, Gist(view))
  BY DEF Asks
<1>3. /\ Ids(workspaces) \subseteq used /\ used \subseteq Id /\ work \in Nat
      /\ view \in View
  BY IdAssumption DEF Typed
<1>4. Gist(view) \in Gists
  BY <1>3, ViewIsBuilt
<1>5. id \in used \union {None} /\ id \in Id \union {None}
  BY <1>2, <1>3
<1>6. /\ q.kind = kind /\ q.id = id /\ q.body = body /\ q.gist = Gist(view)
      /\ q.n = work /\ q.alone = alone /\ q.answer = None
  BY DEF Fresh
<1>7. q \in Request
  <2>1. alone \in BOOLEAN
    OBVIOUS
  <2>2. q = [kind |-> kind, id |-> id, body |-> body, gist |-> Gist(view), n |-> work,
             alone |-> alone, answer |-> None]
    BY DEF Fresh
  <2> HIDE DEF alone, q
  <2> QED
    BY <1>2, <1>3, <1>4, <1>5, <2>1, <2>2 DEF Request
<1>8. ~Done(q)
  BY <1>6 DEF Done
<1>9. q.alone <=> requests = {}
  BY <1>6
<1> HIDE DEF q
<1>10. Shape(q)
  BY <1>2, <1>6, <1>7, <1>8 DEF Shape
<1> QED
  BY <1>1, <1>5, <1>6, <1>8, <1>9, <1>10 DEF q

-----------------------------------------------------------------------------
(* Types: each step keeps them.                                            *)

LEMMA InitTyped == Init => TypedInv
<1> SUFFICES ASSUME Init PROVE TypedInv
  OBVIOUS
<1>1. view \in View
  BY ColumnAssumption DEF Init, View
<1>2. OneOfAnId({}) /\ Ids({}) = {}
  BY DEF OneOfAnId, Ids
<1>4. work \in 0 .. MaxWork
  BY IdAssumption DEF Init
<1>5. saved \in [Id -> Gists \union {None}] /\ mixed \in BOOLEAN /\ isLoading \in BOOLEAN
  BY DEF Init
<1>6. Typed
  BY <1>1, <1>2, <1>4, <1>5 DEF Init, Typed
<1>3. Requests /\ Unused /\ IdleIsNotLoading
  BY DEF Init, Requests, Unused, IdleIsNotLoading
<1> QED
  BY <1>3, <1>6 DEF TypedInv

LEMMA SendTyped == TypedInv /\ SendStep => TypedInv'
<1> SUFFICES ASSUME TypedInv,
                    NEW kind \in Kind, NEW id \in Ids(workspaces) \union {None},
                    NEW body \in Body \union {None},
                    Send(kind, id, body), Asks(kind, id, body)
             PROVE  TypedInv'
  BY DEF SendStep
<1>0. Typed /\ Requests /\ Unused
  BY DEF TypedInv
<1> DEFINE q == Fresh(kind, id, body)
<1>1. /\ requests' = {NotAlone(r) : r \in requests} \union {q}
      /\ Shape(q) /\ q.answer = None /\ q.id = id /\ id \in used \union {None}
  BY <1>0, SentIs
<1>2. UNCHANGED <<server, used, view, workspaces, active>> /\ isLoading' = TRUE
  BY DEF Send
<1>3. mixed' \in BOOLEAN /\ work' \in 0 .. MaxWork
  BY <1>0, IdAssumption DEF Send, Work, Typed
<1>4. torn' \subseteq Id
  <2>1. id # None => id \in Id
    BY <1>0, <1>1 DEF Typed
  <2>2. CASE id # None
    BY <1>0, <2>1, <2>2 DEF Send, Typed
  <2>3. CASE id = None
    <3>1. kind # "favorite"
      BY <2>3 DEF Asks
    <3> QED
      BY <1>0, <2>3, <3>1 DEF Send, Typed
  <2> QED
    BY <2>2, <2>3
<1>5. saved' \in [Id -> Gists \union {None}] /\ \A i \in Id : saved[i] = None => saved'[i] = None
  BY <1>0 DEF Send, Typed
<1> HIDE DEF q
<1>6. Typed'
  BY <1>0, <1>2, <1>3, <1>4, <1>5 DEF Typed
<1>7. Requests'
  <2> SUFFICES ASSUME NEW r \in requests'
               PROVE  /\ Shape(r)
                      /\ r.id \in used' \union {None}
                      /\ r.answer # None => Ids(r.answer.list) \subseteq used'
    BY DEF Requests
  <2>1. CASE r = q
    BY <1>1, <1>2, <2>1
  <2>2. CASE r # q
    <3>1. PICK p \in requests : r = NotAlone(p)
      BY <1>1, <2>2
    <3>2. /\ Shape(p) /\ p \in Request
          /\ p.id \in used \union {None}
          /\ p.answer # None => Ids(p.answer.list) \subseteq used
      BY <1>0 DEF Requests, Shape
    <3>3. Shape(r) /\ r.id = p.id /\ r.answer = p.answer
      BY <3>1, <3>2, NotAloneIs, NotAloneKeeps
    <3> QED
      BY <1>2, <3>2, <3>3
  <2> QED
    BY <2>1, <2>2
<1>8. Unused'
  BY <1>0, <1>2, <1>5 DEF Unused
<1>9. IdleIsNotLoading'
  BY <1>1 DEF IdleIsNotLoading
<1> QED
  BY <1>6, <1>7, <1>8, <1>9 DEF TypedInv

LEMMA ViewTyped == TypedInv /\ ViewStep => TypedInv'
<1> SUFFICES ASSUME TypedInv, ViewStep PROVE TypedInv'
  OBVIOUS
<1>0. Typed /\ Requests /\ Unused /\ IdleIsNotLoading
  BY DEF TypedInv
<1>1. /\ UNCHANGED <<server, used, workspaces, requests, saved, torn, mixed>>
      /\ view' \in View
  BY DEF ViewStep, historyVars
<1>5. active' \in used \union {None}
  BY <1>0 DEF ViewStep, Typed
<1>8. isLoading' = isLoading \/ isLoading' = FALSE
  BY Zenon DEF ViewStep
<1>9. isLoading \in BOOLEAN
  BY <1>0 DEF Typed
<1>10. isLoading' \in BOOLEAN
  BY <1>8, <1>9
<1>11. isLoading' => isLoading
  BY <1>8, Zenon
<1>6. isLoading' \in BOOLEAN /\ (isLoading' => isLoading)
  BY <1>10, <1>11, Zenon
<1>7. work' \in 0 .. MaxWork
  BY <1>0, IdAssumption DEF ViewStep, Work, Typed
<1>2. Typed'
  BY <1>0, <1>1, <1>5, <1>6, <1>7 DEF Typed
<1>3. Requests' /\ Unused'
  BY <1>0, <1>1 DEF Requests, Unused
<1>4. IdleIsNotLoading'
  BY <1>0, <1>1, <1>6 DEF IdleIsNotLoading
<1> QED
  BY <1>2, <1>3, <1>4 DEF TypedInv

LEMMA ReloadTyped == TypedInv /\ Reload => TypedInv'
<1> SUFFICES ASSUME TypedInv, Reload PROVE TypedInv'
  OBVIOUS
<1>0. Typed /\ Requests /\ Unused
  BY DEF TypedInv
<1>1. /\ UNCHANGED <<server, used, view, saved>>
      /\ workspaces' = {} /\ active' = None /\ isLoading' = FALSE
      /\ requests' = {} /\ mixed' = TRUE
      /\ work' \in 0 .. MaxWork
  BY <1>0, IdAssumption DEF Reload, Work, Typed
<1>2. torn' \subseteq Id
  <2>1. \A r \in requests : r.id # None => r.id \in Id
    BY <1>0 DEF Requests, Typed
  <2> QED
    BY <1>0, <2>1 DEF Reload, Typed
<1>3. Typed'
  BY <1>0, <1>1, <1>2 DEF Typed, OneOfAnId, Ids
<1>4. Requests' /\ Unused' /\ IdleIsNotLoading'
  BY <1>0, <1>1 DEF Requests, Unused, IdleIsNotLoading
<1> QED
  BY <1>3, <1>4 DEF TypedInv

LEMMA ExecuteTyped == ASSUME TypedInv, NEW r \in requests, Execute(r) PROVE TypedInv'
<1>0. Typed /\ Requests /\ Unused /\ IdleIsNotLoading /\ Shape(r)
  BY DEF TypedInv, Requests
<1>1. PICK a : Executed(r, a)
  BY <1>0, ExecuteIs
<1> DEFINE q == WithAnswer(r, a)
<1>2. /\ Shape(q)
      /\ Ids(a.list) \subseteq used'
      /\ used \subseteq used' /\ used' \subseteq Id
      /\ server' \subseteq BuiltWorkspace /\ OneOfAnId(server') /\ Ids(server') \subseteq used'
  BY <1>0, <1>1, ExecutedKeeps
<1>3. /\ requests' = (requests \ {r}) \union {q}
      /\ UNCHANGED <<view, workspaces, active, isLoading, saved, torn, mixed, work>>
  BY <1>1 DEF Executed, clientVars, historyVars
<1>4. q.answer = a /\ q.id = r.id
  BY <1>0, <1>1, AnsweredIs DEF Shape, Executed
<1> HIDE DEF q
<1>5. Typed'
  BY <1>0, <1>2, <1>3 DEF Typed
<1>6. Requests'
  BY <1>0, <1>2, <1>3, <1>4 DEF Requests
<1>7. Unused' /\ IdleIsNotLoading'
  BY <1>0, <1>2, <1>3 DEF Unused, IdleIsNotLoading
<1> QED
  BY <1>5, <1>6, <1>7 DEF TypedInv

LEMMA OtherIsBuilt == ASSUME NEW w \in Other PROVE w \in BuiltWorkspace /\ w.id \in Id
BY OtherAssumption DEF BuiltWorkspace, Built

LEMMA OtherTyped == ASSUME TypedInv, NEW w \in Other, OtherClient(w) PROVE TypedInv'
<1>0. Typed /\ Requests /\ Unused /\ IdleIsNotLoading
  BY DEF TypedInv
<1>1. w \in BuiltWorkspace /\ w.id \in Id
  BY OtherIsBuilt
<1>2. /\ UNCHANGED <<view, workspaces, active, isLoading, saved>>
      /\ used' = used \union {w.id}
      /\ requests' = {NotAlone(r) : r \in requests}
      /\ mixed' = TRUE /\ torn' = torn \union {w.id}
      /\ work' \in 0 .. MaxWork
  BY <1>0, IdAssumption DEF OtherClient, clientVars, Disturbed, NotAlone, Work, Typed
<1>3. server' \subseteq BuiltWorkspace /\ OneOfAnId(server') /\ Ids(server') \subseteq used'
  <2>0. server \subseteq BuiltWorkspace /\ OneOfAnId(server) /\ Ids(server) \subseteq used
    BY <1>0 DEF Typed
  <2>1. CASE w.id \notin used /\ server' = server \union {w}
    BY <1>1, <1>2, <2>0, <2>1 DEF OneOfAnId, Ids
  <2>2. CASE server' = Upsert(server, w)
    BY <1>1, <1>2, <2>0, <2>2, Upserted
  <2>3. CASE server' = {x \in server : x.id # w.id}
    <3> DEFINE id == w.id
               left == {y \in server : y.id # id}
    <3> HIDE DEF id
    <3>1. left \subseteq BuiltWorkspace /\ OneOfAnId(left) /\ Ids(left) \subseteq Ids(server)
      BY <2>0 DEF OneOfAnId, Ids
    <3>2. server' = left
      BY <2>3 DEF id
    <3> HIDE DEF left
    <3> QED
      BY <1>2, <2>0, <3>1, <3>2
  <2> QED
    BY <2>1, <2>2, <2>3 DEF OtherClient
<1>4. Typed'
  BY <1>0, <1>1, <1>2, <1>3 DEF Typed
<1>5. Requests'
  <2> SUFFICES ASSUME NEW p \in requests
               PROVE  LET r == NotAlone(p)
                      IN  /\ Shape(r)
                          /\ r.id \in used' \union {None}
                          /\ r.answer # None => Ids(r.answer.list) \subseteq used'
    BY <1>2 DEF Requests
  <2>1. /\ Shape(p) /\ p \in Request
        /\ p.id \in used \union {None}
        /\ p.answer # None => Ids(p.answer.list) \subseteq used
    BY <1>0 DEF Requests, Shape
  <2> QED
    BY <1>2, <2>1, NotAloneIs, NotAloneKeeps
<1>6. Unused'
  BY <1>0, <1>2 DEF Unused
<1>7. IdleIsNotLoading'
  BY <1>0, <1>2 DEF IdleIsNotLoading
<1> QED
  BY <1>4, <1>5, <1>6, <1>7 DEF TypedInv

(* What an answer that is told of does to the list, and to what is saved.  *)
LEMMA ReceivedIs ==
    ASSUME Typed, NEW r \in requests, Shape(r), Done(r), Receive(r)
    PROVE  /\ requests' = requests \ {r}
           /\ isLoading' = FALSE
           /\ mixed' = IF r.kind = "list" /\ r.alone THEN FALSE ELSE mixed
           /\ saved' = Told(r)
           /\ r.kind = "list" => workspaces' = r.answer.list /\ active' = active
           /\ (New(r) \/ Write(r)) =>
                 \E w \in BuiltWorkspace :
                    /\ r.answer.list = {w} /\ workspaces' = Upsert(workspaces, w)
                    /\ active' \in {active, w.id}
                    /\ Write(r) => w.id = r.id
           /\ r.kind = "delete" =>
                 /\ workspaces' = {w \in workspaces : w.id # r.id}
                 /\ active' \in {active, None}
           /\ UNCHANGED <<server, used, view, torn, work>>
<1>1. r.answer # None /\ r.answer.ok
  BY DEF Done
<1>2. /\ Succeeded(r) /\ saved' = Told(r)
      /\ mixed' = IF r.kind = "list" /\ r.alone THEN FALSE ELSE mixed
      /\ requests' = requests \ {r}
      /\ UNCHANGED <<server, used, view, torn, work>>
  BY <1>1 DEF Receive
<1>3. isLoading' = FALSE
  BY <1>2 DEF Succeeded
<1>4. r.kind = "list" => workspaces' = r.answer.list /\ active' = active
  BY <1>2 DEF Succeeded
<1>5. ASSUME New(r) \/ Write(r)
      PROVE  \E w \in BuiltWorkspace :
                /\ r.answer.list = {w} /\ workspaces' = Upsert(workspaces, w)
                /\ active' \in {active, w.id}
                /\ Write(r) => w.id = r.id
  <2>1. PICK w \in BuiltWorkspace : r.answer.list = {w} /\ (Write(r) => w.id = r.id)
    <3>1. New(r) => ~Write(r)
      BY DEF New, Write
    <3> QED
      BY <1>5, <3>1 DEF Shape
  <2>2. r.kind \in {"create", "update", "duplicate", "favorite"}
    BY <1>5 DEF New, Write
  <2>3. /\ workspaces' = Upsert(workspaces, w)
        /\ active' = IF r.kind = "favorite" THEN active ELSE w.id
    BY <1>2, <2>1, <2>2 DEF Succeeded
  <2> QED
    BY <2>1, <2>3
<1>6. r.kind = "delete" =>
         /\ workspaces' = {w \in workspaces : w.id # r.id}
         /\ active' \in {active, None}
  BY <1>2 DEF Succeeded
<1> QED
  BY <1>2, <1>3, <1>4, <1>5, <1>6

(* What is told is saved is a view that a request carries, or one that is  *)
(* saved.                                                                  *)
LEMMA ToldIs ==
    ASSUME Typed, NEW r, Shape(r)
    PROVE  /\ Told(r) \in [Id -> Gists \union {None}]
           /\ \A id \in Id : (\A w \in r.answer.list : w.id # id) => Told(r)[id] = saved[id]
           /\ (r.kind \in {"list", "favorite", "delete"}
                \/ (r.kind = "duplicate" /\ r.id \in torn)) => Told(r) = saved
           /\ (r.kind \in {"create", "update"}) =>
                 \A id \in Id : (\E w \in r.answer.list : w.id = id) => Told(r)[id] = r.gist
           /\ (r.kind = "duplicate" /\ r.id \notin torn) =>
                 \A id \in Id : (\E w \in r.answer.list : w.id = id) => Told(r)[id] = saved[r.id]
<1>1. /\ saved \in [Id -> Gists \union {None}] /\ r.gist \in Gists
      /\ r.kind \in Kind /\ r.id \in Id \union {None}
      /\ r.kind = "duplicate" => r.id \in Id
  BY DEF Typed, Request, Shape
<1>2. CASE r.kind \in {"create", "update"}
  <2>1. Told(r) = [id \in Id |-> IF \E w \in r.answer.list : w.id = id
                                 THEN r.gist ELSE saved[id]]
    BY <1>2 DEF Told
  <2>2. r.kind \notin {"list", "favorite", "delete", "duplicate"}
    BY <1>2
  <2> QED
    BY <1>1, <2>1, <2>2
<1>3. CASE r.kind = "duplicate" /\ r.id \notin torn
  <2>1. Told(r) = [id \in Id |-> IF \E w \in r.answer.list : w.id = id
                                 THEN saved[r.id] ELSE saved[id]]
    BY <1>3 DEF Told
  <2>2. r.kind \notin {"list", "favorite", "delete", "create", "update"}
    BY <1>3
  <2>3. saved[r.id] \in Gists \union {None}
    BY <1>1, <1>3
  <2> QED
    BY <1>1, <1>3, <2>1, <2>2, <2>3
<1>4. CASE r.kind \in {"list", "favorite", "delete"} \/ (r.kind = "duplicate" /\ r.id \in torn)
  <2>1. Told(r) = saved
    BY <1>4 DEF Told
  <2>2. r.kind \notin {"create", "update"} /\ ~(r.kind = "duplicate" /\ r.id \notin torn)
    BY <1>4
  <2> QED
    BY <1>1, <2>1, <2>2
<1> QED
  BY <1>1, <1>2, <1>3, <1>4 DEF Kind

LEMMA ReceiveTyped == ASSUME TypedInv, NEW r \in requests, Receive(r) PROVE TypedInv'
<1>0. Typed /\ Requests /\ Unused /\ IdleIsNotLoading /\ Shape(r)
  BY DEF TypedInv, Requests
<1>1. r \in Request /\ r.answer # None /\ requests' = requests \ {r}
  BY <1>0 DEF Receive, Shape
<1>2. CASE Done(r)
  <2>1. /\ isLoading' = FALSE
        /\ mixed' = IF r.kind = "list" /\ r.alone THEN FALSE ELSE mixed
        /\ saved' = Told(r)
        /\ UNCHANGED <<server, used, view, torn, work>>
    BY <1>0, <1>2, ReceivedIs
  <2>2. mixed' \in BOOLEAN
    BY <1>0, <2>1 DEF Typed
  <2>3. saved' \in [Id -> Gists \union {None}]
    BY <1>0, <1>1, <2>1, ToldIs
  <2>4. /\ Ids(r.answer.list) \subseteq used /\ r.answer.list \subseteq BuiltWorkspace
        /\ OneOfAnId(r.answer.list)
    BY <1>0, <1>1 DEF Requests, Shape, Request, AnswerOfBuilt
  <2>5. /\ workspaces' \subseteq BuiltWorkspace /\ OneOfAnId(workspaces')
        /\ Ids(workspaces') \subseteq used /\ active' \in used \union {None}
    <3>0. /\ workspaces \subseteq BuiltWorkspace /\ OneOfAnId(workspaces)
          /\ Ids(workspaces) \subseteq used /\ active \in used \union {None}
      BY <1>0 DEF Typed
    <3>1. CASE r.kind = "list"
      BY <1>0, <1>2, <2>4, <3>0, <3>1, ReceivedIs
    <3>2. CASE New(r) \/ Write(r)
      <4>1. PICK w \in BuiltWorkspace :
                /\ r.answer.list = {w} /\ workspaces' = Upsert(workspaces, w)
                /\ active' \in {active, w.id}
        BY <1>0, <1>2, <3>2, ReceivedIs
      <4>2. w.id \in used
        BY <2>4, <4>1 DEF Ids
      <4> QED
        BY <3>0, <4>1, <4>2, Upserted
    <3>3. CASE r.kind = "delete"
      <4> DEFINE id == r.id
                 left == {w \in workspaces : w.id # id}
      <4>1. workspaces' = left /\ active' \in {active, None}
        BY <1>0, <1>2, <3>3, ReceivedIs
      <4> HIDE DEF id
      <4>2. left \subseteq BuiltWorkspace /\ OneOfAnId(left) /\ Ids(left) \subseteq Ids(workspaces)
        BY <3>0, Removed
      <4> HIDE DEF left
      <4> QED
        BY <3>0, <4>1, <4>2
    <3> QED
      BY <1>1, <3>1, <3>2, <3>3 DEF Request, Kind, New, Write
  <2>6. Typed'
    BY <1>0, <2>1, <2>2, <2>3, <2>5 DEF Typed
  <2>7. Unused'
    <3> SUFFICES ASSUME NEW id \in Id \ used PROVE saved'[id] = None
      BY <2>1 DEF Unused
    <3>1. \A w \in r.answer.list : w.id # id
      BY <2>4 DEF Ids
    <3>2. Told(r)[id] = saved[id]
      BY <1>0, <1>1, <3>1, ToldIs
    <3> QED
      BY <1>0, <2>1, <3>2 DEF Unused
  <2>8. Requests' /\ IdleIsNotLoading'
    BY <1>0, <1>1, <2>1 DEF Requests, IdleIsNotLoading
  <2> QED
    BY <2>6, <2>7, <2>8 DEF TypedInv
<1>3. CASE ~Done(r)
  <2>1. ~r.answer.ok
    BY <1>1, <1>3 DEF Done
  <2>2. /\ Failed /\ mixed' = TRUE
        /\ UNCHANGED <<saved, server, used, view, torn, work>>
    BY <1>1, <2>1 DEF Receive
  <2>3. isLoading' = FALSE /\ UNCHANGED <<workspaces, active>>
    BY <2>2 DEF Failed
  <2>4. Typed'
    BY <1>0, <2>2, <2>3 DEF Typed
  <2>5. Requests' /\ Unused' /\ IdleIsNotLoading'
    BY <1>0, <1>1, <2>2, <2>3 DEF Requests, Unused, IdleIsNotLoading
  <2> QED
    BY <2>4, <2>5 DEF TypedInv
<1> QED
  BY <1>2, <1>3

LEMMA FailsTyped == ASSUME TypedInv, NEW r \in requests, ConnectionFails(r) PROVE TypedInv'
<1>0. Typed /\ Requests /\ Unused
  BY DEF TypedInv
<1>1. /\ requests' = requests \ {r} /\ mixed' = TRUE /\ isLoading' = FALSE
      /\ UNCHANGED <<workspaces, active, server, used, view, saved, torn, work>>
  BY DEF ConnectionFails, Failed
<1>2. Typed'
  BY <1>0, <1>1 DEF Typed
<1>3. Requests' /\ Unused' /\ IdleIsNotLoading'
  BY <1>0, <1>1 DEF Requests, Unused, IdleIsNotLoading
<1> QED
  BY <1>2, <1>3 DEF TypedInv

LEMMA StutterTyped == TypedInv /\ UNCHANGED vars => TypedInv'
BY DEF TypedInv, Typed, Requests, Unused, IdleIsNotLoading, vars, clientVars, historyVars

LEMMA NextTyped == TypedInv /\ [Next]_vars => TypedInv'
<1> SUFFICES ASSUME TypedInv, [Next]_vars PROVE TypedInv'
  OBVIOUS
<1>1. Typed
  BY DEF TypedInv
<1> QED
  BY <1>1, Steps, SendTyped, ViewTyped, ReloadTyped, ExecuteTyped, OtherTyped, ReceiveTyped,
     FailsTyped, StutterTyped

LEMMA AlwaysTyped == Spec => []TypedInv
BY InitTyped, NextTyped, PTL DEF Spec

LEMMA TypedIsConsistent == TypedInv => Consistent
<1> SUFFICES ASSUME TypedInv PROVE Consistent
  OBVIOUS
<1>1. Built \subseteq Content
  BY BuiltIsContent
<1>2. BuiltWorkspace \subseteq Workspace
  BY <1>1 DEF BuiltWorkspace, Workspace
<1>3. Typed /\ IdleIsNotLoading
  BY DEF TypedInv
<1>4. \A r \in requests : r.kind \in Kind /\ r.id \in Id \union {None}
  BY DEF TypedInv, Requests, Shape, Request
<1>5. TypeOK
  BY <1>2, <1>3, <1>4 DEF Typed, TypeOK, OneOfAnId
<1> QED
  BY <1>3, <1>5 DEF Consistent

(* The client keeps its types, lists have one workspace of an id, ids are  *)
(* ones the server gave, and the menu's buttons are free when nothing is   *)
(* in flight.                                                              *)
THEOREM ClientIsConsistent == Spec => []Consistent
BY AlwaysTyped, TypedIsConsistent, PTL

-----------------------------------------------------------------------------
(* The list: a request that went out alone leaves it and the server apart  *)
(* by what it does, until its answer is taken in.                          *)

LEMMA InitList == Init => ListInv
BY DEF Init, ListInv, AloneIsOnly, AloneIsCurrent, UnmixedIsAlone, ListIsServers

LEMMA SendList == TypedInv /\ ListInv /\ SendStep => ListInv'
<1> SUFFICES ASSUME TypedInv, ListInv,
                    NEW kind \in Kind, NEW id \in Ids(workspaces) \union {None},
                    NEW body \in Body \union {None},
                    Send(kind, id, body), Asks(kind, id, body)
             PROVE  ListInv'
  BY DEF SendStep
<1>0. Typed /\ Requests
  BY DEF TypedInv
<1> DEFINE q == Fresh(kind, id, body)
<1>1. /\ requests' = {NotAlone(r) : r \in requests} \union {q}
      /\ ~Done(q) /\ (q.alone <=> requests = {})
  BY <1>0, SentIs
<1>2. UNCHANGED <<server, workspaces>> /\ mixed' = (mixed \/ requests # {})
  BY DEF Send
<1>3. \A r \in requests : NotAlone(r).alone = FALSE
  BY <1>0, NotAloneIs DEF Requests, Shape
<1> HIDE DEF q
<1>4. \A r \in requests' : r.alone => r = q /\ requests' = {q}
  BY <1>1, <1>3
<1>5. ~mixed' => ~mixed /\ requests = {} /\ requests' = {q} /\ q.alone
  BY <1>1, <1>2
<1>6. ~mixed' => workspaces' = server'
  BY <1>2, <1>5 DEF ListInv, ListIsServers
<1>7. AloneIsOnly'
  BY <1>4 DEF AloneIsOnly
<1>8. AloneIsCurrent'
  BY <1>1, <1>4 DEF AloneIsCurrent
<1>9. UnmixedIsAlone'
  BY <1>5 DEF UnmixedIsAlone
<1>10. ~mixed' => \A r \in requests' : Pending(r)'
  <2> SUFFICES ASSUME ~mixed', NEW r \in requests'
               PROVE  Pending(r)'
    OBVIOUS
  <2>1. r = q
    BY <1>5
  <2>2. ~Done(r)
    BY <1>1, <2>1
  <2> QED
    BY <1>6, <2>2 DEF Pending
<1>11. ListIsServers'
  BY <1>1 DEF ListIsServers
<1> QED
  BY <1>7, <1>8, <1>9, <1>10, <1>11 DEF ListInv

LEMMA SameList ==
    ASSUME ListInv, UNCHANGED <<server, workspaces, requests, mixed>>
    PROVE  ListInv'
<1>1. AloneIsOnly' /\ AloneIsCurrent' /\ UnmixedIsAlone' /\ ListIsServers'
  BY DEF ListInv, AloneIsOnly, AloneIsCurrent, UnmixedIsAlone, ListIsServers
<1>2. ~mixed' => \A r \in requests' : Pending(r)'
  BY DEF ListInv, Pending
<1> QED
  BY <1>1, <1>2 DEF ListInv

(* When the list may be old, nothing is said of it.                        *)
LEMMA OldList ==
    ASSUME mixed', \A r \in requests' : r.alone => requests' = {r} /\ ~(r.kind = "list" /\ Done(r))
    PROVE  ListInv'
<1>1. AloneIsOnly' /\ AloneIsCurrent' /\ UnmixedIsAlone' /\ ListIsServers'
  BY DEF AloneIsOnly, AloneIsCurrent, UnmixedIsAlone, ListIsServers
<1> QED
  BY <1>1 DEF ListInv

LEMMA ExecutedList ==
    ASSUME TypedInv, ListInv, NEW r \in requests, Execute(r)
    PROVE  ListInv'
<1>0. Typed /\ Requests /\ Shape(r)
  BY DEF TypedInv, Requests
<1>1. PICK a : Executed(r, a)
  BY <1>0, ExecuteIs
<1> DEFINE q == WithAnswer(r, a)
<1>2. /\ requests' = (requests \ {r}) \union {q}
      /\ UNCHANGED <<workspaces, mixed>>
      /\ a \in AnswerOfBuilt /\ r.answer = None
  BY <1>1 DEF Executed, clientVars, historyVars
<1>3. /\ q.answer = a /\ q.answer # None /\ q.alone = r.alone /\ q.kind = r.kind /\ q.id = r.id
  BY <1>0, <1>2, AnsweredIs DEF Shape
<1>4. Done(q) <=> a.ok
  BY <1>3 DEF Done
<1>5. /\ New(q) <=> New(r)
      /\ Write(q) <=> Write(r)
  BY <1>3 DEF New, Write
<1> HIDE DEF q
<1>6. AloneIsOnly /\ UnmixedIsAlone
  BY DEF ListInv
<1>7. \A p \in requests' : p.alone => p = q /\ requests = {r} /\ requests' = {q}
  BY <1>2, <1>3, <1>6 DEF AloneIsOnly
<1>8. AloneIsOnly'
  BY <1>7 DEF AloneIsOnly
<1>9. AloneIsCurrent'
  <2> SUFFICES ASSUME NEW p \in requests', p.alone, p.kind = "list", Done(p)
               PROVE  p.answer.list = server'
    BY DEF AloneIsCurrent
  <2>1. p = q /\ r.kind = "list" /\ a.ok
    BY <1>3, <1>4, <1>7
  <2>2. Listing(r, a)
    BY <1>0, <1>1, <2>1
       DEF Executed, Adding, Changing, Deleting, Refusing, New, Write
  <2> QED
    BY <1>3, <2>1, <2>2 DEF Listing
<1>10. UnmixedIsAlone'
  BY <1>2, <1>3, <1>6 DEF UnmixedIsAlone
<1>11. ListIsServers'
  BY <1>2 DEF ListIsServers
<1>12. ASSUME ~mixed' PROVE \A p \in requests' : Pending(p)'
  <2>1. \A p \in requests' : p = q
    BY <1>2, <1>3, <1>6, <1>7, <1>12 DEF UnmixedIsAlone
  <2>2. workspaces = server
    BY <1>2, <1>12 DEF ListInv, Pending, Done
  <2>3. /\ server \subseteq BuiltWorkspace /\ Ids(server) \subseteq used
    BY <1>0 DEF Typed
  <2>4. CASE Listing(r, a)
    <3>1. workspaces' = server' /\ a.ok /\ r.kind = "list"
      BY <1>2, <2>2, <2>4 DEF Listing
    <3>2. ~New(q) /\ ~Write(q) /\ q.kind # "delete" /\ Done(q)
      BY <1>3, <1>4, <3>1 DEF New, Write
    <3>3. Pending(q)'
      BY <3>1, <3>2 DEF Pending
    <3> QED
      BY <2>1, <3>3
  <2>5. ASSUME NEW w, Adding(r, a, w) PROVE Pending(q)'
    <3>1. /\ a.ok /\ a.list = {w} /\ New(q) /\ server' = server \union {w}
          /\ w.id \notin used
      BY <1>5, <2>5 DEF Adding
    <3>2. q.kind \notin {"list", "delete"} /\ Done(q)
      BY <1>4, <3>1 DEF New
    <3>3. server' = Upsert(workspaces', w)
      BY <1>2, <2>2, <2>3, <3>1 DEF Upsert, Ids
    <3> QED
      BY <1>3, <3>1, <3>2, <3>3 DEF Pending
  <2>6. ASSUME NEW w, Changing(r, a, w) PROVE Pending(q)'
    <3>1. a.ok /\ a.list = {w} /\ Write(q) /\ server' = Upsert(server, w)
      BY <1>5, <2>6 DEF Changing
    <3>2. q.kind \notin {"list", "delete"} /\ Done(q)
      BY <1>4, <3>1 DEF Write
    <3>3. server' = Upsert(workspaces', w)
      BY <1>2, <2>2, <3>1
    <3> QED
      BY <1>3, <3>1, <3>2, <3>3 DEF Pending
  <2>7. CASE Deleting(r, a)
    <3>1. a.ok /\ r.kind = "delete" /\ server' = {w \in workspaces' : w.id # q.id}
      BY <1>2, <1>3, <2>2, <2>7 DEF Deleting
    <3>2. ~New(q) /\ ~Write(q) /\ q.kind # "list" /\ Done(q)
      BY <1>3, <1>4, <3>1 DEF New, Write
    <3>3. Pending(q)'
      BY <3>1, <3>2 DEF Pending
    <3> QED
      BY <2>1, <3>3
  <2>8. CASE Refusing(r, a)
    <3>1. ~Done(q) /\ server' = workspaces'
      BY <1>2, <1>4, <2>2, <2>8 DEF Refusing
    <3>2. Pending(q)'
      BY <3>1 DEF Pending
    <3> QED
      BY <2>1, <3>2
  <2> QED
    BY <1>1, <2>1, <2>4, <2>5, <2>6, <2>7, <2>8 DEF Executed
<1> QED
  BY <1>8, <1>9, <1>10, <1>11, <1>12 DEF ListInv

LEMMA ReceiveList ==
    ASSUME TypedInv, ListInv, NEW r \in requests, Receive(r)
    PROVE  ListInv'
<1>0. Typed /\ Requests /\ Shape(r)
  BY DEF TypedInv, Requests
<1>1. /\ r \in Request /\ r.answer # None /\ requests' = requests \ {r}
      /\ server' = server
  BY <1>0 DEF Receive, Shape
<1>2. AloneIsOnly /\ AloneIsCurrent /\ UnmixedIsAlone
  BY DEF ListInv
<1>3. \A p \in requests' : ~p.alone
  BY <1>1, <1>2 DEF AloneIsOnly
<1>4. CASE ~Done(r)
  <2>1. mixed' = TRUE
    BY <1>1, <1>4 DEF Receive, Done
  <2> QED
    BY <1>3, <2>1, OldList
<1>5. CASE Done(r)
  <2>1. mixed' = IF r.kind = "list" /\ r.alone THEN FALSE ELSE mixed
    BY <1>0, <1>5, ReceivedIs
  <2>2. ~mixed' => r.alone
    BY <1>2, <2>1 DEF UnmixedIsAlone
  <2>3. ~mixed' => requests' = {}
    BY <1>1, <1>2, <2>2 DEF AloneIsOnly
  <2>4. ASSUME ~mixed' PROVE workspaces' = server'
    <3>1. CASE r.kind = "list"
      <4>1. r.answer.list = server
        BY <1>2, <1>5, <2>2, <2>4, <3>1 DEF AloneIsCurrent
      <4> QED
        BY <1>0, <1>1, <1>5, <3>1, <4>1, ReceivedIs
    <3>2. CASE r.kind # "list"
      <4>1. Pending(r)
        BY <2>1, <2>4, <3>2 DEF ListInv
      <4>2. CASE New(r) \/ Write(r)
        <5>1. PICK w \in BuiltWorkspace :
                 r.answer.list = {w} /\ workspaces' = Upsert(workspaces, w)
          BY <1>0, <1>5, <4>2, ReceivedIs
        <5>2. server = Upsert(workspaces, w)
          BY <1>5, <4>1, <4>2, <5>1 DEF Pending
        <5> QED
          BY <1>1, <5>1, <5>2
      <4>3. CASE r.kind = "delete"
        <5>1. server = {w \in workspaces : w.id # r.id}
          BY <1>5, <4>1, <4>3 DEF Pending
        <5>2. workspaces' = {w \in workspaces : w.id # r.id}
          BY <1>0, <1>5, <4>3, ReceivedIs
        <5> QED
          BY <1>1, <5>1, <5>2
      <4> QED
        BY <1>1, <3>2, <4>2, <4>3 DEF Request, Kind, New, Write
    <3> QED
      BY <3>1, <3>2
  <2>5. AloneIsOnly' /\ AloneIsCurrent'
    BY <1>3 DEF AloneIsOnly, AloneIsCurrent
  <2>6. UnmixedIsAlone' /\ (~mixed' => \A p \in requests' : Pending(p)')
    BY <2>3 DEF UnmixedIsAlone
  <2>7. ListIsServers'
    BY <2>4 DEF ListIsServers
  <2> QED
    BY <2>5, <2>6, <2>7 DEF ListInv
<1> QED
  BY <1>4, <1>5

LEMMA NextList == TypedInv /\ ListInv /\ [Next]_vars => ListInv'
<1> SUFFICES ASSUME TypedInv, ListInv, [Next]_vars PROVE ListInv'
  OBVIOUS
<1>0. Typed /\ Requests
  BY DEF TypedInv
<1>1. CASE SendStep
  BY <1>1, SendList
<1>2. CASE ViewStep
  BY <1>2, SameList DEF ViewStep, historyVars
<1>3. CASE Reload
  BY <1>3, OldList DEF Reload
<1>4. ASSUME NEW r \in requests, Execute(r) PROVE ListInv'
  BY <1>4, ExecutedList
<1>5. ASSUME NEW w \in Other, OtherClient(w) PROVE ListInv'
  <2>1. requests' = {NotAlone(r) : r \in requests} /\ mixed' = TRUE
    BY <1>5 DEF OtherClient, Disturbed, NotAlone
  <2>2. \A r \in requests : NotAlone(r).alone = FALSE
    BY <1>0, NotAloneIs DEF Requests, Shape
  <2> QED
    BY <2>1, <2>2, OldList
<1>6. ASSUME NEW r \in requests, Receive(r) PROVE ListInv'
  BY <1>6, ReceiveList
<1>7. ASSUME NEW r \in requests, ConnectionFails(r) PROVE ListInv'
  <2>1. requests' = requests \ {r} /\ mixed' = TRUE
    BY <1>7 DEF ConnectionFails
  <2>2. \A p \in requests' : ~p.alone
    BY <2>1 DEF ListInv, AloneIsOnly
  <2> QED
    BY <2>1, <2>2, OldList
<1>8. CASE UNCHANGED vars
  BY <1>8, SameList DEF vars, clientVars, historyVars
<1> QED
  BY <1>0, <1>1, <1>2, <1>3, <1>4, <1>5, <1>6, <1>7, <1>8, Steps

(* When no request is in flight and none overlapped another, the menu      *)
(* shows the workspaces the server has: for any number of requests, in any *)
(* order of execution and answer, and with lost connections.               *)
THEOREM MenuIsServers == Spec => []ListIsServers
<1>1. TypedInv /\ ListInv /\ [Next]_vars => ListInv'
  BY NextList
<1>2. ListInv => ListIsServers
  BY DEF ListInv
<1> QED
  BY <1>1, <1>2, InitList, AlwaysTyped, PTL DEF Spec

-----------------------------------------------------------------------------
(* What is saved: a workspace nobody quarrels about brings it back.        *)

LEMMA InitSaved == Init => SavedInv
BY DEF Init, SavedInv, RequestsHold, OverlapIsTorn, ServerHolds, ListHolds

LEMMA AboutIs ==
    ASSUME Typed, NEW r, Shape(r)
    PROVE  /\ About(r, r.id)
           /\ (New(r) /\ Done(r)) => \A w \in r.answer.list : About(r, w.id)
           /\ (Write(r) /\ Done(r)) => \A w \in r.answer.list : About(r, w.id)
           /\ Done(r) => \A w \in r.answer.list : w.id \in Id
<1>1. About(r, r.id)
  BY DEF About
<1>2. (New(r) /\ Done(r)) => \A w \in r.answer.list : About(r, w.id)
  BY DEF About, New, Done, Ids
<1>3. (Write(r) /\ Done(r)) => \A w \in r.answer.list : About(r, w.id)
  BY DEF Shape, About
<1>4. Done(r) => r.answer.list \subseteq BuiltWorkspace
  BY DEF Shape, Request, Done, AnswerOfBuilt
<1> QED
  BY <1>1, <1>2, <1>3, <1>4 DEF BuiltWorkspace

LEMMA AboutUsed ==
    ASSUME Requests, NEW r \in requests, NEW id \in Id, About(r, id)
    PROVE  id \in used
<1>1. r.id \in used \union {None} /\ (r.answer # None => Ids(r.answer.list) \subseteq used)
  BY DEF Requests
<1> QED
  BY <1>1, IdAssumption DEF About

(* A step that leaves what a request is about alone, or unsure.            *)
LEMMA KeepsRequest ==
    ASSUME Typed, NEW p, Shape(p), RequestHolds(p),
           NEW r, r.kind = p.kind, r.id = p.id, r.body = p.body, r.answer = p.answer,
           torn \subseteq torn',
           \A id \in Id \ torn' : About(p, id) =>
              /\ saved'[id] \in {saved[id], None}
              /\ \A x \in server' : x.id = id => x \in server
    PROVE  RequestHolds(r)'
<1>1. /\ Done(r) <=> Done(p)
      /\ New(r) <=> New(p)
  BY DEF Done, New
<1>2. /\ About(p, p.id)
      /\ New(p) /\ Done(p) => \A w \in p.answer.list : About(p, w.id)
      /\ Write(p) /\ Done(p) => \A w \in p.answer.list : About(p, w.id)
      /\ Done(p) => \A w \in p.answer.list : w.id \in Id
  BY AboutIs
<1>3. p.kind \in {"update", "favorite", "delete", "duplicate"} => p.id \in Id
  BY DEF Shape, Request
<1>4. AnswerIsCurrent(r)'
  <2> SUFFICES ASSUME Done(r), r.kind \in {"create", "update", "duplicate"},
                      NEW w \in r.answer.list, w.id \notin torn',
                      NEW x \in server', x.id = w.id
               PROVE  x.content = w.content
    BY DEF AnswerIsCurrent
  <2>1. New(p) \/ Write(p)
    BY DEF New, Write
  <2>2. About(p, w.id) /\ w.id \in Id
    BY <1>1, <1>2, <2>1
  <2>3. x \in server /\ w.id \notin torn
    BY <2>2
  <2> QED
    BY <1>1, <2>3 DEF RequestHolds, AnswerIsCurrent
<1>5. NotYetTold(r)'
  <2>1. ASSUME r.kind \in {"update", "delete"}, r.id \notin torn'
        PROVE  saved'[r.id] = None
    BY <1>2, <1>3, <2>1 DEF RequestHolds, NotYetTold
  <2>2. ASSUME New(r), Done(r), NEW w \in r.answer.list, w.id \notin torn'
        PROVE  saved'[w.id] = None
    <3>1. About(p, w.id) /\ w.id \in Id /\ w.id \notin torn
      BY <1>1, <1>2, <2>2
    <3>2. saved[w.id] = None
      BY <1>1, <2>2, <3>1 DEF RequestHolds, NotYetTold
    <3> QED
      BY <2>2, <3>1, <3>2
  <2> QED
    BY <2>1, <2>2 DEF NotYetTold
<1>6. CopyHolds(r)'
  <2> SUFFICES ASSUME r.kind = "duplicate", Done(r), Sure(r.id)',
                      NEW w \in r.answer.list
               PROVE  Holds(w.content, saved'[r.id])
    BY DEF CopyHolds
  <2>1. saved'[p.id] = saved[p.id] /\ Sure(p.id)
    BY <1>2, <1>3 DEF Sure
  <2>2. Holds(w.content, saved[p.id])
    BY <1>1, <2>1 DEF RequestHolds, CopyHolds
  <2> QED
    BY <2>1, <2>2
<1>7. MarkHolds(r)'
  <2> SUFFICES ASSUME r.kind = "favorite", Sure(r.id)'
               PROVE  Holds(r.body.content, saved'[r.id])
    BY DEF MarkHolds
  <2>1. saved'[p.id] = saved[p.id] /\ Sure(p.id)
    BY <1>2, <1>3 DEF Sure
  <2>2. Holds(p.body.content, saved[p.id])
    BY <2>1 DEF RequestHolds, MarkHolds
  <2> QED
    BY <2>1, <2>2
<1> QED
  BY <1>4, <1>5, <1>6, <1>7 DEF RequestHolds

LEMMA SendSaved == TypedInv /\ SavedInv /\ SendStep => SavedInv'
<1> SUFFICES ASSUME TypedInv, SavedInv,
                    NEW kind \in Kind, NEW id \in Ids(workspaces) \union {None},
                    NEW body \in Body \union {None},
                    Send(kind, id, body), Asks(kind, id, body)
             PROVE  SavedInv'
  BY DEF SendStep
<1>0. /\ Typed /\ Requests
      /\ RequestsHold /\ OverlapIsTorn /\ ServerHolds /\ ListHolds
  BY DEF TypedInv, SavedInv
<1>q. PICK q : q = Fresh(kind, id, body)
  OBVIOUS
<1>1. /\ requests' = {NotAlone(r) : r \in requests} \union {q}
      /\ Shape(q) /\ ~Done(q) /\ q.answer = None
      /\ q.kind = kind /\ q.id = id /\ q.body = body
      /\ id \in used \union {None}
  BY <1>0, <1>q, SentIs
<1>2. /\ server' = server /\ workspaces' = workspaces /\ mixed' = (mixed \/ requests # {})
      /\ torn' = IF (kind = "favorite" /\ mixed) \/ (id # None /\ \E r \in requests : About(r, id))
                 THEN torn \union {id} ELSE torn
      /\ saved' = IF kind \in {"update", "delete"} THEN [saved EXCEPT ![id] = None] ELSE saved
  BY DEF Send
<1>3. torn \subseteq torn'
  BY <1>2
<1>4. /\ saved \in [Id -> Gists \union {None}] /\ used \subseteq Id
      /\ server \subseteq BuiltWorkspace /\ workspaces \subseteq BuiltWorkspace
  BY <1>0 DEF Typed
<1>5. \A i \in Id : saved'[i] \in {saved[i], None}
  BY <1>2, <1>4
<1>6. \A i \in Id : Sure(i)' => Sure(i) /\ saved'[i] = saved[i]
  BY <1>3, <1>5 DEF Sure
<1>7. \A r \in requests : /\ r \in Request /\ Shape(r) /\ RequestHolds(r)
                          /\ \A i : About(NotAlone(r), i) <=> About(r, i)
  BY <1>0, NotAloneKeeps DEF Requests, Shape, RequestsHold
<1>8. ASSUME NEW r \in requests PROVE RequestHolds(NotAlone(r))'
  <2> DEFINE n == NotAlone(r)
  <2>1. n.kind = r.kind /\ n.id = r.id /\ n.body = r.body /\ n.answer = r.answer
    BY <1>7, NotAloneIs
  <2> HIDE DEF n
  <2>2. RequestHolds(n)'
    BY <1>0, <1>2, <1>3, <1>5, <1>7, <2>1, KeepsRequest
  <2> QED
    BY <2>2 DEF n
<1>9. RequestHolds(q)'
  <2>1. AnswerIsCurrent(q)' /\ CopyHolds(q)'
    BY <1>1 DEF AnswerIsCurrent, CopyHolds
  <2>2. NotYetTold(q)'
    <3> SUFFICES ASSUME kind \in {"update", "delete"} PROVE saved'[id] = None
      BY <1>1 DEF NotYetTold
    <3>1. id \in Id
      BY <1>1, <1>4 DEF Asks
    <3> QED
      BY <1>2, <1>4, <3>1
  <2>3. MarkHolds(q)'
    <3> SUFFICES ASSUME kind = "favorite", Sure(id)' PROVE Holds(body.content, saved'[id])
      BY <1>1 DEF MarkHolds
    <3>1. id # None /\ id \in Ids(workspaces) /\ body.content = Entry(workspaces, id).content
      BY DEF Asks
    <3>2. /\ Entry(workspaces, id) \in workspaces /\ Entry(workspaces, id).id = id
          /\ id \in Id
      BY <1>0, <3>1, EntryIsBuilt
    <3>3. ~mixed
      BY <1>2 DEF Sure
    <3>4. Sure(id) /\ saved'[id] = saved[id]
      BY <1>6, <3>2
    <3>5. Holds(Entry(workspaces, id).content, saved[Entry(workspaces, id).id])
      BY <1>0, <3>2, <3>3, <3>4 DEF ListHolds
    <3> QED
      BY <3>1, <3>2, <3>4, <3>5
  <2> QED
    BY <2>1, <2>2, <2>3 DEF RequestHolds
<1>10. RequestsHold'
  BY <1>1, <1>8, <1>9 DEF RequestsHold
<1>11. OverlapIsTorn'
  <2>1. \A r \in requests : \A i \in Id : (About(q, i) /\ About(r, i)) => i \in torn'
    <3> SUFFICES ASSUME NEW r \in requests, NEW i \in Id, About(q, i), About(r, i)
                 PROVE  i \in torn'
      OBVIOUS
    <3>1. i = id
      BY <1>1 DEF About
    <3> QED
      BY <1>2, <3>1, IdAssumption
  <2>2. \A r, p \in requests : \A i \in Id :
           (r # p /\ About(r, i) /\ About(p, i)) => i \in torn'
    BY <1>0, <1>3 DEF OverlapIsTorn
  <2> SUFFICES ASSUME NEW r \in requests', NEW p \in requests', NEW i \in Id,
                      r # p, About(r, i), About(p, i)
               PROVE  i \in torn'
    BY DEF OverlapIsTorn
  <2>3. CASE r = q
    <3>1. PICK o \in requests : p = NotAlone(o)
      BY <1>1, <2>3
    <3> QED
      BY <1>7, <2>1, <2>3, <3>1
  <2>4. CASE p = q
    <3>1. PICK o \in requests : r = NotAlone(o)
      BY <1>1, <2>4
    <3> QED
      BY <1>7, <2>1, <2>4, <3>1
  <2>5. CASE r # q /\ p # q
    <3>1. PICK o \in requests : r = NotAlone(o)
      BY <1>1, <2>5
    <3>2. PICK u \in requests : p = NotAlone(u)
      BY <1>1, <2>5
    <3> QED
      BY <1>7, <2>2, <3>1, <3>2
  <2> QED
    BY <2>3, <2>4, <2>5
<1>12. ServerHolds'
  BY <1>0, <1>2, <1>4, <1>6 DEF ServerHolds, BuiltWorkspace
<1>13. ListHolds'
  BY <1>0, <1>2, <1>4, <1>6 DEF ListHolds, BuiltWorkspace
<1> QED
  BY <1>10, <1>11, <1>12, <1>13 DEF SavedInv

LEMMA SameSaved ==
    ASSUME SavedInv, UNCHANGED <<server, workspaces, saved, torn, mixed, requests>>
    PROVE  SavedInv'
<1>1. RequestsHold'
  BY DEF SavedInv, RequestsHold, RequestHolds, AnswerIsCurrent, NotYetTold, CopyHolds, MarkHolds,
         Sure
<1>2. OverlapIsTorn' /\ ServerHolds' /\ ListHolds'
  BY DEF SavedInv, OverlapIsTorn, ServerHolds, ListHolds, Sure
<1> QED
  BY <1>1, <1>2 DEF SavedInv

LEMMA ReloadSaved == TypedInv /\ SavedInv /\ Reload => SavedInv'
<1> SUFFICES ASSUME TypedInv, SavedInv, Reload PROVE SavedInv'
  OBVIOUS
<1>1. requests' = {} /\ mixed' = TRUE /\ torn \subseteq torn' /\ UNCHANGED <<server, saved>>
  BY DEF Reload
<1>2. RequestsHold' /\ OverlapIsTorn' /\ ListHolds'
  BY <1>1 DEF RequestsHold, OverlapIsTorn, ListHolds
<1>3. ServerHolds'
  BY <1>1 DEF SavedInv, ServerHolds, Sure
<1> QED
  BY <1>2, <1>3 DEF SavedInv

LEMMA FailsSaved ==
    ASSUME TypedInv, SavedInv, NEW r \in requests,
           requests' = requests \ {r}, mixed' = TRUE, UNCHANGED <<server, saved, torn>>
    PROVE  SavedInv'
<1>1. RequestsHold'
  BY DEF SavedInv, RequestsHold, RequestHolds, AnswerIsCurrent, NotYetTold, CopyHolds, MarkHolds,
         Sure
<1>2. OverlapIsTorn' /\ ServerHolds' /\ ListHolds'
  BY DEF SavedInv, OverlapIsTorn, ServerHolds, ListHolds, Sure
<1> QED
  BY <1>1, <1>2 DEF SavedInv

LEMMA OtherSaved ==
    ASSUME TypedInv, SavedInv, NEW w \in Other, OtherClient(w)
    PROVE  SavedInv'
<1>0. /\ Typed /\ Requests
      /\ RequestsHold /\ OverlapIsTorn /\ ServerHolds
  BY DEF TypedInv, SavedInv
<1>1. /\ saved' = saved /\ torn' = torn \union {w.id} /\ mixed' = TRUE
      /\ requests' = {NotAlone(r) : r \in requests}
  BY DEF OtherClient, Disturbed, NotAlone
<1>2. \A x \in server' : x.id # w.id => x \in server
  BY DEF OtherClient, Upsert
<1>3. \A r \in requests : /\ r \in Request /\ Shape(r) /\ RequestHolds(r)
                          /\ \A i : About(NotAlone(r), i) <=> About(r, i)
  BY <1>0, NotAloneKeeps DEF Requests, Shape, RequestsHold
<1>4. ASSUME NEW r \in requests PROVE RequestHolds(NotAlone(r))'
  <2>q. PICK n : n = NotAlone(r)
    OBVIOUS
  <2>1. n.kind = r.kind /\ n.id = r.id /\ n.body = r.body /\ n.answer = r.answer
    BY <1>3, <2>q, NotAloneIs
  <2>2. \A id \in Id \ torn' : /\ saved'[id] \in {saved[id], None}
                               /\ \A x \in server' : x.id = id => x \in server
    BY <1>1, <1>2
  <2>3. RequestHolds(n)'
    BY <1>0, <1>1, <1>3, <2>1, <2>2, KeepsRequest
  <2> QED
    BY <2>3, <2>q
<1>5. RequestsHold'
  BY <1>1, <1>4 DEF RequestsHold
<1>6. OverlapIsTorn'
  BY <1>0, <1>1, <1>3 DEF OverlapIsTorn
<1>7. ServerHolds'
  BY <1>0, <1>1, <1>2 DEF ServerHolds, Sure
<1>8. ListHolds'
  BY <1>1 DEF ListHolds
<1> QED
  BY <1>5, <1>6, <1>7, <1>8 DEF SavedInv

LEMMA ExecuteSaved ==
    ASSUME TypedInv, SavedInv, NEW r \in requests, Execute(r)
    PROVE  SavedInv'
<1>0. /\ Typed /\ Requests /\ Unused /\ Shape(r)
      /\ RequestsHold /\ OverlapIsTorn /\ ServerHolds /\ ListHolds
  BY DEF TypedInv, SavedInv, Requests
<1>1. PICK a : Executed(r, a)
  BY <1>0, ExecuteIs
<1>q. PICK q : q = WithAnswer(r, a)
  OBVIOUS
<1>2. /\ requests' = (requests \ {r}) \union {q}
      /\ UNCHANGED <<workspaces, saved, torn, mixed>>
      /\ a \in AnswerOfBuilt /\ r.answer = None
  BY <1>1, <1>q DEF Executed, clientVars, historyVars
<1>3. /\ q.kind = r.kind /\ q.id = r.id /\ q.body = r.body /\ q.answer = a /\ q.answer # None
      /\ Done(q) <=> a.ok
      /\ New(q) <=> New(r)
      /\ Write(q) <=> Write(r)
  BY <1>0, <1>2, <1>q, AnsweredIs DEF Shape, Done, New, Write
<1>4. /\ server \subseteq BuiltWorkspace /\ OneOfAnId(server) /\ Ids(server) \subseteq used
      /\ used \subseteq Id /\ torn \subseteq Id
  BY <1>0 DEF Typed
<1>5. /\ About(r, r.id)
      /\ NotYetTold(r) /\ MarkHolds(r)
  BY <1>0 DEF About, RequestsHold, RequestHolds
(* What is new at the server is what r is about, or has an id that nothing *)
(* is about.                                                               *)
<1>6. \A x \in server' : /\ x \in BuiltWorkspace
                         /\ x \in server \/ (x.id = r.id /\ r.id # None) \/ x.id \notin used
  <2> SUFFICES ASSUME NEW x \in server'
               PROVE  x \in server \/ (x.id = r.id /\ r.id # None) \/ x.id \notin used
    BY <1>0, <1>1, ExecutedKeeps
  <2>1. ASSUME NEW w, Adding(r, a, w)
        PROVE  x \in server \/ x.id \notin used
    BY <2>1 DEF Adding
  <2>2. ASSUME NEW w, Changing(r, a, w)
        PROVE  x \in server \/ (x.id = r.id /\ r.id # None)
    <3>1. r.id # None
      BY <1>0, <2>2 DEF Changing, Shape, Write
    <3> QED
      BY <2>2, <3>1 DEF Changing, Upsert
  <2>3. (Listing(r, a) \/ Deleting(r, a) \/ Refusing(r, a)) => x \in server
    BY DEF Listing, Deleting, Refusing
  <2> QED
    BY <1>1, <2>1, <2>2, <2>3 DEF Executed
<1>7. ASSUME NEW p \in requests, p # r PROVE RequestHolds(p)'
  <2>1. Shape(p) /\ RequestHolds(p)
    BY <1>0 DEF Requests, RequestsHold
  <2>2. ASSUME NEW id \in Id \ torn', About(p, id), NEW x \in server', x.id = id
        PROVE  x \in server
    <3>1. id \in used
      BY <1>0, <2>2, AboutUsed
    <3>2. id # r.id
      BY <1>0, <1>2, <1>5, <1>7, <2>2 DEF OverlapIsTorn
    <3> QED
      BY <1>6, <2>2, <3>1, <3>2
  <2> QED
    BY <1>0, <1>2, <2>1, <2>2, KeepsRequest
<1>8. AnswerIsCurrent(q)'
  <2> SUFFICES ASSUME a.ok, r.kind \in {"create", "update", "duplicate"},
                      NEW w \in a.list, NEW x \in server', x.id = w.id
               PROVE  x.content = w.content
    BY <1>3 DEF AnswerIsCurrent
  <2>1. CASE \E v : Adding(r, a, v)
    <3>1. PICK v : Adding(r, a, v)
      BY <2>1
    <3>2. w = v /\ x \in server \union {v} /\ v.id \notin used
      BY <3>1 DEF Adding
    <3> QED
      BY <1>4, <3>2 DEF Ids
  <2>2. CASE \E v : Changing(r, a, v)
    BY <2>2 DEF Changing, Upsert
  <2>3. ~Listing(r, a) /\ ~Deleting(r, a) /\ ~Refusing(r, a)
    BY DEF Listing, Deleting, Refusing
  <2> QED
    BY <1>1, <2>1, <2>2, <2>3 DEF Executed
<1>9. NotYetTold(q)'
  <2>1. ASSUME New(r), a.ok, NEW w \in a.list PROVE saved[w.id] = None
    <3>1. PICK v : Adding(r, a, v)
      BY <1>0, <1>1, <2>1 DEF Executed, Listing, Changing, Deleting, Refusing, New, Write
    <3>2. w = v /\ w.id \in Id \ used
      BY <2>1, <3>1 DEF Adding, BuiltWorkspace
    <3> QED
      BY <1>0, <3>2 DEF Unused
  <2> QED
    BY <1>2, <1>3, <1>5, <2>1 DEF NotYetTold
<1>10. CopyHolds(q)'
  <2> SUFFICES ASSUME r.kind = "duplicate", a.ok, Sure(r.id), NEW w \in a.list
               PROVE  Holds(w.content, saved[r.id])
    BY <1>2, <1>3 DEF CopyHolds, Sure
  <2>1. PICK v : Adding(r, a, v)
    BY <1>0, <1>1 DEF Executed, Listing, Changing, Deleting, Refusing, Write
  <2>2. PICK x \in server : x.id = r.id /\ w.content = x.content
    BY <2>1 DEF Adding
  <2> QED
    BY <1>0, <2>2 DEF ServerHolds
<1>11. MarkHolds(q)'
  BY <1>2, <1>3, <1>5 DEF MarkHolds, Sure
<1>12. RequestsHold'
  BY <1>2, <1>7, <1>8, <1>9, <1>10, <1>11 DEF RequestsHold, RequestHolds
<1>13. OverlapIsTorn'
  <2>1. ASSUME NEW p \in requests, p # r, NEW id \in Id, About(q, id), About(p, id)
        PROVE  id \in torn
    <3>1. id \in used
      BY <1>0, <2>1, AboutUsed
    <3>2. id = r.id \/ id \notin used
      <4> SUFFICES ASSUME id # r.id PROVE id \notin used
        OBVIOUS
      <4>1. New(r) /\ id \in Ids(a.list)
        BY <1>3, <2>1 DEF About, New
      <4>2. a.list # {}
        BY <4>1 DEF Ids
      <4>3. PICK v : Adding(r, a, v)
        BY <1>0, <1>1, <4>1, <4>2
           DEF Executed, Listing, Changing, Deleting, Refusing, New, Write
      <4> QED
        BY <4>1, <4>3 DEF Adding, Ids
    <3> QED
      BY <1>0, <1>5, <2>1, <3>1, <3>2 DEF OverlapIsTorn
  <2> QED
    BY <1>0, <1>2, <2>1 DEF OverlapIsTorn
<1>14. ServerHolds'
  <2> SUFFICES ASSUME NEW x \in server', Sure(x.id) PROVE Holds(x.content, saved[x.id])
    BY <1>2 DEF ServerHolds, Sure
  <2>1. CASE x \in server
    BY <1>0, <2>1 DEF ServerHolds
  <2>2. CASE x \notin server
    <3>1. x.id \in used
      BY <1>0, <1>6 DEF Unused, Sure, BuiltWorkspace
    <3>2. x.id = r.id
      BY <1>6, <2>2, <3>1
    <3>3. PICK v : Changing(r, a, v)
      BY <1>1, <2>2, <3>1 DEF Executed, Listing, Adding, Deleting, Refusing
    <3>4. x.content = r.body.content /\ Write(r)
      BY <2>2, <3>3 DEF Changing, Upsert
    <3>5. r.kind = "favorite"
      BY <1>5, <2>2, <3>2, <3>4 DEF NotYetTold, Sure, Write
    <3> QED
      BY <1>5, <3>2, <3>4, <3>5 DEF MarkHolds
  <2> QED
    BY <2>1, <2>2
<1>15. ListHolds'
  BY <1>0, <1>2 DEF ListHolds, Sure
<1> QED
  BY <1>12, <1>13, <1>14, <1>15 DEF SavedInv

LEMMA ReceiveSaved ==
    ASSUME TypedInv, ListInv, SavedInv, NEW r \in requests, Receive(r)
    PROVE  SavedInv'
<1>0. /\ Typed /\ Requests /\ Shape(r)
      /\ RequestsHold /\ OverlapIsTorn /\ ServerHolds /\ ListHolds
      /\ AloneIsCurrent /\ UnmixedIsAlone
  BY DEF TypedInv, SavedInv, Requests, ListInv
<1>1. CASE ~Done(r)
  <2>1. requests' = requests \ {r} /\ mixed' = TRUE /\ UNCHANGED <<server, saved, torn>>
    BY <1>1 DEF Receive, Done
  <2> QED
    BY <2>1, FailsSaved
<1>2. CASE Done(r)
  <2>1. /\ requests' = requests \ {r}
        /\ mixed' = IF r.kind = "list" /\ r.alone THEN FALSE ELSE mixed
        /\ saved' = Told(r)
        /\ UNCHANGED <<server, torn>>
    BY <1>0, <1>2, ReceivedIs
  <2>2. /\ AnswerIsCurrent(r) /\ NotYetTold(r) /\ CopyHolds(r) /\ MarkHolds(r)
    BY <1>0 DEF RequestsHold, RequestHolds
  <2>3. /\ \A w \in r.answer.list : w.id \in Id
        /\ New(r) => \A w \in r.answer.list : About(r, w.id)
        /\ Write(r) => \A w \in r.answer.list : About(r, w.id)
    BY <1>0, <1>2, AboutIs
  <2>4. r.kind \in Kind /\ (r.kind = "duplicate" => r.id \in Id)
    BY <1>0 DEF Shape, Request
  (* What is saved to an id changes only by what is told of it.            *)
  <2>5. ASSUME NEW id \in Id, saved'[id] # saved[id]
        PROVE  /\ New(r) \/ Write(r)
               /\ \E w \in r.answer.list : w.id = id
    BY <1>0, <2>1, <2>4, <2>5, ToldIs DEF Kind, New, Write
  (* The workspace of an answer has what is told of it.                    *)
  <2>6. ASSUME New(r) \/ Write(r), NEW w \in r.answer.list, Sure(w.id)'
        PROVE  Holds(w.content, saved'[w.id])
    <3>1. w.id \in Id /\ w.id \notin torn /\ saved'[w.id] # None
      BY <2>1, <2>3, <2>6 DEF Sure
    <3>2. CASE r.kind \in {"create", "update"}
      <4>1. saved'[w.id] = r.gist
        BY <1>0, <2>1, <2>6, <3>1, <3>2, ToldIs
      <4>2. w.content = r.body.content /\ Holds(r.body.content, r.gist)
        BY <1>0, <1>2, <2>6, <3>2 DEF Shape, New, Write, Sends
      <4> QED
        BY <4>1, <4>2
    <3>3. CASE r.kind = "duplicate" /\ r.id \notin torn
      <4>1. saved'[w.id] = saved[r.id]
        BY <1>0, <2>1, <2>6, <3>1, <3>3, ToldIs
      <4>2. Sure(r.id)
        BY <3>1, <3>3, <4>1 DEF Sure
      <4> QED
        BY <1>2, <2>2, <2>6, <3>3, <4>1, <4>2 DEF CopyHolds
    <3>4. CASE r.kind = "duplicate" /\ r.id \in torn
      <4>1. saved'[w.id] = saved[w.id]
        BY <1>0, <2>1, <3>4, ToldIs
      <4>2. saved[w.id] = None
        BY <1>2, <2>2, <2>6, <3>1, <3>4 DEF NotYetTold, New
      <4> QED
        BY <3>1, <4>1, <4>2
    <3>5. CASE r.kind = "favorite"
      <4>1. saved'[w.id] = saved[w.id]
        BY <1>0, <2>1, <3>5, ToldIs
      <4>2. w.id = r.id /\ w.content = r.body.content
        BY <1>0, <1>2, <2>6, <3>5 DEF Shape, Write, Sends
      <4> QED
        BY <2>2, <3>1, <3>5, <4>1, <4>2 DEF MarkHolds, Sure
    <3> QED
      BY <2>6, <3>2, <3>3, <3>4, <3>5 DEF New, Write
  <2>7. RequestsHold'
    <3> SUFFICES ASSUME NEW p \in requests, p # r PROVE RequestHolds(p)'
      BY <2>1 DEF RequestsHold
    <3>1. Shape(p) /\ RequestHolds(p)
      BY <1>0 DEF Requests, RequestsHold
    <3>2. ASSUME NEW id \in Id \ torn', About(p, id) PROVE saved'[id] = saved[id]
      <4> SUFFICES ASSUME saved'[id] # saved[id] PROVE FALSE
        OBVIOUS
      <4>1. About(r, id)
        BY <2>3, <2>5
      <4> QED
        BY <1>0, <2>1, <3>2, <4>1 DEF OverlapIsTorn
    <3> QED
      BY <1>0, <2>1, <3>1, <3>2, KeepsRequest
  <2>8. OverlapIsTorn'
    BY <1>0, <2>1 DEF OverlapIsTorn
  <2>9. ServerHolds'
    <3> SUFFICES ASSUME NEW x \in server, Sure(x.id)' PROVE Holds(x.content, saved'[x.id])
      BY <2>1 DEF ServerHolds
    <3>1. x.id \in Id /\ x.id \notin torn /\ saved'[x.id] # None
      BY <1>0, <2>1 DEF Typed, BuiltWorkspace, Sure
    <3>2. CASE saved'[x.id] = saved[x.id]
      BY <1>0, <3>1, <3>2 DEF ServerHolds, Sure
    <3>3. CASE saved'[x.id] # saved[x.id]
      <4>1. New(r) \/ Write(r)
        BY <2>5, <3>1, <3>3
      <4>2. PICK w \in r.answer.list : w.id = x.id
        BY <2>5, <3>1, <3>3
      <4>3. r.kind # "favorite"
        BY <1>0, <2>1, <3>3, ToldIs
      <4>4. x.content = w.content
        BY <1>2, <2>2, <3>1, <4>1, <4>2, <4>3 DEF AnswerIsCurrent, New, Write
      <4>5. Holds(w.content, saved'[w.id])
        BY <2>6, <4>1, <4>2
      <4> QED
        BY <4>2, <4>4, <4>5
    <3> QED
      BY <3>2, <3>3
  <2>10. ListHolds'
    <3> SUFFICES ASSUME ~mixed', NEW x \in workspaces', Sure(x.id)'
                 PROVE  Holds(x.content, saved'[x.id])
      BY DEF ListHolds
    <3>1. CASE r.kind = "list"
      <4>1. r.alone
        BY <1>0, <2>1, <3>1 DEF UnmixedIsAlone
      <4>2. x \in server'
        BY <1>0, <1>2, <2>1, <3>1, <4>1, ReceivedIs DEF AloneIsCurrent
      <4> QED
        BY <2>9, <4>2 DEF ServerHolds
    <3>2. CASE r.kind # "list"
      <4>1. /\ ~mixed /\ workspaces \subseteq BuiltWorkspace
        BY <1>0, <2>1, <3>2 DEF Typed
      <4>2. ASSUME x \in workspaces, \A w \in r.answer.list : w.id # x.id
            PROVE  Holds(x.content, saved'[x.id])
        <5>1. x.id \in Id
          BY <4>1, <4>2 DEF BuiltWorkspace
        <5>2. saved'[x.id] = saved[x.id]
          BY <2>5, <4>2, <5>1
        <5> QED
          BY <1>0, <2>1, <4>1, <4>2, <5>2 DEF ListHolds, Sure
      <4>3. CASE New(r) \/ Write(r)
        <5>1. PICK w \in BuiltWorkspace :
                 r.answer.list = {w} /\ workspaces' = Upsert(workspaces, w)
          BY <1>0, <1>2, <4>3, ReceivedIs
        <5>2. CASE x = w
          BY <2>6, <4>3, <5>1, <5>2
        <5>3. CASE x # w
          BY <4>2, <5>1, <5>3 DEF Upsert
        <5> QED
          BY <5>2, <5>3
      <4>4. CASE r.kind = "delete"
        <5>1. x \in workspaces
          BY <1>0, <1>2, <4>4, ReceivedIs
        <5>2. r.answer.list = {}
          BY <1>0, <1>2, <4>4 DEF Shape
        <5> QED
          BY <4>2, <5>1, <5>2
      <4> QED
        BY <2>4, <3>2, <4>3, <4>4 DEF Kind, New, Write
    <3> QED
      BY <3>1, <3>2
  <2> QED
    BY <2>7, <2>8, <2>9, <2>10 DEF SavedInv
<1> QED
  BY <1>1, <1>2

LEMMA NextSaved == TypedInv /\ ListInv /\ SavedInv /\ [Next]_vars => SavedInv'
<1> SUFFICES ASSUME TypedInv, ListInv, SavedInv, [Next]_vars PROVE SavedInv'
  OBVIOUS
<1>0. Typed
  BY DEF TypedInv
<1>1. CASE SendStep
  BY <1>1, SendSaved
<1>2. CASE ViewStep
  BY <1>2, SameSaved DEF ViewStep, historyVars
<1>3. CASE Reload
  BY <1>3, ReloadSaved
<1>4. ASSUME NEW r \in requests, Execute(r) PROVE SavedInv'
  BY <1>4, ExecuteSaved
<1>5. ASSUME NEW w \in Other, OtherClient(w) PROVE SavedInv'
  BY <1>5, OtherSaved
<1>6. ASSUME NEW r \in requests, Receive(r) PROVE SavedInv'
  BY <1>6, ReceiveSaved
<1>7. ASSUME NEW r \in requests, ConnectionFails(r) PROVE SavedInv'
  BY <1>7, FailsSaved DEF ConnectionFails
<1>8. CASE UNCHANGED vars
  BY <1>8, SameSaved DEF vars, clientVars, historyVars
<1> QED
  BY <1>0, <1>1, <1>2, <1>3, <1>4, <1>5, <1>6, <1>7, <1>8, Steps

LEMMA AlwaysSaved == Spec => [](TypedInv /\ SavedInv)
<1>1. TypedInv /\ ListInv /\ [Next]_vars => ListInv'
  BY NextList
<1>2. TypedInv /\ ListInv /\ SavedInv /\ [Next]_vars => SavedInv'
  BY NextSaved
<1> QED
  BY <1>1, <1>2, InitList, InitSaved, AlwaysTyped, PTL DEF Spec

-----------------------------------------------------------------------------
(* Opening a workspace.                                                    *)

(* A workspace opens the time and the columns of the view it was built     *)
(* from; the view it replaces keeps its count if that one was 0.           *)
Opens(o, u, v) ==
    /\ o.relative = u.relative
    /\ u.relative => o.value = u.value
    /\ (u.relative /\ u.value = Custom) => o.count = IF u.count # 0 THEN u.count ELSE v.count
    /\ ~u.relative => o.range = u.range
    /\ o.columns = IF u.columns # {} THEN u.columns ELSE v.columns

LEMMA OpenedIs ==
    ASSUME NEW u \in View, NEW v \in View
    PROVE  Opens(ApplyWorkspace(Kept(u), v), u, v)
<1>1. /\ u.relative \in BOOLEAN /\ u.value \in Preset \union {Custom} /\ u.count \in Count
  BY DEF View
<1>2. /\ u.value \notin {None, 0} /\ u.count # None
  BY <1>1, RelativeAssumption
<1>3. PICK c : c = Kept(u)
  OBVIOUS
<1>4. PICK t : t = c.time
  OBVIOUS
<1>5. /\ t.mode = IF u.relative THEN "relative" ELSE "absolute"
      /\ t.relative = IF u.relative THEN u.value ELSE None
      /\ t.count = IF u.relative /\ u.value = Custom /\ u.count # 0 THEN u.count ELSE None
      /\ t.start = IF u.relative THEN None ELSE u.range
      /\ c.columns = u.columns
  BY <1>3, <1>4, KeptIs
<1>6. PICK o : o = ApplyWorkspace(c, v)
  OBVIOUS
<1>7. /\ o.relative = (t.mode # "absolute")
      /\ o.value = Or(t.relative, v.value)
      /\ o.count = Or(t.count, v.count)
      /\ o.range = IF t.mode = "absolute" THEN t.start ELSE Now
      /\ o.columns = IF c.columns # {} THEN c.columns ELSE v.columns
  BY <1>4, <1>6 DEF ApplyWorkspace
<1>8. Opens(o, u, v)
  <2>1. CASE u.relative
    BY <1>1, <1>2, <1>5, <1>7, <2>1 DEF Or, Opens
  <2>2. CASE ~u.relative
    BY <1>1, <1>2, <1>5, <1>7, <2>2 DEF Or, Opens
  <2> QED
    BY <1>1, <2>1, <2>2
<1> QED
  BY <1>3, <1>6, <1>8

LEMMA GistIs ==
    ASSUME NEW x
    PROVE  /\ Gist(x).time = IF x.relative
                             THEN <<x.value, IF x.value = Custom THEN x.count ELSE None>>
                             ELSE <<x.range>>
           /\ Gist(x).columns = x.columns
BY DEF Gist, BuildWorkspace

LEMMA OpenedBringsBack ==
    ASSUME NEW c, NEW g, Holds(c, g), NEW v \in View
    PROVE  LET o == ApplyWorkspace(c, v)
           IN  /\ Restored(g.time, v, o)
               /\ g.columns # {} => o.columns = g.columns
<1>1. PICK u \in View : c = Kept(u) /\ g = Gist(u)
  BY DEF Holds
<1>2. PICK o : o = ApplyWorkspace(c, v)
  OBVIOUS
<1>3. Opens(o, u, v)
  BY <1>1, <1>2, OpenedIs
<1>4. u.relative \in BOOLEAN
  BY DEF View
<1>5. Restored(g.time, v, o)
  <2>1. CASE u.relative /\ u.value = Custom /\ u.count = 0
    <3>1. g.time = <<Custom, 0>>
      BY <1>1, <2>1, GistIs
    <3>2. Gist(o).time = <<Custom, v.count>>
      BY <1>3, <2>1, GistIs DEF Opens
    <3> QED
      BY <3>1, <3>2 DEF Restored
  <2>2. CASE u.relative /\ ~(u.value = Custom /\ u.count = 0)
    <3>1. Gist(o).time = <<u.value, IF u.value = Custom THEN u.count ELSE None>>
      BY <1>3, <2>2, GistIs DEF Opens
    <3>2. g.time = <<u.value, IF u.value = Custom THEN u.count ELSE None>>
      BY <1>1, <2>2, GistIs
    <3> QED
      BY <3>1, <3>2 DEF Restored
  <2>3. CASE ~u.relative
    <3>1. Gist(o).time = <<u.range>> /\ g.time = <<u.range>>
      BY <1>1, <1>3, <2>3, GistIs DEF Opens
    <3> QED
      BY <3>1 DEF Restored
  <2> QED
    BY <1>4, <2>1, <2>2, <2>3
<1>6. g.columns # {} => o.columns = g.columns
  BY <1>1, <1>3, GistIs DEF Opens
<1> QED
  BY <1>2, <1>5, <1>6

(* A workspace that is opened brings back the view that was saved to it,   *)
(* but not a count of 0, as long as no requests about it overlapped and    *)
(* nobody else changed it.                                                 *)
THEOREM SavedComesBack == Spec => SavedIsRestored
<1>1. ASSUME TypedInv, SavedInv
      PROVE  \A id \in Ids(workspaces) \ torn :
                (LoadWorkspace(id) /\ ~mixed /\ saved[id] # None)
                  => /\ Restored(saved[id].time, view, view')
                     /\ saved[id].columns # {} => view'.columns = saved[id].columns
  <2> SUFFICES ASSUME NEW id \in Ids(workspaces) \ torn,
                      LoadWorkspace(id), ~mixed, saved[id] # None
               PROVE  /\ Restored(saved[id].time, view, view')
                      /\ saved[id].columns # {} => view'.columns = saved[id].columns
    OBVIOUS
  <2>1. Typed /\ view \in View
    BY <1>1 DEF TypedInv, Typed
  <2>2. PICK x \in workspaces : x = Entry(workspaces, id) /\ x.id = id
    BY <2>1, EntryIsBuilt
  <2>3. Holds(x.content, saved[id])
    BY <1>1, <2>2 DEF SavedInv, ListHolds, Sure
  <2>4. view' = ApplyWorkspace(x.content, view)
    BY <2>2 DEF LoadWorkspace
  <2> QED
    BY <2>1, <2>3, <2>4, OpenedBringsBack
<1> QED
  BY <1>1, AlwaysSaved, PTL DEF SavedIsRestored

(* What is built of the view that a workspace opens is the workspace's     *)
(* content again, unless that has a range without its count.               *)
LEMMA OpenedBuildsTheSame ==
    ASSUME NEW c \in Built, NEW v \in View, c.columns # {}
    PROVE  BuildWorkspace(ApplyWorkspace(c, v)) # c <=> Countless(c)
<1>1. PICK u \in View : c = Kept(u)
  BY DEF Built
<1>2. PICK o : o = ApplyWorkspace(c, v)
  OBVIOUS
<1>3. Opens(o, u, v)
  BY <1>1, <1>2, OpenedIs
<1>4. /\ c.columns = u.columns
      /\ c.time.relative = IF u.relative THEN u.value ELSE None
      /\ c.time.count = IF u.relative /\ u.value = Custom /\ u.count # 0 THEN u.count ELSE None
  BY <1>1, KeptIs
<1>5. o.columns = u.columns
  BY <1>3, <1>4 DEF Opens
<1>6. /\ u.relative \in BOOLEAN /\ u.count # None /\ v.count # None /\ Custom # None
  BY RelativeAssumption DEF View
<1>7. CASE u.relative /\ u.value = Custom /\ u.count = 0
  <2>1. Countless(c)
    BY <1>4, <1>7 DEF Countless
  <2>2. BuildWorkspace(o).time.count = v.count
    BY <1>3, <1>7 DEF BuildWorkspace, Opens
  <2>3. BuildWorkspace(o) # c
    BY <1>4, <1>6, <1>7, <2>2
  <2> QED
    BY <1>2, <2>1, <2>3
<1>8. CASE ~(u.relative /\ u.value = Custom /\ u.count = 0)
  <2>1. ~Countless(c)
    BY <1>4, <1>6, <1>8 DEF Countless
  <2>2. BuildWorkspace(o) = c
    <3>1. CASE u.relative
      <4>1. c = [time |-> [mode |-> "relative", relative |-> u.value,
                           count |-> IF u.value = Custom THEN u.count ELSE None,
                           start |-> None],
                 columns |-> u.columns]
        BY <1>1, <1>8, <3>1, KeptIs
      <4>2. /\ o.relative /\ o.value = u.value
            /\ u.value = Custom => o.count = u.count
        BY <1>3, <1>8, <3>1 DEF Opens
      <4> QED
        BY <1>5, <4>1, <4>2 DEF BuildWorkspace
    <3>2. CASE ~u.relative
      <4>1. c = [time |-> [mode |-> "absolute", relative |-> None, count |-> None,
                           start |-> u.range],
                 columns |-> u.columns]
        BY <1>1, <3>2, KeptIs
      <4>2. ~o.relative /\ o.range = u.range
        BY <1>3, <3>2 DEF Opens
      <4> QED
        BY <1>5, <4>1, <4>2 DEF BuildWorkspace
    <3> QED
      BY <1>6, <3>1, <3>2
  <2> QED
    BY <1>2, <2>1, <2>2
<1> QED
  BY <1>7, <1>8

(* A workspace that was just opened has no unsaved changes, whatever view  *)
(* it takes the place of, if it has columns and no range without its       *)
(* count; with such a range the menu reads Unsaved.                        *)
THEOREM OpenedHasNoChanges == Spec => OpenedIsClean
<1>1. ASSUME TypedInv
      PROVE  \A id \in Ids(workspaces) :
                LET c == Entry(workspaces, id).content
                IN  (LoadWorkspace(id) /\ c.columns # {}) => (Dirty' <=> Countless(c))
  <2> SUFFICES ASSUME NEW id \in Ids(workspaces), LoadWorkspace(id),
                      Entry(workspaces, id).content.columns # {}
               PROVE  Dirty' <=> Countless(Entry(workspaces, id).content)
    OBVIOUS
  <2>1. Typed /\ view \in View
    BY <1>1 DEF TypedInv, Typed
  <2>2. PICK c \in Built : c = Entry(workspaces, id).content
    BY <2>1, EntryIsBuilt
  <2>3. view' = ApplyWorkspace(c, view) /\ active' = id /\ workspaces' = workspaces
    BY <2>2 DEF LoadWorkspace
  <2>4. BuildWorkspace(view') # c <=> Countless(c)
    BY <2>1, <2>2, <2>3, OpenedBuildsTheSame
  <2>5. Entry(workspaces', active').content = c /\ Listed'
    BY <2>2, <2>3 DEF Listed
  <2> QED
    BY <2>2, <2>4, <2>5 DEF Dirty
<1> QED
  BY <1>1, AlwaysTyped, PTL DEF OpenedIsClean

=============================================================================
