----------------------------- MODULE SearchView -----------------------------
(***************************************************************************)
(* The log view of the browser: the parameters of a search                 *)
(* (useSearchQueryParams.ts), their place in the address and in the        *)
(* history, the searches themselves (useSearchLogs.ts), which the viewer   *)
(* and its table do separately and whose one result both show              *)
(* (useLogResultStore.ts), paging, and the sources that are selected       *)
(* (SidebarPanel.tsx).                                                     *)
(*                                                                         *)
(* A handler and the effects that its changes cause are one action.  What  *)
(* the server answers is any number of rows and any sources: data may come *)
(* and go at any time.  A relative range is one value that is computed     *)
(* anew whenever it is set, so setting it always counts as a change; the   *)
(* columns, the tabs of the date picker and the export are left out.       *)
(***************************************************************************)
EXTENDS Naturals, SequencesExt

CONSTANTS
    Word,       \* queries a user types
    Empty,      \* the empty query, which the address leaves out
    Absolute,   \* absolute ranges
    Initial,    \* the range of the first visit, the last 24 hours
    Relative,   \* the relative range
    Source,     \* names of sources
    Sizes,      \* the sizes of a page
    DefaultSize,
    Saved,      \* what the workspaces that can be opened hold
    None,       \* null
    MaxRows,    \* bound: rows a search finds
    MaxUrls,    \* bound: entries of the history that are kept
    MaxWork     \* bound: what the user and live sources do

ASSUME RangeAssumption == Initial \in Absolute /\ Relative \notin Absolute
ASSUME QueryAssumption == Empty \notin Word /\ None \notin Word \union {Empty}
ASSUME SizeAssumption == Sizes \subseteq Nat \ {0} /\ DefaultSize \in Sizes
ASSUME ViewBoundsAssumption ==
    {MaxRows, MaxUrls, MaxWork} \subseteq Nat /\ MaxRows > 0 /\ MaxUrls > 1

Query == Word \union {Empty}
Span == Absolute \union {Relative}
Param == [query : Query, range : Span, sources : SUBSET Source, order : {"asc", "desc"},
          size : Sizes, page : 1 .. MaxRows]
ASSUME SavedAssumption ==
    Saved \subseteq [query : Query, range : Span, sources : SUBSET Source, order : {"asc", "desc"}]

ASSUME NullAssumption ==
    /\ None \notin Param \union [params : Param, alone : BOOLEAN]
                 \union [params : Param, here : BOOLEAN]
                 \union [params : Param, by : {"viewer", "table"}]
    /\ \A S \in SUBSET Source : S # None

Url == [page : {"home", "elsewhere"}, query : Query \union {None}, range : Span \union {None}]

VARIABLES
    home,        \* Home is mounted
    live,        \* liveAvailable
    params,      \* what a search takes from useSearchQueryParamsStore
    hasSearched, \* hasSearched
    firstLoad,   \* firstLoad
    asked,       \* prevSearchParamsRef; None when the next effect must search
    search,      \* the viewer's search in flight; `alone' while the table has none
    refresh,     \* the table's search in flight
    deleting,    \* a deletion of the table in flight
    clearing,    \* logs are being cleared
    shown,       \* logData: what it was asked for, and by whom
    total,       \* resultCount
    loading,     \* isLoading of useLogResultStore
    error,       \* error of useLogResultStore
    urls, at,    \* the history and the entry the address is from
    urlTimer,    \* the timer of clearSearchQuery is armed
    tick,        \* the timer of syncWithUrlParams is armed
    cold,        \* what the module still does after a load
    names,       \* source_names of systemInfo
    infos,       \* refreshes of systemInfo in flight
    draft,       \* history: a range is not applied yet, or an address's query was not taken
    narrowed,    \* history: the user has left out a source
    work         \* history: what was done, at most MaxWork

searchVars == <<params, asked, search, loading, error>>
resultVars == <<shown, total>>
urlVars == <<urls, at>>
tableVars == <<refresh, deleting, clearing>>
infoVars == <<names, infos>>
flagVars == <<hasSearched, firstLoad>>
timerVars == <<urlTimer, tick, cold>>
viewVars == <<home, live, searchVars, resultVars, urlVars, tableVars, infoVars, flagVars, timerVars,
          draft, narrowed, work>>

Work == work < MaxWork /\ work' = work + 1

-----------------------------------------------------------------------------
(* The parameters and the address.                                         *)

(* What updateUrlParams writes.                                            *)
Entry(p) == [page |-> "home", query |-> p.query, range |-> p.range]
Plain(page) == [page |-> page, query |-> None, range |-> None]

(* pushState on the entry i: the entries after it are gone.                *)
PushOn(i, new) ==
    LET all == SubSeq(urls, 1, i) \o new
        n == IF Len(all) < MaxUrls THEN Len(all) ELSE MaxUrls
    IN  IF new = <<>> THEN urls' = urls /\ at' = i
        ELSE urls' = SubSeq(all, Len(all) - n + 1, Len(all)) /\ at' = n

(* A search in flight, which is not alone once the table's is too.         *)
Shared == IF search = None THEN None ELSE [search EXCEPT !.alone = @ /\ refresh' = None]

(* Faulty variant of Render: a search in flight is enough.                 *)
RenderIfIdle(before, p, forced, load, err) ==
    LET due == home' /\ hasSearched' /\ ~live' /\ (forced \/ before # p) /\ search = None
    IN  /\ params' = p
        /\ asked' = IF due THEN p ELSE IF forced /\ home' THEN None ELSE before
        /\ search' = IF due THEN [params |-> p, alone |-> refresh' = None] ELSE Shared
        /\ loading' = (due \/ load)
        /\ error' = (~due /\ err)

(* The effect of LogViewer after a change: new parameters, or a new nonce, *)
(* are searched for, which aborts the search before.                       *)
Render(before, p, forced, load, err) ==
    LET due == home' /\ hasSearched' /\ ~live' /\ (forced \/ before # p)
    IN  /\ params' = p
        /\ asked' = IF due THEN p ELSE IF forced /\ home' THEN None ELSE before
        /\ search' = IF due THEN [params |-> p, alone |-> refresh' = None] ELSE Shared
        /\ loading' = (due \/ load)
        /\ error' = (~due /\ err)

Rerender(p, forced) == Render(asked, p, forced, loading, error)

(* triggerSearch, with the parameters p.                                   *)
Trigger(p, new) ==
    /\ hasSearched' = TRUE
    /\ PushOn(at, new)
    /\ draft' = FALSE
    /\ Rerender(p, TRUE)

(* Faulty variant of Synced: the relative range is set already.            *)
SyncedUntimed(p, url) ==
    IF url.query = None THEN p
    ELSE [p EXCEPT !.query = IF url.query # Empty THEN url.query ELSE @,
                   !.range = IF url.range = Relative THEN @ ELSE url.range]

(* What syncWithUrlParams takes from the address: not an empty query.      *)
Synced(p, url) ==
    IF url.query = None THEN p
    ELSE [p EXCEPT !.query = IF url.query # Empty THEN url.query ELSE @, !.range = url.range]

(* resetStore.                                                             *)
Cleared == [query |-> Empty, range |-> Relative, sources |-> {}, order |-> "desc",
            size |-> DefaultSize, page |-> 1]

-----------------------------------------------------------------------------
(* Sources.  The effect of SidebarPanel when systemInfo comes.             *)

(* Faulty variant of NextSources: nothing known is nothing selected.       *)
NextSourcesOfSome(old, new, selected) ==
    IF old = None
    THEN IF selected # {} THEN selected \intersect new ELSE new
    ELSE IF old # {} /\ old \subseteq selected THEN new
    ELSE selected \intersect new

(* The sources selected when the server's change from old, None at first.  *)
NextSources(old, new, selected) ==
    IF old = None
    THEN IF selected # {} THEN selected \intersect new ELSE new
    ELSE IF (old # {} /\ old \subseteq selected) \/ (old = {} /\ selected = {}) THEN new
    ELSE selected \intersect new

(* The parameters when the server's sources are new.                       *)
WithSources(old, new, p) == [p EXCEPT !.sources = NextSources(old, new, @)]

(* The address i is left for Home, with the parameters p.                  *)
Mount(i, new, p, searched) ==
    LET known == IF names = None THEN p ELSE WithSources(None, names, p)
    IN  /\ home' = TRUE
        /\ hasSearched' = (searched \/ firstLoad)
        /\ firstLoad' = FALSE
        /\ PushOn(i, IF firstLoad THEN Append(new, Entry(known)) ELSE new)
        /\ infos' = IF names = None THEN infos + 1 ELSE infos
        /\ narrowed' = (names # None /\ known.sources # names)
        /\ Render(None, known, TRUE, loading, error)

(* Faulty variant of Unmount: an aborted search goes on loading.           *)
UnmountLoading ==
    LET mine == refresh # None /\ refresh.here
    IN  /\ home' = FALSE
        /\ search' = None
        /\ refresh' = IF mine THEN None ELSE refresh
        /\ deleting' = IF deleting = None THEN None ELSE [deleting EXCEPT !.here = FALSE]
        /\ UNCHANGED loading

(* Home is unmounted: its searches are aborted, a deletion goes on.        *)
Unmount ==
    LET mine == refresh # None /\ refresh.here
    IN  /\ home' = FALSE
        /\ search' = None
        /\ refresh' = IF mine THEN None ELSE refresh
        /\ deleting' = IF deleting = None THEN None ELSE [deleting EXCEPT !.here = FALSE]
        /\ loading' = (loading /\ search = None /\ ~mine)

(* The first visit: the first search is on its way.                        *)
ViewInit ==
    LET first == [query |-> Empty, range |-> Initial, sources |-> {}, order |-> "desc",
                  size |-> DefaultSize, page |-> 1]
    IN  /\ home = TRUE /\ live = FALSE
        /\ params = first /\ asked = first
        /\ hasSearched = TRUE /\ firstLoad = FALSE
        /\ search = [params |-> first, alone |-> TRUE]
        /\ refresh = None /\ deleting = None /\ clearing = FALSE
        /\ shown = None /\ total = 0
        /\ loading = TRUE /\ error = FALSE
        /\ urls = <<Plain("home"), Entry(first)>> /\ at = 2
        /\ urlTimer = FALSE /\ tick = FALSE /\ cold = "push"
        /\ names = None /\ infos = 1
        /\ draft = FALSE /\ narrowed = FALSE
        /\ work = 0

-----------------------------------------------------------------------------
(* What the user does on Home.                                             *)

(* A new set of parameters that the effect alone notices.                  *)
Choose(p) ==
    /\ home /\ Work
    /\ UNCHANGED <<home, live, resultVars, urlVars, tableVars, infoVars, flagVars, timerVars>>
    /\ Rerender(p, FALSE)

(* LogSearch: setSearchQuery writes the address, triggerSearch once more.  *)
SearchFor(q) ==
    LET p == [params EXCEPT !.query = q, !.page = 1]
    IN  /\ home /\ Work
        /\ UNCHANGED <<home, live, resultVars, tableVars, infoVars, firstLoad, timerVars, narrowed>>
        /\ Trigger(p, IF q # params.query THEN <<Entry(p), Entry(p)>> ELSE <<Entry(p)>>)

(* The cross beside the query: the address follows 100 ms later.           *)
ClearSearch ==
    /\ home /\ Work
    /\ urlTimer' = TRUE
    /\ UNCHANGED <<home, live, resultVars, urlVars, tableVars, infoVars, flagVars, tick, cold,
                   draft, narrowed>>
    /\ Rerender([params EXCEPT !.query = Empty, !.page = 1], FALSE)

UrlTimer ==
    /\ urlTimer
    /\ urlTimer' = FALSE
    /\ PushOn(at, <<Entry(params)>>)
    /\ draft' = FALSE
    /\ UNCHANGED <<home, live, searchVars, resultVars, tableVars, infoVars, flagVars, tick, cold,
                   narrowed, work>>

(* A source is ticked or not, or all are; the page stays.                  *)
ChooseSources(S) ==
    /\ names # None
    /\ \/ \E s \in names : S \in {params.sources \union {s}, params.sources \ {s}}
       \/ S = IF names # {} /\ names \subseteq params.sources THEN {} ELSE names
    /\ UNCHANGED draft
    /\ Choose([params EXCEPT !.sources = S])
    /\ narrowed' = (S # names)

Pages(n, size) == (n + size - 1) \div size

(* The buttons of PaginationControls: first, previous, next and last.      *)
ChoosePage(n) ==
    /\ ~live
    /\ \/ params.page > 1 /\ n \in {1, params.page - 1}
       \/ /\ params.page < Pages(total, params.size)
          /\ n \in {params.page + 1, Pages(total, params.size)}
    /\ UNCHANGED <<draft, narrowed>>
    /\ Choose([params EXCEPT !.page = n])

(* The page a row is on.                                                   *)
PageOf(row, size) == row \div size + 1

(* handlePageSizeChange.                                                   *)
ChooseSize(size) ==
    /\ ~live
    /\ UNCHANGED <<draft, narrowed>>
    /\ Choose([params EXCEPT !.size = size, !.page = PageOf((@ - 1) * params.size, size)])

(* A click on the column that is sorted by.                                *)
Sort ==
    /\ ~live
    /\ UNCHANGED <<draft, narrowed>>
    /\ Choose([params EXCEPT !.order = IF @ = "asc" THEN "desc" ELSE "asc", !.page = 1])

(* An absolute range is searched for and not written to the address.       *)
ChooseAbsolute(range) ==
    /\ UNCHANGED narrowed
    /\ Choose([params EXCEPT !.range = range])
    /\ draft' = TRUE

(* A relative range is.                                                    *)
ChooseRelative ==
    LET p == [params EXCEPT !.range = Relative]
    IN  /\ home /\ Work
        /\ PushOn(at, <<Entry(p)>>)
        /\ draft' = FALSE
        /\ UNCHANGED <<home, live, resultVars, tableVars, infoVars, flagVars, timerVars, narrowed>>
        /\ Rerender(p, TRUE)

(* The buttons that search: of the date picker, of the chart, of a range   *)
(* dragged over the chart's bars, which leaves the page, of the days for   *)
(* which there are logs.                                                   *)
SearchIn(range, page) ==
    LET p == [params EXCEPT !.range = range, !.page = page]
    IN  /\ home /\ Work
        /\ UNCHANGED <<home, live, resultVars, tableVars, infoVars, firstLoad, timerVars, narrowed>>
        /\ Trigger(p, <<Entry(p)>>)

Apply == SearchIn(params.range, params.page)
Zoom(range) == shown # None /\ SearchIn(range, params.page)
FitRangeToData(range) == SearchIn(range, 1)

(* A workspace is opened.  Sources of it that the server no longer has are *)
(* taken away at once by the effect of SidebarPanel.                       *)
OpenWorkspace(view) ==
    LET p == [params EXCEPT !.query = view.query, !.range = view.range, !.sources = view.sources,
                            !.order = view.order, !.page = 1]
        known == IF names = None THEN p ELSE WithSources(names, names, p)
    IN  /\ home /\ Work
        /\ UNCHANGED <<home, live, resultVars, tableVars, infoVars, firstLoad, timerVars>>
        /\ Trigger(known, <<Entry(p)>>)
        /\ narrowed' = (names # None /\ known.sources # names)

(* Live rows take the place of a search's, and leave it.                   *)
LiveChanges ==
    /\ Work
    /\ live' = ~live
    /\ UNCHANGED <<home, resultVars, urlVars, tableVars, infoVars, flagVars, timerVars, draft,
                   narrowed>>
    /\ Rerender(params, FALSE)

-----------------------------------------------------------------------------
(* Deleting and clearing.                                                  *)

(* The table keeps the parameters of the click for its own search.         *)
DeleteLogs ==
    /\ home /\ ~live /\ Work
    /\ deleting = None /\ refresh = None /\ shown # None /\ total > 0
    /\ deleting' = [params |-> params, here |-> TRUE]
    /\ UNCHANGED <<home, live, searchVars, resultVars, urlVars, refresh, clearing, infoVars,
                   flagVars, timerVars, draft, narrowed>>

DeleteFails ==
    /\ deleting # None
    /\ deleting' = None
    /\ UNCHANGED <<home, live, searchVars, resultVars, urlVars, refresh, clearing, infoVars,
                   flagVars, timerVars, draft, narrowed, work>>

(* The server's sources are S; the effect of SidebarPanel, if it is there. *)
Noticed(S) == IF home THEN WithSources(names, S, params) ELSE params

Notice(S) ==
    /\ names' = S
    /\ narrowed' = IF home /\ names = None THEN Noticed(S).sources # S ELSE narrowed

(* Deleted: new information, and the table's search.                       *)
LogsDeleted(S) ==
    /\ deleting # None
    /\ deleting' = None
    /\ Notice(S)
    /\ refresh' = deleting
    /\ UNCHANGED <<home, live, resultVars, urlVars, clearing, infos, flagVars, timerVars, draft,
                   work>>
    /\ Render(asked, Noticed(S), FALSE, TRUE, FALSE)

ClearLogs ==
    /\ home /\ Work
    /\ ~clearing
    /\ clearing' = TRUE
    /\ UNCHANGED <<home, live, searchVars, resultVars, urlVars, refresh, deleting, infoVars,
                   flagVars, timerVars, draft, narrowed>>

ClearFails ==
    /\ clearing
    /\ clearing' = FALSE
    /\ UNCHANGED <<home, live, searchVars, resultVars, urlVars, refresh, deleting, infoVars,
                   flagVars, timerVars, draft, narrowed, work>>

(* Cleared: information, results and parameters are new, and Home, if it   *)
(* is still there, takes this for a first visit.                           *)
LogsCleared(S) ==
    LET p == IF home THEN WithSources(names, S, Cleared) ELSE Cleared
    IN  /\ clearing
        /\ clearing' = FALSE
        /\ names' = S
        /\ narrowed' = (home /\ p.sources # S)
        /\ shown' = None /\ total' = 0
        /\ hasSearched' = home /\ firstLoad' = ~home
        /\ IF home THEN PushOn(at, <<Entry(p)>>) /\ draft' = FALSE
           ELSE UNCHANGED <<urls, at, draft>>
        /\ UNCHANGED <<home, live, refresh, deleting, infos, timerVars, work>>
        /\ Render(asked, p, TRUE, FALSE, FALSE)

-----------------------------------------------------------------------------
(* Leaving and coming back.                                                *)

Leave ==
    /\ home /\ Work
    /\ PushOn(at, <<Plain("elsewhere")>>)
    /\ Unmount
    /\ UNCHANGED <<live, params, asked, error, resultVars, clearing, infoVars, flagVars, timerVars,
                   draft, narrowed>>

ReturnHome ==
    /\ ~home /\ Work
    /\ UNCHANGED <<live, resultVars, tableVars, names, timerVars, draft>>
    /\ Mount(at, <<Plain("home")>>, params, hasSearched)

(* The last step of an import: the parameters are reset.                   *)
ImportDone ==
    /\ ~home /\ Work
    /\ params' = Cleared
    /\ hasSearched' = FALSE /\ firstLoad' = TRUE
    /\ total' = 0
    /\ infos' = infos + 1
    /\ UNCHANGED <<home, live, asked, search, loading, error, shown, urlVars, tableVars, names,
                   timerVars, draft, narrowed>>

(* popstate: syncWithUrlParams, and the page of the address.               *)
Navigate(i) ==
    LET url == urls[i]
        p == Synced(params, url)
        searched == hasSearched /\ p = params
    IN  /\ Work
        /\ i \in {at - 1, at + 1} \intersect DOMAIN urls
        /\ UNCHANGED <<live, resultVars, urlTimer, cold>>
        /\ tick' = (tick \/ p # params)
        /\ \/ /\ home /\ url.page = "home"
              /\ at' = i
              /\ hasSearched' = searched
              /\ draft' = IF url.query = None THEN draft ELSE p.query # url.query
              /\ UNCHANGED <<home, urls, tableVars, infoVars, firstLoad, narrowed>>
              /\ Rerender(p, url.range = Relative)
           \/ /\ home /\ url.page # "home"
              /\ at' = i
              /\ Unmount
              /\ UNCHANGED <<urls, params, asked, error, clearing, infoVars, flagVars, draft,
                             narrowed>>
           \/ /\ ~home /\ url.page = "home"
              /\ draft' = IF url.query = None THEN draft ELSE p.query # url.query
              /\ UNCHANGED <<tableVars, names>>
              /\ Mount(i, <<>>, p, searched)
           \/ /\ ~home /\ url.page # "home"
              /\ at' = i
              /\ UNCHANGED <<home, urls, searchVars, tableVars, infoVars, flagVars, draft,
                             narrowed>>

(* The timer of syncWithUrlParams.                                         *)
SyncTimer ==
    /\ tick
    /\ tick' = FALSE
    /\ hasSearched' = TRUE
    /\ UNCHANGED <<home, live, resultVars, urlVars, tableVars, infoVars, firstLoad, urlTimer, cold,
                   draft, narrowed, work>>
    /\ Rerender(params, TRUE)

(* The page is loaded again: the parameters, hasSearched, firstLoad and    *)
(* the number of results are kept in the browser, the rest is new.         *)
Reload ==
    LET there == urls[at].page = "home"
    IN  /\ Work
        /\ home' = there
        /\ live' = FALSE
        /\ refresh' = None /\ deleting' = None /\ clearing' = FALSE
        /\ shown' = None
        /\ names' = None /\ infos' = IF there THEN 1 ELSE 0
        /\ hasSearched' = (hasSearched \/ (there /\ firstLoad))
        /\ firstLoad' = (firstLoad /\ ~there)
        /\ IF there /\ firstLoad THEN PushOn(at, <<Entry(params)>>) ELSE UNCHANGED urlVars
        /\ urlTimer' = FALSE /\ tick' = FALSE
        /\ cold' = CASE urls[at].query = None -> "push"
                     [] urls[at].query = Empty -> "sync"
                     [] OTHER -> "info"
        /\ params' = params
        /\ search' = IF there /\ hasSearched' THEN [params |-> params, alone |-> TRUE] ELSE None
        /\ asked' = IF search' = None THEN None ELSE params
        /\ loading' = (search' # None)
        /\ error' = FALSE
        /\ narrowed' = FALSE
        /\ UNCHANGED <<total, draft>>

(* What the module does in a timer after a load, with the address there is *)
(* then, and, when that has a query, the answer of the server.             *)
ColdPush ==
    /\ cold = "push"
    /\ cold' = "done"
    /\ PushOn(at, <<Entry(params)>>)
    /\ draft' = FALSE
    /\ UNCHANGED <<home, live, searchVars, resultVars, tableVars, infoVars, flagVars, urlTimer,
                   tick, narrowed, work>>

ColdSync ==
    LET p == Synced(params, urls[at])
    IN  /\ cold = "sync"
        /\ cold' = "done"
        /\ tick' = (tick \/ p # params)
        /\ hasSearched' = (hasSearched /\ p = params)
        /\ draft' = IF urls[at].query = None THEN draft ELSE p.query # urls[at].query
        /\ UNCHANGED <<home, live, resultVars, urlVars, tableVars, infoVars, firstLoad, urlTimer,
                       narrowed, work>>
        /\ Rerender(p, urls[at].range = Relative)

ColdSearch ==
    LET p == Synced(params, urls[at])
    IN  /\ cold = "info"
        /\ cold' = "done"
        /\ tick' = (tick \/ p # params)
        /\ UNCHANGED <<home, live, resultVars, tableVars, infoVars, firstLoad, urlTimer, narrowed,
                       work>>
        /\ Trigger(p, <<Entry(p)>>)

(* Nothing is stored: the query is taken away, and from the address too,   *)
(* if the parameters had one.                                              *)
ColdClear ==
    /\ cold = "info"
    /\ cold' = "done"
    /\ urlTimer' = (urlTimer \/ params.query # Empty)
    /\ draft' = (draft \/ params.query = Empty)
    /\ UNCHANGED <<home, live, resultVars, urlVars, tableVars, infoVars, flagVars, tick, narrowed,
                   work>>
    /\ Rerender([params EXCEPT !.query = Empty], FALSE)

-----------------------------------------------------------------------------
(* What the server answers.                                                *)

SearchAnswered(n) ==
    /\ search # None
    /\ shown' = [params |-> search.params, by |-> "viewer"]
    /\ total' = n
    /\ search' = None
    /\ loading' = FALSE
    /\ UNCHANGED <<home, live, params, asked, error, urlVars, tableVars, infoVars, flagVars,
                   timerVars, draft, narrowed, work>>

SearchFails ==
    /\ search # None
    /\ search' = None
    /\ loading' = FALSE
    /\ error' = TRUE
    /\ UNCHANGED <<home, live, params, asked, resultVars, urlVars, tableVars, infoVars, flagVars,
                   timerVars, draft, narrowed, work>>

RefreshAnswered(n) ==
    /\ refresh # None
    /\ shown' = [params |-> refresh.params, by |-> "table"]
    /\ total' = n
    /\ refresh' = None
    /\ loading' = FALSE
    /\ UNCHANGED <<home, live, params, asked, search, error, urlVars, deleting, clearing, infoVars,
                   flagVars, timerVars, draft, narrowed, work>>

RefreshFails ==
    /\ refresh # None
    /\ refresh' = None
    /\ loading' = FALSE
    /\ error' = TRUE
    /\ UNCHANGED <<home, live, params, asked, search, resultVars, urlVars, deleting, clearing,
                   infoVars, flagVars, timerVars, draft, narrowed, work>>

InfoArrives(S) ==
    /\ infos > 0
    /\ infos' = infos - 1
    /\ Notice(S)
    /\ UNCHANGED <<home, live, resultVars, urlVars, tableVars, flagVars, timerVars, draft, work>>
    /\ Rerender(Noticed(S), FALSE)

-----------------------------------------------------------------------------
ViewNext ==
    \/ \E q \in Query : SearchFor(q)
    \/ ClearSearch \/ UrlTimer
    \/ \E S \in SUBSET Source : ChooseSources(S)
    \/ \E n \in 1 .. MaxRows : ChoosePage(n)
    \/ \E size \in Sizes \ {params.size} : ChooseSize(size)
    \/ Sort
    \/ \E range \in Absolute : ChooseAbsolute(range)
    \/ ChooseRelative \/ Apply
    \/ \E range \in Absolute : Zoom(range)
    \/ \E range \in Absolute : FitRangeToData(range)
    \/ \E view \in Saved : OpenWorkspace(view)
    \/ LiveChanges
    \/ DeleteLogs \/ DeleteFails
    \/ \E S \in SUBSET Source : LogsDeleted(S)
    \/ ClearLogs \/ ClearFails
    \/ \E S \in SUBSET Source : LogsCleared(S)
    \/ Leave \/ ReturnHome \/ ImportDone
    \/ \E i \in DOMAIN urls : Navigate(i)
    \/ SyncTimer \/ Reload
    \/ ColdPush \/ ColdSync \/ ColdSearch \/ ColdClear
    \/ \E n \in 0 .. MaxRows : SearchAnswered(n)
    \/ SearchFails
    \/ \E n \in 0 .. MaxRows : RefreshAnswered(n)
    \/ RefreshFails
    \/ \E S \in SUBSET Source : InfoArrives(S)

ViewSpec == ViewInit /\ [][ViewNext]_viewVars

-----------------------------------------------------------------------------
(* The parameters stay searchable: no page before the first, and no search *)
(* without what it asks for.                                               *)
ViewTypeOK ==
    /\ {home, live, hasSearched, firstLoad, clearing, loading, error} \subseteq BOOLEAN
    /\ {urlTimer, tick, draft, narrowed} \subseteq BOOLEAN
    /\ params \in Param /\ asked \in Param \union {None}
    /\ search \in [params : Param, alone : BOOLEAN] \union {None}
    /\ {refresh, deleting} \subseteq [params : Param, here : BOOLEAN] \union {None}
    /\ shown \in [params : Param, by : {"viewer", "table"}] \union {None}
    /\ total \in 0 .. MaxRows
    /\ urls \in Seq(Url) /\ Len(urls) \in 1 .. MaxUrls /\ at \in DOMAIN urls
    /\ cold \in {"push", "sync", "info", "done"}
    /\ names \in (SUBSET Source) \union {None}
    /\ infos \in Nat /\ work \in 0 .. MaxWork

(* When nothing is in flight, the rows the viewer has searched for are     *)
(* those of the parameters on screen, whatever changed them meanwhile.     *)
(* The table's own search may have asked for others.                       *)
ShownIsAsked ==
    (/\ home /\ hasSearched /\ ~live /\ ~tick /\ ~error
     /\ search = None /\ refresh = None)
        => /\ shown # None
           /\ shown.by = "viewer" => shown.params = params

(* The table shows that it loads while the viewer's search is in flight,   *)
(* unless the table's own one interfered or a new address is not searched  *)
(* for yet, and never goes on without a search.                            *)
LoadingIsSearching ==
    /\ loading => search # None \/ refresh # None
    /\ (search # None /\ search.alone /\ hasSearched /\ ~live) => loading

(* The parameters stay searchable, and the spinner tells of a search.      *)
ViewConsistent == ViewTypeOK /\ LoadingIsSearching

(* The address names the query and the range that are searched for, so     *)
(* that a copy of it finds the same; excepted are a range that is picked   *)
(* and not yet applied, and an address without a query, or with one while  *)
(* nothing is stored.                                                      *)
UrlDescribesView ==
    (/\ home /\ urls[at].query # None
     /\ ~urlTimer /\ cold = "done" /\ ~draft)
        => urls[at] = Entry(params)

(* Who has left no source out searches all of them, those that come later  *)
(* too.                                                                    *)
AllSourcesStay == (home /\ names # None /\ ~narrowed) => params.sources = names

=============================================================================
