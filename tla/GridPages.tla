------------------------------ MODULE GridPages -------------------------------
(***************************************************************************)
(* The page a data grid shows (DataGrid.tsx, TableTab.tsx, tabMeta.ts): one *)
(* tab on one table, mounted while the tab is on screen, fetching the page *)
(* its sort, filter and offset ask for, painting first from the page kept  *)
(* by its last mount, and deleting the rows picked by their place.         *)
(***************************************************************************)
EXTENDS Integers, Sequences, FiniteSets, SequencesExt, Selections

CONSTANTS
  Row,
  Orders,      \* the sorts: each lists the rows there can be
  Filters,     \* the filters: each the rows it lets through
  PageSize,
  Request,     \* bound: row fetches in flight at a time
  MaxChanges,  \* bound: changes of the table
  MaxMounts    \* bound: times the tab comes on screen

ASSUME PagesAssumption ==
  /\ IsFiniteSet(Row)
  /\ Orders \subseteq [1..Cardinality(Row) -> Row]
  /\ Filters \subseteq SUBSET Row
  /\ PageSize \in Nat \ {0} /\ MaxChanges \in Nat /\ MaxMounts \in Nat

VARIABLES
  table,       \* the rows in the database
  version,     \* changes of the table so far
  view,        \* what the tab asks for: sort, filter, offset
  mounted,     \* the instance of the grid on screen, 0 when there is none
  mounts,      \* instances so far
  generation,  \* generationRef of each instance: the request of its newest load
  page,        \* what the instance on screen shows
  loadingPage, \* its loading line is up
  initialError, \* an error stands in for the page
  failed,      \* history: the last load of the instance ended in an error
  seed,        \* the view whose kept page the instance began with, or <<>>
  requests,    \* fetches that have not been answered
  total,       \* tabMeta: how many rows the last answer counted, -1 before any
  pageCache,   \* tabMeta: the page the tab showed last, or NoPage
  refetched,   \* history: the version of the table at the last refetch
  selectedRows, \* places on the page, counted from the table's first row
  picked,      \* history: the row that stood at a place when it was picked
  deleting,    \* rows of a delete that has not reached the database
  deleted      \* history: rows deleted without having been picked

pagesVars == <<table, version, view, mounted, mounts, generation, page, loadingPage,
               initialError, failed, seed, requests, total, pageCache, refetched,
               selectedRows, picked, deleting, deleted>>

View == [sort : Orders, filter : Filters, offset : {n * PageSize : n \in 0..Cardinality(Row)}]
NoPage == [view |-> <<>>, rows |-> <<>>, total |-> -1, version |-> -1]
Free == [grid |-> 0, view |-> <<>>, answer |-> NoPage, read |-> FALSE]

\* What the database answers.
PageOf(v) ==
  LET all == OnlyIn(v.sort, table \cap v.filter)
      end == IF v.offset + PageSize < Len(all) THEN v.offset + PageSize ELSE Len(all)
  IN  [view |-> v, rows |-> SubSeq(all, v.offset + 1, end),
       total |-> Len(all), version |-> version]

Place(i) == page.view.offset + i
RowAt(place) == page.rows[place - page.view.offset]
Places == IF page = NoPage \/ initialError THEN {} ELSE {Place(i) : i \in DOMAIN page.rows}

PagesTypeOK ==
  /\ table \subseteq Row /\ version \in 0..MaxChanges
  /\ view \in View
  /\ mounted \in {0, mounts} /\ mounts \in 0..MaxMounts
  /\ generation \in [1..MaxMounts -> {<<>>} \cup {<<q>> : q \in Request}]
  /\ page # NoPage => page.view \in View /\ Len(page.rows) <= PageSize
  /\ loadingPage \in BOOLEAN /\ initialError \in BOOLEAN /\ failed \in BOOLEAN
  /\ seed \in {<<>>} \cup View
  /\ \A q \in Request : requests[q].grid <= mounts
  /\ total \in -1..Cardinality(Row) /\ refetched \in 0..version
  /\ selectedRows = DOMAIN picked
  /\ deleting \subseteq Row /\ deleted \subseteq Row

PagesInit ==
  /\ table = Row /\ version = 0
  /\ view \in {v \in View : v.offset = 0}
  /\ mounted = 0 /\ mounts = 0 /\ generation = [g \in 1..MaxMounts |-> <<>>]
  /\ page = NoPage /\ loadingPage = FALSE /\ initialError = FALSE /\ failed = FALSE /\ seed = <<>>
  /\ requests = [q \in Request |-> Free] /\ total = -1 /\ pageCache = NoPage /\ refetched = 0
  /\ selectedRows = {} /\ picked = <<>> /\ deleting = {} /\ deleted = {}

-----------------------------------------------------------------------------
(* Loading.                                                                *)

Unselect == selectedRows' = {} /\ picked' = <<>>

\* fetchCurrentPage, of the instance on screen: a new generation.
Fetch(v) ==
  \E q \in Request :
    /\ requests[q] = Free
    /\ requests' = [requests EXCEPT ![q] = [Free EXCEPT !.grid = mounted', !.view = v]]
    /\ generation' = [generation EXCEPT ![mounted'] = <<q>>]
    /\ failed' = FALSE

\* The load effect: an empty grid and its loading line first, unless the view is the one
\* the instance was seeded for and nothing was refetched since.
Load(v) ==
  /\ Fetch(v)
  /\ IF v = seed THEN UNCHANGED <<page, loadingPage, initialError>>
     ELSE page' = NoPage /\ loadingPage' = TRUE /\ initialError' = FALSE

\* The tab comes on screen at its first page, seeded with the page kept for this view.
Mount ==
  LET start == [view EXCEPT !.offset = 0]
      hit == pageCache # NoPage /\ pageCache.view = start
  IN
  /\ mounted = 0 /\ mounts < MaxMounts
  /\ mounts' = mounts + 1 /\ mounted' = mounts' /\ view' = start
  /\ seed' = IF hit THEN start ELSE <<>>
  /\ page' = IF hit THEN pageCache ELSE NoPage
  /\ loadingPage' = ~hit /\ initialError' = FALSE
  /\ Fetch(start)
  /\ Unselect
  /\ UNCHANGED <<total, table, version, pageCache, refetched, deleting, deleted>>

Leave ==
  /\ mounted # 0 /\ mounted' = 0
  /\ page' = NoPage /\ loadingPage' = FALSE
  /\ initialError' = FALSE /\ failed' = FALSE /\ seed' = <<>>
  /\ Unselect
  /\ UNCHANGED <<total, table, version, view, mounts, generation, requests, pageCache,
                 refetched, deleting, deleted>>

\* The selection is dropped on another filter or offset, not on another sort.
DropsSelection(v) == v.filter # view.filter \/ v.offset # view.offset

Look(v) ==
  /\ mounted # 0 /\ mounted' = mounted /\ v # view /\ view' = v
  /\ Load(v)
  /\ IF DropsSelection(v) THEN Unselect ELSE UNCHANGED <<selectedRows, picked>>
  /\ UNCHANGED <<total, table, version, mounts, seed, pageCache, refetched, deleting, deleted>>

\* handleSetSort, and a filter applied or cleared: back to the first page.
SetSort(sort) == Look([view EXCEPT !.sort = sort, !.offset = 0])
SetFilter(filter) == Look([view EXCEPT !.filter = filter, !.offset = 0])

\* Bug variant: the previous page of the first one.
TurnPageUnbounded(pages) ==
  LET offset == view.offset + pages * PageSize  IN
  /\ pages < 0 \/ offset < total
  /\ Look([view EXCEPT !.offset = offset])

\* The pager's next and previous page, by the last count.
TurnPage(pages) ==
  LET offset == view.offset + pages * PageSize  IN
  /\ IF pages < 0 THEN offset >= 0 ELSE offset < total
  /\ Look([view EXCEPT !.offset = offset])

\* requestRefetch: the kept page goes, and the grid that is mounted loads for real.
Refetched(ver) ==
  /\ pageCache' = NoPage /\ refetched' = ver /\ seed' = <<>>
  /\ IF mounted # 0
     THEN /\ Fetch(view) /\ page' = NoPage /\ loadingPage' = TRUE /\ initialError' = FALSE
          /\ Unselect
     ELSE UNCHANGED <<generation, requests, page, loadingPage, initialError, failed,
                      selectedRows, picked>>

RequestRefetch ==
  /\ UNCHANGED <<mounted, total>>
  /\ Refetched(version)
  /\ UNCHANGED <<table, version, view, mounts, deleting, deleted>>

\* Bug variant: an answer is taken whenever its grid is still there.
NewestOfItsGrid(q) == requests[q].grid = mounted \/ generation[requests[q].grid] = <<q>>

\* Not overtaken by another load of the same grid, which may be gone by now.
Newest(q) == generation[requests[q].grid] = <<q>>

\* The database reads the page, then the answer is on its way; what it is only matters
\* to the newest load.
Read(q) ==
  /\ requests[q] # Free /\ ~requests[q].read /\ Newest(q)
  /\ requests' = [requests EXCEPT ![q].read = TRUE, ![q].answer = PageOf(requests[q].view)]
  /\ UNCHANGED <<total, table, version, view, mounted, mounts, generation, page, loadingPage,
                 initialError, failed, seed, pageCache, refetched,
                 selectedRows, picked, deleting, deleted>>

Answer(q) ==
  LET onScreen == Newest(q) /\ requests[q].grid = mounted  IN
  /\ requests[q] # Free /\ (Newest(q) => requests[q].read)
  /\ requests' = [requests EXCEPT ![q] = Free]
  /\ pageCache' = IF Newest(q) THEN requests[q].answer ELSE pageCache
  /\ total' = IF Newest(q) THEN requests[q].answer.total ELSE total
  /\ page' = IF onScreen THEN requests[q].answer ELSE page
  /\ loadingPage' = (loadingPage /\ ~onScreen)
  /\ failed' = (failed /\ ~onScreen)
  /\ UNCHANGED <<table, version, view, mounted, mounts, generation, initialError, seed,
                 refetched, selectedRows, picked, deleting, deleted>>

\* Bug variant: only an answer takes the loading line down.
RefuseLoading(q) ==
  LET onScreen == Newest(q) /\ requests[q].grid = mounted  IN
  /\ requests[q] # Free
  /\ requests' = [requests EXCEPT ![q] = Free]
  /\ failed' = (failed \/ onScreen)
  /\ initialError' = (initialError \/ (onScreen /\ view.filter = Row))
  /\ UNCHANGED <<total, table, version, view, mounted, mounts, generation, page, loadingPage,
                 seed, pageCache, refetched, selectedRows, picked, deleting, deleted>>

\* The error of the newest load stands in for the page, or under a filter is the
\* filter's; rows that were there stay.
Refuse(q) ==
  LET onScreen == Newest(q) /\ requests[q].grid = mounted  IN
  /\ requests[q] # Free
  /\ requests' = [requests EXCEPT ![q] = Free]
  /\ loadingPage' = (loadingPage /\ ~onScreen)
  /\ failed' = (failed \/ onScreen)
  /\ initialError' = (initialError \/ (onScreen /\ view.filter = Row))
  /\ UNCHANGED <<total, table, version, view, mounted, mounts, generation, page, seed,
                 pageCache, refetched, selectedRows, picked, deleting, deleted>>

-----------------------------------------------------------------------------
(* Picking and deleting.                                                   *)

Select(places) ==
  /\ selectedRows' = places
  /\ picked' = [p \in places |-> IF p \in selectedRows THEN picked[p] ELSE RowAt(p)]
  /\ UNCHANGED <<total, table, version, view, mounted, mounts, generation, page, loadingPage,
                 initialError, failed, seed, requests, pageCache, refetched, deleting, deleted>>

ToggleRowSel(p) ==
  /\ p \in Places
  /\ Select(IF p \in selectedRows THEN selectedRows \ {p} ELSE selectedRows \cup {p})

ToggleSelectAllRows ==
  /\ Places # {}
  /\ Select(IF Cardinality(selectedRows) >= Cardinality(Places) THEN {} ELSE Places)

\* deleteSelectedRows: the rows that stand at the places by then, all in one call.
DeleteSelectedRows ==
  LET rows == {RowAt(p) : p \in selectedRows \cap Places}  IN
  /\ rows # {} /\ deleting = {} /\ version < MaxChanges
  /\ deleting' = rows
  /\ deleted' = deleted \cup (rows \ {picked[p] : p \in selectedRows})
  /\ UNCHANGED <<total, table, version, view, mounted, mounts, generation, page, loadingPage,
                 initialError, failed, seed, requests, pageCache, refetched, selectedRows, picked>>

\* The call is done: the table is read again.
RowsDeleted ==
  /\ UNCHANGED <<mounted, total, view, mounts, deleted>>
  /\ deleting # {} /\ deleting' = {}
  /\ table' = table \ deleting /\ version' = version + 1
  /\ Refetched(version + 1)

DeleteRefused ==
  /\ deleting # {} /\ deleting' = {}
  /\ UNCHANGED <<total, table, version, view, mounted, mounts, generation, page, loadingPage,
                 initialError, failed, seed, requests, pageCache, refetched,
                 selectedRows, picked, deleted>>

\* Someone else takes a row out or puts one back.
ChangeTable(r) ==
  /\ deleting = {} /\ version < MaxChanges /\ version' = version + 1
  /\ table' = IF r \in table THEN table \ {r} ELSE table \cup {r}
  /\ UNCHANGED <<total, view, mounted, mounts, generation, page, loadingPage, initialError,
                 failed, seed, requests, pageCache, refetched,
                 selectedRows, picked, deleting, deleted>>

-----------------------------------------------------------------------------
PagesNext ==
  \/ Mount \/ Leave \/ RequestRefetch
  \/ \E sort \in Orders : SetSort(sort)
  \/ \E filter \in Filters : SetFilter(filter)
  \/ \E pages \in {-1, 1} : TurnPage(pages)
  \/ \E q \in Request : Read(q) \/ Answer(q) \/ Refuse(q)
  \/ \E p \in 1..Cardinality(Row) : ToggleRowSel(p)
  \/ ToggleSelectAllRows \/ DeleteSelectedRows \/ RowsDeleted \/ DeleteRefused
  \/ \E r \in Row : ChangeTable(r)

PagesSpec == PagesInit /\ [][PagesNext]_pagesVars

-----------------------------------------------------------------------------
(* Properties.                                                             *)

\* The newest load of the grid on screen is under way.
Pending == \E q \in Request : requests[q].grid = mounted /\ Newest(q)

\* "What you have is stale" (requestRefetch), and a response from a superseded fetch is
\* discarded: when the loads have ended well the page shown is the one the tab asks for,
\* at least as new as the last refetch, also when an instance that is gone put an older
\* page back in the cache.
SettledPageIsTheView ==
  mounted # 0 /\ ~Pending /\ ~failed /\ page # NoPage
    => page.view = view /\ page.version >= refetched

\* The loading line goes when the load it stands for ends.
LoadingEnds == mounted # 0 /\ loadingPage => Pending

\* Does not hold: what is deleted is what was picked (DataGrid.tsx on the selection:
\* "Cleared on any (re)fetch / page change").
DeletesWhatWasPicked == deleted = {}

\* Does not hold: rows never stand under a sort or a filter they were not fetched with
\* (DataGrid.tsx: "Everything else - a new sort, filter, page, or the toolbar's refresh -
\* is a real load and shows it").
PageIsOfTheView == mounted # 0 /\ page # NoPage => page.view = view
=============================================================================
