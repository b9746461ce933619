--------------------------------- MODULE Tabs ---------------------------------
(***************************************************************************)
(* The tab strips of the open workspaces: the tab actions of               *)
(* workspaces/state.ts, which work on the workspace that is active, and    *)
(* the one prompt that answers for every way of closing a tab with staged  *)
(* work (WorkspaceContent.tsx, WorkspaceShell.tsx, tabMeta.ts).            *)
(***************************************************************************)
EXTENDS Selections, SequencesExt

CONSTANTS
  Strip,       \* the open workspaces
  Subject,     \* what a tab can show: tables, objects and schemas
  MaxOpened,   \* bound: tabs opened in a behaviour
  Scopes       \* bound: what one behaviour does, the kinds of tab it opens and how
               \* many, and the slots it writes

ASSUME TabsAssumption ==
  /\ MaxOpened \in Nat
  /\ \A c \in Scopes : c.opens \in 0..MaxOpened

SingletonKind == {"processes", "privileges", "diff"}
SubjectKind == {"object", "map", "board", "objexplorer", "tableoverview"}
\* A stored strip comes back without the kinds the reader does not know.
RestoredKind == {"table", "sql", "map", "object", "objexplorer"} \cup SingletonKind

\* What the workspace keeps by tab id; "views" is for filters and tableViews.
Slot == {"views", "structureEdits", "gridEdits"}
NoTab == 0

VARIABLES
  scope,          \* what this behaviour does
  ui,             \* by workspace: tabs, activeTabId, and the ids each slot has an entry for
  activeStrip,    \* activeWorkspaceId
  sqlCounters,    \* the last "Query N" handed out, by workspace
  opened,         \* tab ids used so far
  closeRequest,   \* the close that waits for the prompt, <<>> when there is none
  tables,         \* the tables the database still has
  applying,       \* tabs whose structure batch is being applied
  savingTab       \* the tab whose grid batch is being saved while it is mounted

tabsVars == <<scope, ui, activeStrip, sqlCounters, opened, closeRequest, tables, applying,
              savingTab>>

Tab == [id : 1..MaxOpened,
        kind : {"table", "sql"} \cup SingletonKind \cup SubjectKind,
        of : Subject \cup (0..MaxOpened), mode : {"data", "structure"}]

TabIds(tabs) == {tabs[i].id : i \in DOMAIN tabs}
HasTab(s, id) == id \in TabIds(ui[s].tabs)
TabOf(s, id) == CHOOSE tab \in ToSet(ui[s].tabs) : tab.id = id

\* unsavedTabIds
Unsaved(s) == ui[s].held["gridEdits"] \cup ui[s].held["structureEdits"]

TabsTypeOK ==
  /\ scope \in Scopes
  /\ \A s \in Strip :
       /\ \A tab \in ToSet(ui[s].tabs) : tab \in Tab
       /\ ui[s].active \in {NoTab} \cup (1..MaxOpened)
       /\ ui[s].held \in [Slot -> SUBSET (1..MaxOpened)]
  /\ activeStrip \in Strip
  /\ sqlCounters \in [Strip -> 0..MaxOpened]
  /\ opened \in 0..MaxOpened
  /\ ToSet(closeRequest) \subseteq 1..MaxOpened
  /\ tables \subseteq Subject /\ applying \subseteq 1..MaxOpened
  /\ savingTab \in {NoTab} \cup (1..MaxOpened)

TabsInit ==
  /\ scope \in Scopes
  /\ ui = [s \in Strip |-> [tabs |-> <<>>, active |-> NoTab, held |-> [x \in Slot |-> {}]]]
  /\ activeStrip \in Strip
  /\ sqlCounters = [s \in Strip |-> 0]
  /\ opened = 0 /\ closeRequest = <<>> /\ tables = Subject
  /\ applying = {} /\ savingTab = NoTab

-----------------------------------------------------------------------------
(* The shapes the tab actions share.                                       *)

Active == ui[activeStrip]
Prompted == ToSet(closeRequest) \cap Unsaved(activeStrip) \cap TabIds(Active.tabs) # {}

\* patchActiveUi
PatchActiveUi(new) == ui' = [ui EXCEPT ![activeStrip] = new]

\* The grid that was mounted is gone with its tab; its save goes on without it.
Unmount == savingTab' = NoTab

NewTab(kind, of, mode) == [id |-> opened + 1, kind |-> kind, of |-> of, mode |-> mode]

\* A new tab goes to the end of the strip and is focused.
OpenNew(kind, of, mode, held) ==
  /\ kind \in scope.kinds
  /\ opened < scope.opens /\ opened' = opened + 1
  /\ PatchActiveUi([tabs |-> Append(Active.tabs, NewTab(kind, of, mode)), active |-> opened + 1,
                    held |-> held])
  /\ Unmount
  /\ UNCHANGED <<scope, activeStrip, closeRequest, tables, applying>>

\* The tab that already shows it.
Matches(tab, kind, of) == tab.kind = kind /\ (kind \in SingletonKind \/ tab.of = of)

\* Focus-or-open.
OpenOnce(kind, of) ==
  LET shown == {i \in DOMAIN Active.tabs : Matches(Active.tabs[i], kind, of)}  IN
  /\ ~Prompted
  /\ \/ /\ shown # {} /\ kind \in scope.kinds
        /\ PatchActiveUi([Active EXCEPT !.active =
              Active.tabs[CHOOSE i \in shown : \A j \in shown : i <= j].id])
        /\ Unmount
        /\ UNCHANGED <<scope, activeStrip, opened, closeRequest, tables, applying, sqlCounters>>
     \/ shown = {} /\ OpenNew(kind, of, "data", Active.held) /\ UNCHANGED sqlCounters

OpenObjectTab(object) == OpenOnce("object", object)
OpenMapTab(schema) == OpenOnce("map", schema)
OpenBoardTab(schema) == OpenOnce("board", schema)
OpenObjExplorer(schema) == OpenOnce("objexplorer", schema)
OpenTableOverview(schema) == OpenOnce("tableoverview", schema)
OpenProcessesTab(schema) == OpenOnce("processes", schema)
OpenPrivilegesTab(schema) == OpenOnce("privileges", schema)
OpenDiffTab == OpenOnce("diff", 0)

\* The tab that shows a table, the focused one of several.
FindTableTab(table) ==
  LET shown == {i \in DOMAIN Active.tabs : Matches(Active.tabs[i], "table", table)}
      focused == {i \in shown : Active.tabs[i].id = Active.active}
  IN  IF focused # {} THEN CHOOSE i \in focused : TRUE
      ELSE IF shown # {} THEN CHOOSE i \in shown : \A j \in shown : i <= j ELSE 0

\* openTableTab, and openTableTabWithFilter with its seeded filter.
OpenTableTab(table, mode, newTab, seeded) ==
  LET i == IF newTab THEN 0 ELSE FindTableTab(table)
      seed(id) == IF seeded THEN [Active.held EXCEPT !["views"] = @ \cup {id}] ELSE Active.held
  IN
  /\ ~Prompted /\ table \in tables
  /\ seeded => mode = "data" /\ ~newTab
  /\ UNCHANGED sqlCounters
  /\ IF i = 0 THEN OpenNew("table", table, mode, seed(opened + 1))
     ELSE LET id == Active.tabs[i].id  IN
          /\ "table" \in scope.kinds
          /\ PatchActiveUi([tabs |-> [Active.tabs EXCEPT ![i].mode = mode], active |-> id,
                            held |-> seed(id)])
          /\ savingTab' = IF id = Active.active /\ mode = "data" THEN savingTab ELSE NoTab
          /\ UNCHANGED <<scope, activeStrip, opened, closeRequest, tables, applying>>

\* openSqlTab, openSqlTabWith, openSqlTabWithSnippet: the number is used up by a tab
\* with a name of its own. Reached by key while the prompt is up.
OpenSqlTab(named) ==
  /\ sqlCounters' = [sqlCounters EXCEPT ![activeStrip] = @ + 1]
  /\ OpenNew("sql", IF named THEN 0 ELSE sqlCounters[activeStrip] + 1, "data", Active.held)

\* setActiveTab
SetActiveTab(id) ==
  /\ ~Prompted
  /\ HasTab(activeStrip, id) /\ id # Active.active
  /\ PatchActiveUi([Active EXCEPT !.active = id])
  /\ Unmount
  /\ UNCHANGED <<scope, activeStrip, sqlCounters, opened, closeRequest, tables, applying>>

\* setTableTabMode, of the tab on screen.
SetTableTabMode(mode) ==
  LET i == CHOOSE i \in DOMAIN Active.tabs : Active.tabs[i].id = Active.active  IN
  /\ Active.active # NoTab /\ ~Prompted
  /\ Active.tabs[i].kind = "table" /\ Active.tabs[i].mode # mode
  /\ PatchActiveUi([Active EXCEPT !.tabs[i].mode = mode])
  /\ Unmount
  /\ UNCHANGED <<scope, activeStrip, sqlCounters, opened, closeRequest, tables, applying>>

\* setActive: another workspace's shell takes the screen, and its strip starts clean.
SetActiveStrip(s) ==
  /\ s # activeStrip /\ ~Prompted
  /\ activeStrip' = s /\ closeRequest' = <<>>
  /\ Unmount
  /\ UNCHANGED <<scope, ui, sqlCounters, opened, tables, applying>>

-----------------------------------------------------------------------------
(* What a mounted table tab puts in its slots.                             *)

Showing(mode) ==
  /\ Active.active # NoTab
  /\ TabOf(activeStrip, Active.active).kind = "table"
  /\ TabOf(activeStrip, Active.active).mode = mode

SetHeld(slot, id, present) ==
  PatchActiveUi([Active EXCEPT !.held[slot] = IF present THEN @ \cup {id} ELSE @ \ {id}])

\* setTabFilter, setTabSort, setTabPendingSort, setTabHiddenCols: entries are replaced,
\* never taken out; setTabGridEdits mirrors the grid and takes an empty batch out.
EditTable(slot, present) ==
  /\ Showing("data") /\ ~Prompted
  /\ slot \in {"views", "gridEdits"} \cap scope.slots
  /\ slot = "views" => present
  /\ present # (Active.active \in Active.held[slot])
  /\ SetHeld(slot, Active.active, present)
  /\ UNCHANGED <<scope, activeStrip, sqlCounters, opened, closeRequest, tables, applying,
                 savingTab>>

\* setTabStructureOps by the structure editor.
EditStructure(present) ==
  /\ Showing("structure") /\ ~Prompted /\ "structureEdits" \in scope.slots
  /\ present # (Active.active \in Active.held["structureEdits"])
  /\ SetHeld("structureEdits", Active.active, present)
  /\ UNCHANGED <<scope, activeStrip, sqlCounters, opened, closeRequest, tables, applying,
                 savingTab>>

\* The grid's save, whose answer clears the batch if the grid is still there.
SaveGrid ==
  /\ Showing("data") /\ ~Prompted
  /\ savingTab = NoTab /\ Active.active \in Active.held["gridEdits"]
  /\ savingTab' = Active.active
  /\ UNCHANGED <<scope, ui, activeStrip, sqlCounters, opened, closeRequest, tables, applying>>

GridSaved ==
  /\ savingTab # NoTab /\ savingTab' = NoTab
  /\ SetHeld("gridEdits", savingTab, FALSE)
  /\ UNCHANGED <<scope, activeStrip, sqlCounters, opened, closeRequest, tables, applying>>

\* applyPending: the answer writes to the workspace that is active by then.
ApplyStructure ==
  /\ Showing("structure") /\ ~Prompted
  /\ Active.active \in Active.held["structureEdits"] \ applying
  /\ applying' = applying \cup {Active.active}
  /\ UNCHANGED <<scope, ui, activeStrip, sqlCounters, opened, closeRequest, tables, savingTab>>

StructureApplied(id) ==
  /\ id \in applying /\ applying' = applying \ {id}
  /\ SetHeld("structureEdits", id, FALSE)
  /\ UNCHANGED <<scope, activeStrip, sqlCounters, opened, closeRequest, tables, savingTab>>

StructureRefused(id) ==
  /\ id \in applying /\ applying' = applying \ {id}
  /\ UNCHANGED <<scope, ui, activeStrip, sqlCounters, opened, closeRequest, tables, savingTab>>

-----------------------------------------------------------------------------
(* Closing.                                                                *)

\* Bug variant: the neighbour is looked up where the closed tab was.
FocusAfterStale(tabs, left, i) == tabs[IF i = 1 THEN 1 ELSE i].id

\* The left neighbour, else the right one, else none.
FocusAfter(tabs, left, i) == IF left = <<>> THEN NoTab ELSE left[IF i = 1 THEN 1 ELSE i - 1].id

\* closeTab
CloseTab(u, id) ==
  LET i == CHOOSE i \in DOMAIN u.tabs : u.tabs[i].id = id
      left == RemoveAt(u.tabs, i)
  IN  IF id \notin TabIds(u.tabs) THEN u
      ELSE [tabs |-> left,
            active |-> IF u.active = id THEN FocusAfter(u.tabs, left, i) ELSE u.active,
            held |-> [x \in Slot |-> u.held[x] \ {id}]]

\* One after another.
CloseTabs(u, ids) ==
  LET after[n \in 0..Len(ids)] == IF n = 0 THEN u ELSE CloseTab(after[n - 1], ids[n])
  IN  after[Len(ids)]

Closed(ids) ==
  /\ PatchActiveUi(CloseTabs(Active, ids))
  /\ savingTab' = IF savingTab \in ToSet(ids) THEN NoTab ELSE savingTab

\* Bug variant: only the first of the set is looked at.
MustAskFirst(ids) == ids[1] \in Unsaved(activeStrip)

\* Any of the set that has staged work holds up the whole set.
MustAsk(ids) == ToSet(ids) \cap Unsaved(activeStrip) # {}

RequestClose(ids) ==
  /\ ids # <<>>
  /\ IF MustAsk(ids) THEN closeRequest' = ids /\ UNCHANGED <<ui, savingTab>>
     ELSE Closed(ids) /\ UNCHANGED closeRequest
  /\ UNCHANGED <<scope, activeStrip, sqlCounters, opened, tables, applying>>

\* A tab's x, middle button or Delete key, and the strip's menu: this one, the others,
\* those to the left or to the right.
CloseFromStrip(id) ==
  LET ids == [i \in DOMAIN Active.tabs |-> Active.tabs[i].id]
      i == CHOOSE i \in DOMAIN ids : ids[i] = id
  IN
  /\ ~Prompted /\ HasTab(activeStrip, id)
  /\ \E targets \in {<<id>>, RemoveAt(ids, i),
                      SubSeq(ids, 1, i - 1), SubSeq(ids, i + 1, Len(ids))} :
       RequestClose(targets)

\* The key, which works while the prompt is up.
CloseByKey == Active.active # NoTab /\ RequestClose(<<Active.active>>)

ConfirmClose ==
  /\ Prompted
  /\ Closed(closeRequest) /\ closeRequest' = <<>>
  /\ UNCHANGED <<scope, activeStrip, sqlCounters, opened, tables, applying>>

CancelClose ==
  /\ Prompted /\ closeRequest' = <<>>
  /\ UNCHANGED <<scope, ui, activeStrip, sqlCounters, opened, tables, applying, savingTab>>

\* The bar's "discard all", behind a prompt of its own.
DiscardAll ==
  LET drop(x) == IF x \in {"gridEdits", "structureEdits"}
                 THEN Active.held[x] \ Unsaved(activeStrip) ELSE Active.held[x]
  IN
  /\ ~Prompted /\ Unsaved(activeStrip) # {}
  /\ PatchActiveUi([Active EXCEPT !.held = [x \in Slot |-> drop(x)]])
  /\ UNCHANGED <<scope, activeStrip, sqlCounters, opened, closeRequest, tables, applying,
                 savingTab>>

\* A table is dropped from the sidebar or from its own tab.
DropTable(table) ==
  LET ids == [i \in DOMAIN Active.tabs |-> Active.tabs[i].id]
      shows(id) == Matches(TabOf(activeStrip, id), "table", table)
      all == OnlyIn(ids, {id \in ToSet(ids) : shows(id)})
  IN
  /\ ~Prompted /\ table \in tables /\ "table" \in scope.kinds
  /\ tables' = tables \ {table}
  /\ \/ Closed(all)
     \/ Active.active # NoTab /\ shows(Active.active) /\ Closed(<<Active.active>>)
  /\ UNCHANGED <<scope, activeStrip, sqlCounters, opened, closeRequest, applying>>

\* seedSqlCounter
HighestTitle(tabs) ==
  LET numbers == {0} \cup {tab.of : tab \in {tab \in ToSet(tabs) : tab.kind = "sql"}}
  IN  CHOOSE n \in numbers : \A k \in numbers : k <= n

\* The connection is closed and opened again: the stored strip comes back with its
\* ids, its filters and its views.
Reconnect ==
  LET tabs == OnlyIn(Active.tabs, {tab \in ToSet(Active.tabs) : tab.kind \in RestoredKind})
      was == Active.active
  IN
  /\ ~Prompted /\ tabs # <<>>
  /\ PatchActiveUi(
       [tabs |-> tabs, active |-> IF was \in TabIds(tabs) THEN was ELSE tabs[1].id,
        held |-> [x \in Slot |-> IF x = "views"
                                 THEN Active.held[x] \cap TabIds(tabs) ELSE {}]])
  /\ sqlCounters' = [sqlCounters EXCEPT ![activeStrip] = HighestTitle(tabs)]
  /\ closeRequest' = <<>> /\ Unmount
  /\ UNCHANGED <<scope, activeStrip, opened, tables, applying>>

-----------------------------------------------------------------------------
TabsNext ==
  \/ \E x \in Subject :
       \/ OpenObjectTab(x) \/ OpenMapTab(x) \/ OpenBoardTab(x) \/ OpenObjExplorer(x)
       \/ OpenTableOverview(x) \/ OpenProcessesTab(x) \/ OpenPrivilegesTab(x)
       \/ DropTable(x)
       \/ \E mode \in {"data", "structure"}, newTab, seeded \in BOOLEAN :
            OpenTableTab(x, mode, newTab, seeded)
  \/ OpenDiffTab
  \/ \E named \in BOOLEAN : OpenSqlTab(named)
  \/ \E id \in 1..opened :
       SetActiveTab(id) \/ CloseFromStrip(id) \/ StructureApplied(id) \/ StructureRefused(id)
  \/ \E mode \in {"data", "structure"} : SetTableTabMode(mode)
  \/ \E slot \in Slot, present \in BOOLEAN : EditTable(slot, present)
  \/ \E present \in BOOLEAN : EditStructure(present)
  \/ \E s \in Strip : SetActiveStrip(s)
  \/ SaveGrid \/ GridSaved \/ ApplyStructure
  \/ CloseByKey \/ ConfirmClose \/ CancelClose \/ DiscardAll \/ Reconnect

TabsSpec == TabsInit /\ [][TabsNext]_tabsVars

-----------------------------------------------------------------------------
(* Properties.                                                             *)

\* types.ts, activeTabId: "Always references a tab in `tabs` (or null)", and a strip
\* with tabs has one on screen, whatever set of tabs is closed at once.
ActiveTabIsOpen ==
  \A s \in Strip :
    IF ui[s].tabs = <<>> THEN ui[s].active = NoTab ELSE HasTab(s, ui[s].active)

\* What is kept by tab id is kept for a tab that is open: nothing a close left behind,
\* and nothing a late answer put back.
HeldByOpenTabs ==
  \A s \in Strip, x \in Slot : ui[s].held[x] \subseteq TabIds(ui[s].tabs)

\* Processes, privileges and diff open once, the others once per subject, after any
\* order of opening, closing and restoring; only tables may be opened again.
OnePerSubject ==
  \A s \in Strip : \A a, b \in ToSet(ui[s].tabs) :
    a.id # b.id =>
      /\ a.kind = b.kind => a.kind \notin SingletonKind
      /\ a.kind = b.kind /\ a.kind \in SubjectKind => a.of # b.of

\* Two open query tabs never have the same number, also after a reconnect.
QueryTitlesDistinct ==
  \A s \in Strip : \A a, b \in ToSet(ui[s].tabs) :
    a.id # b.id /\ a.kind = "sql" /\ b.kind = "sql" /\ a.of # 0 => a.of # b.of

\* A tab with staged work goes only after the prompt that named it, with the table it
\* shows, or with its connection.
StagedWorkIsAskedFor ==
  [][\A s \in Strip : \A id \in Unsaved(s) :
       HasTab(s, id) /\ ~HasTab(s, id)' =>
         \/ id \in ToSet(closeRequest) /\ closeRequest' = <<>>
         \/ TabOf(s, id).of \in tables \ tables']_tabsVars

\* Does not hold: "A parked request with nothing dirty left in it needs no prompt - honour
\* the close rather than dropping the user's gesture" (WorkspaceContent.tsx). The effect
\* looks when the request is parked, not when a save's answer leaves nothing dirty.
ParkedCloseIsPrompted == closeRequest # <<>> => Prompted
=============================================================================
