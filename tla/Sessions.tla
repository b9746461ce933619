------------------------------- MODULE Sessions -------------------------------
(***************************************************************************)
(* Session persistence (workspaces/session.ts and sessionSync.ts, with the *)
(* restore in state.ts): every change of a workspace arms one timer and    *)
(* takes a snapshot; the timer writes the snapshot to localStorage under   *)
(* the saved connection's id, with the kept schema sub-workspaces inside.  *)
(***************************************************************************)
EXTENDS Selections, SequencesExt

CONSTANTS
  Conn,        \* saved connections
  MaxKept,     \* MAX_CONNECTIONS
  NoEntry,     \* nothing stored for a connection
  NoKids,      \* no kept sub-workspace stored in an entry
  MaxChanges   \* bound: changes of the rail or of a strip in a behaviour

\* A UI: the kinds of its tabs, and whether there is anything about it that is not
\* stored (result sets, drafts, staged edits, the run history).
KnownKind == {"table"}
UI == [tabs : SUBSET (KnownKind \cup {"board"}), transient : BOOLEAN]
Blank == [tabs |-> {}, transient |-> FALSE]
Top == <<>>

VARIABLES
  restoreTabs,   \* the setting
  rail,          \* the open workspaces, in rail order
  stored,        \* localStorage, by connection
  pendingRail,   \* the snapshot the timer will write
  timer,         \* armed
  changes        \* changes so far, which is also the time stamped on an entry

sessVars == <<restoreTabs, rail, stored, pendingRail, timer, changes>>

Workspace == [id : Seq(Nat), conn : Conn, parent : Seq(Nat),
              schema : BOOLEAN, temp : BOOLEAN, ui : UI]
StoredSession == [ui : UI, savedAt : 0..MaxChanges, schemas : {NoKids} \cup UI]

ASSUME SessAssumption ==
  /\ IsFiniteSet(Conn) /\ MaxKept \in Nat \ {0} /\ MaxChanges \in Nat
  /\ NoEntry \notin UI \cup StoredSession

SessTypeOK ==
  /\ restoreTabs \in BOOLEAN /\ timer \in BOOLEAN
  /\ \A ws \in ToSet(rail) \cup ToSet(pendingRail) :
       /\ ws.conn \in Conn /\ ws.ui \in UI
       /\ ws.parent # Top => ws.schema
       /\ ws.temp => ws.schema /\ ws.parent # Top
  /\ stored \in [Conn -> {NoEntry} \cup StoredSession]
  /\ Cardinality({c \in Conn : stored[c] # NoEntry}) <= MaxKept
  /\ changes \in 0..MaxChanges

SessInit ==
  /\ restoreTabs \in BOOLEAN
  /\ rail = <<>> /\ pendingRail = <<>>
  /\ stored = [c \in Conn |-> NoEntry]
  /\ timer = FALSE /\ changes = 0

-----------------------------------------------------------------------------
(* session.ts                                                              *)

forStorage(ui) == [ui EXCEPT !.transient = FALSE]

\* Tabs of a kind the reader does not know are dropped; nothing left is no session.
fromStorage(ui) == [ui EXCEPT !.tabs = @ \cap KnownKind]
Usable(ui) == ui.tabs \cap KnownKind # {}

readSession(c) ==
  IF stored[c] # NoEntry /\ Usable(stored[c].ui) THEN fromStorage(stored[c].ui) ELSE Blank

readSchemaSession(c) ==
  IF stored[c] # NoEntry /\ stored[c].schemas # NoKids /\ Usable(stored[c].schemas)
  THEN fromStorage(stored[c].schemas) ELSE Blank

HasKept(c) == stored[c] # NoEntry /\ stored[c].schemas # NoKids

\* The oldest entries beyond the limit; entries of one save are equally old.
Oldest(entries, d) ==
  \A a \in d, b \in {c \in Conn : entries[c] # NoEntry} \ d :
    entries[a].savedAt <= entries[b].savedAt

Prune(entries) ==
  LET held == {c \in Conn : entries[c] # NoEntry}
      over == IF Cardinality(held) > MaxKept THEN Cardinality(held) - MaxKept ELSE 0
  IN  {[c \in Conn |-> IF c \in d THEN NoEntry ELSE entries[c]] :
         d \in {d \in SUBSET held : Cardinality(d) = over /\ Oldest(entries, d)}}

-----------------------------------------------------------------------------
(* sessionSync.ts                                                          *)

\* Children are written inside the entry of their connection, never as an entry.
IsParent(ws) == ws.parent = Top
IsKept(ws) == ws.parent # Top /\ ~ws.temp

ParentsOf(c, r) == {i \in DOMAIN r : r[i].conn = c /\ IsParent(r[i])}
KidsOf(c, r) == {i \in DOMAIN r : r[i].conn = c /\ IsKept(r[i])}
LastUi(r, places) == r[Max(places)].ui

\* Bug variant: a save of a temporary sub-workspace's connection writes its strip.
WrittenLast(c, r) ==
  LET all == SelectSeq(r, LAMBDA ws : ws.conn = c)
  IN  IF all = <<>> THEN stored[c]
      ELSE [ui |-> forStorage(Last(all).ui), savedAt |-> changes, schemas |-> NoKids]

\* What one save makes of a connection's entry: the last workspace written wins.
Written(c, r) ==
  LET parents == ParentsOf(c, r)
      kids == KidsOf(c, r)
  IN  IF parents = {}
      THEN IF kids = {} \/ stored[c] = NoEntry THEN stored[c]
           ELSE [stored[c] EXCEPT !.schemas = forStorage(LastUi(r, kids))]
      ELSE [ui |-> forStorage(LastUi(r, parents)), savedAt |-> changes,
            schemas |-> IF kids = {} THEN NoKids ELSE forStorage(LastUi(r, kids))]

Save(r) == stored' \in Prune([c \in Conn |-> Written(c, r)])

\* Bug variant: a change while the timer is armed is left to the next one.
ScheduleSaveOnce(r) ==
  /\ pendingRail' = IF timer THEN pendingRail ELSE r
  /\ timer' = TRUE

\* schedule: the latest rail is what will be written; the timer is not restarted.
ScheduleSave(r) ==
  /\ pendingRail' = r
  /\ timer' = TRUE

\* flush: off, the snapshot stays where it is.
Flush ==
  /\ timer /\ timer' = FALSE
  /\ IF restoreTabs THEN Save(pendingRail) /\ pendingRail' = <<>>
     ELSE UNCHANGED <<stored, pendingRail>>
  /\ UNCHANGED <<restoreTabs, rail, changes>>

\* beforeunload: the pending save is made at once, then everything in memory is gone.
Quit ==
  /\ rail' = <<>> /\ pendingRail' = <<>> /\ timer' = FALSE
  /\ IF timer /\ restoreTabs THEN Save(pendingRail) ELSE UNCHANGED stored
  /\ UNCHANGED <<restoreTabs, changes>>

\* The process dies without it.
ProcessDies ==
  /\ rail' = <<>> /\ pendingRail' = <<>> /\ timer' = FALSE
  /\ UNCHANGED <<restoreTabs, changes, stored>>

\* Turning the setting off erases what is stored.
SetRestoreTabs(value) ==
  /\ restoreTabs # value /\ restoreTabs' = value
  /\ stored' = IF value THEN stored ELSE [c \in Conn |-> NoEntry]
  /\ UNCHANGED <<rail, pendingRail, timer, changes>>

-----------------------------------------------------------------------------
(* state.ts, as far as it reads a session or changes what is written.      *)

Change(r) ==
  /\ changes < MaxChanges /\ changes' = changes + 1
  /\ rail' = r /\ ScheduleSave(r)
  /\ UNCHANGED <<restoreTabs, stored>>

SchemaOf(parent, temp, ui) ==
  [id |-> Append(parent.id, 0), conn |-> parent.conn, parent |-> parent.id,
   schema |-> TRUE, temp |-> temp, ui |-> ui]

\* openWorkspace: the strip comes back, and the kept children with it. Bound: no more
\* connections are open than can be stored.
OpenWorkspace(c) ==
  LET restores == restoreTabs /\ readSession(c) # Blank
      ws == [id |-> <<changes + 1>>, conn |-> c, parent |-> Top, schema |-> FALSE,
             temp |-> FALSE, ui |-> IF restores THEN readSession(c) ELSE Blank]
  IN  /\ Cardinality({c} \cup {other.conn : other \in ToSet(rail)}) <= MaxKept
      /\ Change(rail \o <<ws>> \o
             (IF restores /\ HasKept(c)
                THEN <<SchemaOf(ws, FALSE, readSchemaSession(c))>> ELSE <<>>))

\* openSchemaWorkspace, whose focus of one that is open changes no strip.
OpenSchemaWorkspace(i) ==
  LET child == SchemaOf(rail[i], TRUE, readSchemaSession(rail[i].conn))  IN
  /\ ~rail[i].schema
  /\ \A ws \in ToSet(rail) : ws.id # child.id
  /\ Change(InsertAt(rail, i + 1, child))

KeepWorkspace(i) ==
  /\ rail[i].temp
  /\ Change([rail EXCEPT ![i].temp = FALSE])

\* closeWorkspace: temporary children go with it, kept ones move to the top level.
CloseWorkspace(i) ==
  LET id == rail[i].id
      left == OnlyIn(rail, {ws \in ToSet(rail) : ws.id # id /\ ~(ws.parent = id /\ ws.temp)})
  IN  Change([j \in DOMAIN left |->
                IF left[j].parent = id THEN [left[j] EXCEPT !.parent = Top] ELSE left[j]])

\* Every tab action.
PatchUi(i, ui) ==
  /\ rail[i].ui # ui
  /\ Change([rail EXCEPT ![i].ui = ui])

-----------------------------------------------------------------------------
SessNext ==
  \/ Flush \/ Quit \/ ProcessDies
  \/ \E value \in BOOLEAN : SetRestoreTabs(value)
  \/ \E c \in Conn : OpenWorkspace(c)
  \/ \E i \in DOMAIN rail :
       OpenSchemaWorkspace(i) \/ KeepWorkspace(i) \/ CloseWorkspace(i)
         \/ \E ui \in UI : PatchUi(i, ui)

\* The timer of a running application goes off.
SessSpec == SessInit /\ [][SessNext]_sessVars /\ WF_sessVars(Flush)

-----------------------------------------------------------------------------
(* Properties.                                                             *)

ShownUi(c) == LET parents == ParentsOf(c, rail)
              IN  IF parents = {} THEN NoEntry ELSE LastUi(rail, parents)

KeptOf(u) == IF u = NoEntry THEN u ELSE forStorage(u)

Promise == INSTANCE SessionPromise WITH
  Nothing <- NoEntry, Kept <- KeptOf,
  on <- restoreTabs,
  shown <- [c \in Conn |-> ShownUi(c)],
  kept <- [c \in Conn |-> IF stored[c] = NoEntry THEN NoEntry ELSE stored[c].ui]

\* The throttled snapshot behaves as if each save wrote what is on screen right then.
SavesWhatIsShown == Promise!Spec

\* A change is stored, or undone or overtaken by the setting, closing or the end of the
\* process: a change made while the timer is armed rides on it.
ChangeIsStored ==
  \A c \in Conn :
    [](timer /\ restoreTabs /\ ShownUi(c) # NoEntry =>
       <>(\/ ~restoreTabs \/ ShownUi(c) = NoEntry
          \/ stored[c] # NoEntry /\ stored[c].ui = forStorage(ShownUi(c))))

\* Does not hold: only a connection's own workspace writes its tabs (sessionSync.ts on a
\* sub-workspace: "writing it through `writeSession` would clobber the parent's own tabs").
\* A kept child whose parent is closed is written as a connection of its own.
OwnTabsOnly ==
  [][\A c \in Conn :
       stored[c] # NoEntry /\ stored'[c] # NoEntry =>
         \/ stored'[c].ui = stored[c].ui
         \/ \E ws \in ToSet(pendingRail) :
              ws.conn = c /\ ~ws.schema /\ forStorage(ws.ui) = stored'[c].ui]_sessVars
=============================================================================
