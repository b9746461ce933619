----------------------------- MODULE Workspaces -----------------------------
(***************************************************************************)
(* The renderer's workspaces, src/features/workspaces/state.ts: the rail   *)
(* of open workspaces, the active one, and who releases which connection.  *)
(*                                                                         *)
(* A workspace is a whole connection, a schema of one, or a data file.     *)
(* Schema workspaces sit below their parent in the rail and SHARE its      *)
(* connection handle, so a handle is released with its last user.  Store   *)
(* actions are synchronous; two operations span an IPC call, switching a   *)
(* cluster node and re-opening a file: they begin on the active workspace  *)
(* and land on whatever the rail has become.                               *)
(***************************************************************************)
EXTENDS Integers, SequencesExt, Selections

CONSTANTS
  Handle,     \* connection handles, never reused
  Scope,      \* schemas, keyspaces or databases of a connection
  NoScope,
  NoHandle,
  MaxOpens,   \* bound: how many connections and files are opened from the connect screen
  MaxRail,    \* bound: workspaces open at a time
  MaxDepth,   \* bound: length of an id, which grows when a promoted child gets children
  MaxReopens  \* bound: switches and re-opens in flight at a time

ASSUME WorkspaceAssumption ==
  /\ NoScope \notin Scope /\ IsFiniteSet(Scope)
  /\ NoHandle \notin Handle
  /\ MaxOpens \in Nat /\ MaxRail \in Nat
  /\ MaxDepth \in Nat /\ MaxReopens \in Nat

VARIABLES
  rail,     \* workspaces, in rail order
  active,   \* activeWorkspaceId, or NoId
  opens,    \* how many have been opened: a fresh id is its value
  reopens,  \* node switches and file re-opens waiting for their connection
  backend,  \* what the backend has for each handle
  adopted   \* history: handles a database workspace has been on

store == <<rail, active, opens, reopens, backend, adopted>>

-----------------------------------------------------------------------------
\* schemaWorkspaceId: a child's id is made of its parent's and its scope.
Id == Seq(Nat \cup Scope)
NoId == <<>>
ChildId(parent, scope) == Append(parent, scope)

Workspace ==
  [id : Id, parent : Id, scope : Scope \cup {NoScope}, temp : BOOLEAN,
   handle : Handle, readOnly : BOOLEAN, file : BOOLEAN]

Reopen == [id : Id, previous : Handle, file : BOOLEAN]

\* The mode a handle is open in, as the backend enforces it.
Mode(readOnly) == IF readOnly THEN "locked" ELSE "writable"
BackendState == {"unopened", "locked", "writable", "closed"}

Users(r, h) == {i \in DOMAIN r : r[i].handle = h}

IsFirst(h) == backend[h] = "unopened"

\* connection_open hands out a fresh handle in the mode of its saved entry.
Opened(h, readOnly) == [backend EXCEPT ![h] = Mode(readOnly)]

Root(h, readOnly, file) ==
  [id |-> <<opens + 1>>, parent |-> NoId, scope |-> NoScope, temp |-> FALSE,
   handle |-> h, readOnly |-> readOnly, file |-> file]

Child(parent, scope, temp) ==
  [parent EXCEPT !.id = ChildId(parent.id, scope), !.parent = parent.id,
                 !.scope = scope, !.temp = temp]

-----------------------------------------------------------------------------
TypeOK ==
  /\ rail \in Seq(Workspace)
  /\ active \in Id
  /\ opens \in 0..MaxOpens
  /\ reopens \in Seq(Reopen)
  /\ backend \in [Handle -> BackendState]
  /\ adopted \subseteq Handle

Init ==
  /\ rail = <<>>
  /\ active = NoId
  /\ opens = 0
  /\ reopens = <<>>
  /\ backend = [h \in Handle |-> "unopened"]
  /\ adopted = {}

-----------------------------------------------------------------------------
\* openWorkspace, once connection_open has answered: the connection, and the
\* schema workspaces of it the user kept, all on one handle.
OpenWorkspace ==
  /\ opens < MaxOpens
  /\ \E h \in Handle, readOnly \in BOOLEAN, kept \in SUBSET Scope :
       LET root == Root(h, readOnly, FALSE)
           scopes == SetToSeq(kept)
       IN  /\ IsFirst(h)
           /\ Len(rail) + 1 + Len(scopes) <= MaxRail
           /\ rail' = Append(rail, root) \o
                      [i \in DOMAIN scopes |-> Child(root, scopes[i], FALSE)]
           /\ active' = root.id
           /\ backend' = Opened(h, readOnly)
           /\ adopted' = adopted \cup {h}
  /\ opens' = opens + 1
  /\ UNCHANGED reopens

\* openFileWorkspace: a data file, loaded into a scratch database of its own.
OpenFileWorkspace ==
  /\ opens < MaxOpens
  /\ Len(rail) < MaxRail
  /\ \E h \in Handle :
       /\ IsFirst(h)
       /\ rail' = Append(rail, Root(h, FALSE, TRUE))
       /\ backend' = Opened(h, FALSE)
  /\ active' = <<opens + 1>>
  /\ opens' = opens + 1
  /\ UNCHANGED <<reopens, adopted>>

\* The end of the run of children below the workspace at p.
LastBelow(p) ==
  CHOOSE j \in p..Len(rail) :
    /\ \A k \in (p + 1)..j : rail[k].parent = rail[p].id
    /\ j < Len(rail) => rail[j + 1].parent # rail[p].id

\* Bug variant: the child goes to the end of the rail.
OpenSchemaAtTheEnd(scope) ==
  /\ \E i \in DOMAIN rail, p \in DOMAIN rail :
       /\ rail[i].id = active /\ ~rail[i].file
       /\ rail[p].id = IF rail[i].parent = NoId THEN active ELSE rail[i].parent
       /\ LET child == Child(rail[p], scope, TRUE)
          IN  IF \E k \in DOMAIN rail : rail[k].id = child.id
              THEN active' = child.id /\ rail' = rail
              ELSE /\ Len(rail) < MaxRail /\ Len(child.id) <= MaxDepth
                   /\ rail' = Append(rail, child)
                   /\ active' = child.id
  /\ UNCHANGED <<opens, reopens, backend, adopted>>

\* openSchemaWorkspace, from the active workspace's scope switcher: create or
\* focus. From inside a child it makes a sibling, never a grandchild.
OpenSchema(scope) ==
  /\ \E i \in DOMAIN rail, p \in DOMAIN rail :
       /\ rail[i].id = active /\ ~rail[i].file
       /\ rail[p].id = IF rail[i].parent = NoId THEN active ELSE rail[i].parent
       /\ LET child == Child(rail[p], scope, TRUE)
          IN  IF \E k \in DOMAIN rail : rail[k].id = child.id
              THEN active' = child.id /\ rail' = rail
              ELSE /\ Len(rail) < MaxRail /\ Len(child.id) <= MaxDepth
                   /\ rail' = InsertAt(rail, LastBelow(p) + 1, child)
                   /\ active' = child.id
  /\ UNCHANGED <<opens, reopens, backend, adopted>>

\* keepWorkspace: the child will survive its parent.
Keep(i) ==
  /\ rail[i].temp
  /\ rail' = [rail EXCEPT ![i].temp = FALSE]
  /\ UNCHANGED <<active, opens, reopens, backend, adopted>>

SetActive(i) ==
  /\ active' = rail[i].id
  /\ UNCHANGED <<rail, opens, reopens, backend, adopted>>

SetWorkspaceReadOnly(i) ==
  /\ rail' = [rail EXCEPT ![i].readOnly = ~@]
  /\ UNCHANGED <<active, opens, reopens, backend, adopted>>

-----------------------------------------------------------------------------
\* Handles are released by whoever leaves r' without a user; the others stay.
Release(handles, rest) ==
  backend' = [h \in Handle |->
    IF h \in handles /\ Users(rest, h) = {} THEN "closed" ELSE backend[h]]

\* A parent takes its temporary children with it.
Dropped(i) ==
  {rail[k] : k \in {k \in DOMAIN rail :
     k = i \/ (rail[k].parent = rail[i].id /\ rail[k].temp)}}

\* The kept ones move to the top level.
Remaining(i) ==
  LET rest == OnlyIn(rail, ToSet(rail) \ Dropped(i))
  IN  [k \in DOMAIN rest |->
         IF rest[k].parent = rail[i].id THEN [rest[k] EXCEPT !.parent = NoId] ELSE rest[k]]

\* Focus moves, to whoever takes the closed one's place, only if it was lost.
FocusAfter(i, rest) ==
  IF active \notin {w.id : w \in Dropped(i)} THEN active
  ELSE IF rest = <<>> THEN NoId
  ELSE rest[IF i <= Len(rest) THEN i ELSE Len(rest)].id

\* Bug variant: the connection goes with the workspace, whoever else is on it.
CloseWithItsHandle(i) ==
  /\ rail' = Remaining(i)
  /\ backend' = [backend EXCEPT ![rail[i].handle] = "closed"]
  /\ active' = FocusAfter(i, Remaining(i))
  /\ UNCHANGED <<opens, reopens, adopted>>

\* closeWorkspace, from any tile of the rail.
Close(i) ==
  /\ rail' = Remaining(i)
  /\ Release({w.handle : w \in Dropped(i)}, Remaining(i))
  /\ active' = FocusAfter(i, Remaining(i))
  /\ UNCHANGED <<opens, reopens, adopted>>

-----------------------------------------------------------------------------
\* The user picks another cluster node, or re-opens the file: both remember the
\* workspace, the re-open also the handle it will have to close.
BeginReopen ==
  /\ Len(reopens) < MaxReopens
  /\ \E i \in DOMAIN rail :
       /\ rail[i].id = active
       /\ reopens' = Append(reopens,
            [id |-> active, previous |-> rail[i].handle, file |-> rail[i].file])
  /\ UNCHANGED <<rail, active, opens, backend, adopted>>

\* setWorkspaceHandle, with the connection to the node: the workspace is moved to
\* it if it is still there, and the handle it leaves is released with its last user.
SwitchNode ==
  \E n \in DOMAIN reopens, h \in Handle, readOnly \in BOOLEAN :
    LET moved == [i \in DOMAIN rail |->
                    IF rail[i].id = reopens[n].id THEN [rail[i] EXCEPT !.handle = h] ELSE rail[i]]
        left == {rail[i].handle : i \in {i \in DOMAIN rail : rail[i].id = reopens[n].id}}
    IN  /\ ~reopens[n].file /\ IsFirst(h)
        /\ rail' = moved
        /\ backend' = [g \in Handle |->
             IF g = h THEN Mode(readOnly)
             ELSE IF g \in left /\ Users(moved, g) = {} THEN "closed" ELSE backend[g]]
        /\ adopted' = IF left = {} THEN adopted ELSE adopted \cup {h}
        /\ reopens' = RemoveAt(reopens, n)
        /\ UNCHANGED <<active, opens>>

\* replaceWorkspaceFile, with the new scratch database; then the handle that was
\* the workspace's when the re-open began is closed.
ReplaceFile ==
  \E n \in DOMAIN reopens, h \in Handle :
    /\ reopens[n].file /\ IsFirst(h)
    /\ rail' = [i \in DOMAIN rail |->
         IF rail[i].id = reopens[n].id
         THEN [rail[i] EXCEPT !.handle = h, !.readOnly = FALSE] ELSE rail[i]]
    /\ backend' = [backend EXCEPT ![h] = "writable", ![reopens[n].previous] = "closed"]
    /\ reopens' = RemoveAt(reopens, n)
    /\ UNCHANGED <<active, opens, adopted>>

\* The connection fails: the workspace keeps the handle it has.
ReopenFails ==
  /\ \E n \in DOMAIN reopens : reopens' = RemoveAt(reopens, n)
  /\ UNCHANGED <<rail, active, opens, backend, adopted>>

-----------------------------------------------------------------------------
StoreNext ==
  \/ OpenWorkspace \/ OpenFileWorkspace
  \/ \E scope \in Scope : OpenSchema(scope)
  \/ \E i \in DOMAIN rail : Keep(i) \/ SetActive(i) \/ SetWorkspaceReadOnly(i) \/ Close(i)
  \/ BeginReopen \/ SwitchNode \/ ReplaceFile \/ ReopenFails

StoreSpec == Init /\ [][StoreNext]_store

-----------------------------------------------------------------------------
(* Properties.                                                             *)

\* activeWorkspaceId "always references an existing workspace (or is null)", and
\* is null only on an empty rail, whichever workspaces a close takes with it.
ActiveExists ==
  IF rail = <<>> THEN active = NoId ELSE \E i \in DOMAIN rail : rail[i].id = active

\* "The rail always reads parent, child, child, ..., next parent": ids are unique,
\* a child directly follows its parent or a sibling, a parent is never a child.
RailGrouped ==
  \A i \in DOMAIN rail :
    /\ \A j \in DOMAIN rail : rail[i].id = rail[j].id => i = j
    /\ rail[i].parent # NoId =>
         /\ i > 1
         /\ rail[i - 1].parent = rail[i].parent
            \/ (rail[i - 1].id = rail[i].parent /\ rail[i - 1].parent = NoId)

\* The reference count: no workspace is cut off from its connection by what
\* another one does, and a database connection is released with its last user.
HandleLivesAsLongAsItsUsers ==
  /\ \A i \in DOMAIN rail : backend[rail[i].handle] \in {"locked", "writable"}
  /\ \A h \in adopted : Users(rail, h) # {} \/ backend[h] = "closed"
=============================================================================
