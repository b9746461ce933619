------------------------------ MODULE RailProofs ------------------------------
(***************************************************************************)
(* Proofs about the workspace rail and the hook that follows it, for any   *)
(* handles, schemas, calls in flight and lengths of the rail, and about    *)
(* the connection form, for any texts, URLs and entries.                   *)
(*                                                                         *)
(* What a release may close and what a child may follow depends on where   *)
(* every workspace came from, so RailInv speaks of origins: the number an  *)
(* id begins with, which a connection or a file keeps for life.            *)
(***************************************************************************)
EXTENDS MCRail, SequenceFacts

-----------------------------------------------------------------------------
\* Ids are unique, and a child is in the run of children that directly follows its parent.
Grouped(r) ==
  /\ \A i, j \in DOMAIN r : r[i].id = r[j].id => i = j
  /\ \A i \in DOMAIN r : r[i].parent # NoId =>
       \E p \in DOMAIN r :
         /\ p < i /\ r[p].id = r[i].parent /\ r[p].parent = NoId
         /\ \A k \in (p + 1)..i : r[k].parent = r[i].parent

\* Every id begins with the number of an opening that was, a child's with its parent's.
OriginKnown(id) == Len(id) > 0 /\ id[1] \in 1..opens

OriginsKnown ==
  /\ \A i \in DOMAIN rail : /\ OriginKnown(rail[i].id)
                            /\ rail[i].parent # NoId => rail[i].parent[1] = rail[i].id[1]
  /\ \A n \in DOMAIN reopens : OriginKnown(reopens[n].id)

\* One origin is a file for all that come from it, or a database for all; a file's handle
\* is its own, also the one that a re-open will close.
FilesApart ==
  /\ \A i, j \in DOMAIN rail : rail[i].id[1] = rail[j].id[1] => rail[i].file = rail[j].file
  /\ \A i \in DOMAIN rail, n \in DOMAIN reopens :
       rail[i].id[1] = reopens[n].id[1] => rail[i].file = reopens[n].file
  /\ \A i, j \in DOMAIN rail : rail[i].file /\ rail[i].handle = rail[j].handle => i = j
  /\ \A i \in DOMAIN rail : rail[i].file => rail[i].handle \notin adopted
  /\ \A n \in DOMAIN reopens : reopens[n].file =>
       /\ backend[reopens[n].previous] # "unopened"
       /\ reopens[n].previous \notin adopted
       /\ \A i \in DOMAIN rail :
            rail[i].handle = reopens[n].previous => rail[i].id = reopens[n].id

AdoptedOpened == \A h \in adopted : backend[h] # "unopened"

RailInv ==
  /\ TypeOK /\ Grouped(rail) /\ OriginsKnown /\ FilesApart
  /\ ActiveExists /\ HandleLivesAsLongAsItsUsers /\ AdoptedOpened

-----------------------------------------------------------------------------
(* Shapes of the rail.                                                     *)

\* Workspaces that change in place leave the rail in groups.
LEMMA SameShape ==
  ASSUME NEW r, NEW q, Grouped(r), DOMAIN q = DOMAIN r,
         \A i \in DOMAIN r : q[i].id = r[i].id /\ q[i].parent = r[i].parent,
         DOMAIN r \subseteq Nat, \A i, j \in DOMAIN r : \A k \in i..j : k \in DOMAIN r
  PROVE  Grouped(q)
<1>1. ASSUME NEW i \in DOMAIN q, q[i].parent # NoId
      PROVE  \E p \in DOMAIN q :
               /\ p < i /\ q[p].id = q[i].parent /\ q[p].parent = NoId
               /\ \A k \in (p + 1)..i : q[k].parent = q[i].parent
  <2>1. PICK p \in DOMAIN r :
          /\ p < i /\ r[p].id = r[i].parent /\ r[p].parent = NoId
          /\ \A k \in (p + 1)..i : r[k].parent = r[i].parent
    BY <1>1 DEF Grouped
  <2>2. \A k \in (p + 1)..i : k \in DOMAIN r
    OBVIOUS
  <2>3. QED
    BY <2>1, <2>2
<1>2. QED
  BY <1>1 DEF Grouped

\* The groups of a rail, as the comment of the store has it.
LEMMA GroupedIsRailGrouped ==
  ASSUME rail \in Seq(Workspace), Grouped(rail)
  PROVE  RailGrouped
<1> SUFFICES ASSUME NEW i \in DOMAIN rail, rail[i].parent # NoId
             PROVE  /\ i > 1
                    /\ \/ rail[i - 1].parent = rail[i].parent
                       \/ rail[i - 1].id = rail[i].parent /\ rail[i - 1].parent = NoId
  BY DEF RailGrouped, Grouped
<1>1. PICK p \in DOMAIN rail :
        /\ p < i /\ rail[p].id = rail[i].parent /\ rail[p].parent = NoId
        /\ \A k \in (p + 1)..i : rail[k].parent = rail[i].parent
  BY DEF Grouped
<1>2. i \in Nat /\ p \in Nat /\ p >= 1
  OBVIOUS
<1>3. QED
  BY <1>1, <1>2

\* The positions of a sequence are an interval of numbers.
LEMMA Positions ==
  ASSUME NEW S, NEW r \in Seq(S)
  PROVE  /\ Len(r) \in Nat /\ DOMAIN r = 1..Len(r) /\ DOMAIN r \subseteq Nat
         /\ \A i, j \in DOMAIN r : \A k \in i..j : k \in DOMAIN r
         /\ r = <<>> <=> Len(r) = 0
         /\ \A i \in DOMAIN r : r[i] \in S
  OBVIOUS

LEMMA RailFacts ==
  ASSUME TypeOK
  PROVE  /\ rail \in Seq(Workspace) /\ Len(rail) \in Nat /\ DOMAIN rail = 1..Len(rail)
         /\ \A i \in DOMAIN rail :
              /\ rail[i] \in Workspace /\ rail[i].handle \in Handle /\ rail[i].id \in Id
              /\ rail[i].parent \in Id /\ rail[i].file \in BOOLEAN
         /\ reopens \in Seq(Reopen) /\ Len(reopens) \in Nat /\ DOMAIN reopens = 1..Len(reopens)
         /\ \A n \in DOMAIN reopens :
              /\ reopens[n] \in Reopen /\ reopens[n].id \in Id
              /\ reopens[n].previous \in Handle /\ reopens[n].file \in BOOLEAN
<1>1. rail \in Seq(Workspace) /\ reopens \in Seq(Reopen)
  BY DEF TypeOK
<1>2. \A i \in DOMAIN rail : rail[i] \in Workspace
  BY <1>1, Positions
<1>3. \A n \in DOMAIN reopens : reopens[n] \in Reopen
  BY <1>1, Positions
<1>4. QED
  BY <1>1, <1>2, <1>3, Positions DEF Workspace, Reopen

-----------------------------------------------------------------------------
(* The actions.                                                            *)

\* What does not change who is on which handle changes nothing that matters here.
LEMMA InPlaceKeeps ==
  ASSUME RailInv, rail' \in Seq(Workspace), Len(rail') = Len(rail),
         \A i \in DOMAIN rail : /\ rail'[i].id = rail[i].id /\ rail'[i].parent = rail[i].parent
                                /\ rail'[i].file = rail[i].file /\ rail'[i].handle = rail[i].handle,
         active' = active \/ \E i \in DOMAIN rail : active' = rail[i].id,
         UNCHANGED <<opens, reopens, backend, adopted>>
  PROVE  RailInv'
<1>1. rail \in Seq(Workspace) /\ DOMAIN rail' = DOMAIN rail
  BY DEF RailInv, TypeOK
<1>2. Grouped(rail')
  BY <1>1, Positions, SameShape DEF RailInv
<1>3. OriginsKnown' /\ FilesApart' /\ AdoptedOpened'
  <2>1. OriginsKnown' /\ AdoptedOpened'
    BY <1>1 DEF RailInv, OriginsKnown, OriginKnown, AdoptedOpened
  <2>2. FilesApart
    BY DEF RailInv
  <2>3. FilesApart'
    BY <1>1, <2>2 DEF FilesApart
  <2>4. QED
    BY <2>1, <2>3
<1>4. \A h : Users(rail', h) = Users(rail, h)
  BY <1>1 DEF Users
<1>5. HandleLivesAsLongAsItsUsers'
  BY <1>1, <1>4 DEF RailInv, HandleLivesAsLongAsItsUsers
<1>6. ActiveExists'
  <2>1. rail' = <<>> <=> rail = <<>>
    BY <1>1, Positions
  <2>2. \A i \in DOMAIN rail : rail # <<>>
    BY <1>1, Positions
  <2>3. QED
    BY <1>1, <2>1, <2>2 DEF RailInv, ActiveExists
<1>7. TypeOK'
  <2>1. \A i \in DOMAIN rail : rail[i].id \in Id
    BY RailFacts DEF RailInv
  <2>2. QED
    BY <2>1 DEF RailInv, TypeOK
<1>8. QED
  BY <1>2, <1>3, <1>5, <1>6, <1>7 DEF RailInv

\* keepWorkspace, setActive, setReadOnly.
LEMMA TileKeeps ==
  ASSUME RailInv, NEW i \in DOMAIN rail, Keep(i) \/ SetActive(i) \/ SetWorkspaceReadOnly(i)
  PROVE  RailInv'
<1>1. rail \in Seq(Workspace) /\ rail[i] \in Workspace
  BY RailFacts DEF RailInv
<1>2. CASE Keep(i)
  <2>1. [rail[i] EXCEPT !.temp = FALSE] \in Workspace
    BY <1>1 DEF Workspace
  <2>2. rail' \in Seq(Workspace) /\ Len(rail') = Len(rail)
    BY <1>1, <1>2, <2>1 DEF Keep
  <2>3. QED
    BY <1>1, <1>2, <2>2, InPlaceKeeps DEF Keep, Workspace
<1>3. CASE SetActive(i)
  BY <1>1, <1>3, InPlaceKeeps DEF SetActive
<1>4. CASE SetWorkspaceReadOnly(i)
  <2>1. [rail[i] EXCEPT !.readOnly = ~@] \in Workspace
    BY <1>1 DEF Workspace
  <2>2. rail' \in Seq(Workspace) /\ Len(rail') = Len(rail)
    BY <1>1, <1>4, <2>1 DEF SetWorkspaceReadOnly
  <2>3. QED
    BY <1>1, <1>4, <2>2, InPlaceKeeps DEF SetWorkspaceReadOnly, Workspace
<1>5. QED
  BY <1>2, <1>3, <1>4

\* The mode of an open handle changes to the other one, or a handle nobody is on is closed.
LEMMA ModeKeeps ==
  ASSUME RailInv, NEW h \in Handle, NEW m \in {"locked", "writable"},
         backend[h] \notin {"unopened", "closed"}, backend' = [backend EXCEPT ![h] = m],
         UNCHANGED <<rail, active, opens, reopens, adopted>>
  PROVE  RailInv'
<1>1. backend \in [Handle -> BackendState] /\ adopted \subseteq Handle /\ rail \in Seq(Workspace)
      /\ reopens \in Seq(Reopen)
  BY DEF RailInv, TypeOK
<1>2. TypeOK'
  BY <1>1 DEF RailInv, TypeOK, BackendState
<1>3. \A n \in DOMAIN reopens : reopens[n].previous \in Handle
  BY RailFacts DEF RailInv
<1>4. \A i \in DOMAIN rail : rail[i].handle \in Handle
  BY RailFacts DEF RailInv
<1>5. OriginsKnown' /\ AdoptedOpened' /\ ActiveExists'
  BY <1>1 DEF RailInv, OriginsKnown, OriginKnown, AdoptedOpened, ActiveExists
<1>6. FilesApart'
  BY <1>1, <1>3 DEF RailInv, FilesApart
<1>7. HandleLivesAsLongAsItsUsers'
  BY <1>1, <1>4 DEF RailInv, HandleLivesAsLongAsItsUsers, Users
<1>8. QED
  BY <1>2, <1>5, <1>6, <1>7 DEF RailInv

\* A switch or a re-open that goes away takes nothing with it.
LEMMA Forgotten ==
  ASSUME TypeOK, NEW n \in DOMAIN reopens, reopens' = RemoveAt(reopens, n)
  PROVE  /\ reopens' \in Seq(Reopen)
         /\ \A m \in DOMAIN reopens' : \E k \in DOMAIN reopens : reopens'[m] = reopens[k]
<1>1. reopens \in Seq(Reopen) /\ Len(reopens) \in Nat /\ n \in 1..Len(reopens)
  BY RailFacts
<1>2. /\ reopens' \in Seq(Reopen) /\ Len(reopens') = Len(reopens) - 1
      /\ \A m \in 1..(Len(reopens) - 1) : reopens'[m] = IF m < n THEN reopens[m] ELSE reopens[m + 1]
  BY <1>1, RemoveAtPlaces
<1>3. ASSUME NEW m \in DOMAIN reopens' PROVE \E k \in DOMAIN reopens : reopens'[m] = reopens[k]
  <2>1. m \in 1..(Len(reopens) - 1)
    BY <1>1, <1>2, Positions
  <2>2. m \in DOMAIN reopens /\ m + 1 \in DOMAIN reopens
    BY <1>1, <2>1
  <2>3. QED
    BY <1>2, <2>1, <2>2
<1>4. QED
  BY <1>2, <1>3

LEMMA ReopenFailsKeeps == ASSUME RailInv, ReopenFails PROVE RailInv'
<1>1. TypeOK
  BY DEF RailInv
<1>2. PICK n \in DOMAIN reopens : reopens' = RemoveAt(reopens, n)
  BY DEF ReopenFails
<1>3. /\ reopens' \in Seq(Reopen)
      /\ \A m \in DOMAIN reopens' : \E k \in DOMAIN reopens : reopens'[m] = reopens[k]
  BY <1>1, <1>2, Forgotten
<1>4. UNCHANGED <<rail, active, opens, backend, adopted>>
  BY DEF ReopenFails
<1>5. TypeOK' /\ Grouped(rail)' /\ ActiveExists' /\ HandleLivesAsLongAsItsUsers' /\ AdoptedOpened'
  BY <1>3, <1>4 DEF RailInv, TypeOK, ActiveExists, HandleLivesAsLongAsItsUsers, AdoptedOpened
<1>6. OriginsKnown' /\ FilesApart'
  BY <1>3, <1>4 DEF RailInv, OriginsKnown, OriginKnown, FilesApart
<1>7. QED
  BY <1>4, <1>5, <1>6 DEF RailInv

LEMMA BeginReopenKeeps == ASSUME RailInv, BeginReopen PROVE RailInv'
<1>1. TypeOK
  BY DEF RailInv
<1>2. PICK i \in DOMAIN rail :
        /\ rail[i].id = active
        /\ reopens' = Append(reopens,
                        [id |-> active, previous |-> rail[i].handle, file |-> rail[i].file])
  BY DEF BeginReopen
<1> DEFINE new == [id |-> active, previous |-> rail[i].handle, file |-> rail[i].file]
<1>3. new \in Reopen /\ new.id = rail[i].id /\ new.previous = rail[i].handle /\ new.file = rail[i].file
  BY <1>1, <1>2, RailFacts DEF Reopen
<1> HIDE DEF new
<1>4. /\ reopens' \in Seq(Reopen)
      /\ \A n \in DOMAIN reopens' : reopens'[n] = new \/ \E k \in DOMAIN reopens : reopens'[n] = reopens[k]
  <2>1. reopens' = Append(reopens, new)
    BY <1>2 DEF new
  <2>2. QED
    BY <1>1, <1>3, <2>1, RailFacts
<1>5. UNCHANGED <<rail, active, opens, backend, adopted>>
  BY DEF BeginReopen
<1>6. TypeOK' /\ Grouped(rail)' /\ ActiveExists' /\ HandleLivesAsLongAsItsUsers' /\ AdoptedOpened'
  BY <1>4, <1>5 DEF RailInv, TypeOK, ActiveExists, HandleLivesAsLongAsItsUsers, AdoptedOpened
<1>7. OriginsKnown'
  BY <1>3, <1>4, <1>5 DEF RailInv, OriginsKnown, OriginKnown
<1>8. FilesApart'
  <2>1. backend[new.previous] # "unopened"
    BY <1>3 DEF RailInv, HandleLivesAsLongAsItsUsers
  <2>2. new.file => new.previous \notin adopted
    BY <1>3 DEF RailInv, FilesApart
  <2>3. \A j \in DOMAIN rail : new.file /\ rail[j].handle = new.previous => rail[j].id = new.id
    BY <1>3 DEF RailInv, FilesApart
  <2>4. \A j \in DOMAIN rail : rail[j].id[1] = new.id[1] => rail[j].file = new.file
    BY <1>3 DEF RailInv, FilesApart
  <2>5. QED
    BY <1>4, <1>5, <2>1, <2>2, <2>3, <2>4 DEF RailInv, FilesApart
<1>9. QED
  BY <1>5, <1>6, <1>7, <1>8 DEF RailInv

\* A workspace is moved to another handle, and so is nothing else.
LEMMA SwitchNodeKeeps == ASSUME RailInv, SwitchNode PROVE RailInv'
<1>1. TypeOK /\ Grouped(rail) /\ OriginsKnown /\ FilesApart /\ ActiveExists
      /\ HandleLivesAsLongAsItsUsers /\ AdoptedOpened
  BY DEF RailInv
<1>2. PICK n \in DOMAIN reopens, h \in Handle, readOnly \in BOOLEAN :
        LET left == {rail[i].handle : i \in {i \in DOMAIN rail : rail[i].id = reopens[n].id}}
        IN  /\ ~reopens[n].file /\ IsFirst(h)
            /\ rail' = [i \in DOMAIN rail |->
                 IF rail[i].id = reopens[n].id THEN [rail[i] EXCEPT !.handle = h] ELSE rail[i]]
            /\ backend' = [g \in Handle |->
                 IF g = h THEN Mode(readOnly)
                 ELSE IF g \in left /\ Users(rail', g) = {} THEN "closed" ELSE backend[g]]
            /\ adopted' = IF left = {} THEN adopted ELSE adopted \cup {h}
            /\ reopens' = RemoveAt(reopens, n)
            /\ UNCHANGED <<active, opens>>
  BY ZenonT(30) DEF SwitchNode
<1> DEFINE Moved(i) == rail[i].id = reopens[n].id
           left == {rail[i].handle : i \in {i \in DOMAIN rail : Moved(i)}}
<1>3. /\ reopens' \in Seq(Reopen)
      /\ \A m \in DOMAIN reopens' : \E k \in DOMAIN reopens : reopens'[m] = reopens[k]
  BY <1>1, <1>2, Forgotten
<1>4. /\ DOMAIN rail' = DOMAIN rail /\ rail' \in Seq(Workspace)
      /\ \A i \in DOMAIN rail :
           /\ rail'[i].id = rail[i].id /\ rail'[i].parent = rail[i].parent /\ rail'[i].file = rail[i].file
           /\ rail'[i].handle = IF Moved(i) THEN h ELSE rail[i].handle
  <2>1. \A i \in DOMAIN rail : [rail[i] EXCEPT !.handle = h] \in Workspace
    BY <1>1, RailFacts DEF Workspace
  <2>2. \A i \in DOMAIN rail : rail'[i] \in Workspace
    BY <1>1, <1>2, <2>1, RailFacts
  <2>3. rail' \in Seq(Workspace)
    BY <1>1, <1>2, <2>2, RailFacts
  <2>4. QED
    BY <1>1, <1>2, <2>3, RailFacts DEF Workspace
<1>5. /\ backend[h] = "unopened" /\ h \notin adopted
      /\ \A i \in DOMAIN rail : rail[i].handle # h /\ (Moved(i) => ~rail[i].file)
  <2>1. \A i \in DOMAIN rail : backend[rail[i].handle] # "unopened"
    BY <1>1 DEF HandleLivesAsLongAsItsUsers
  <2>2. \A i \in DOMAIN rail : Moved(i) => rail[i].file = reopens[n].file
    BY <1>1 DEF FilesApart
  <2>3. QED
    BY <1>1, <1>2, <2>1, <2>2 DEF IsFirst, AdoptedOpened
<1>6. /\ backend' \in [Handle -> BackendState] /\ backend'[h] \in {"locked", "writable"}
      /\ adopted' \subseteq adopted \cup {h} /\ adopted' \subseteq Handle
      /\ \A g \in Handle \ {h} :
           /\ backend'[g] \in {backend[g], "closed"}
           /\ g \in left /\ Users(rail', g) = {} => backend'[g] = "closed"
           /\ Users(rail', g) # {} => backend'[g] = backend[g]
  BY <1>1, <1>2 DEF TypeOK, BackendState, Mode
<1> HIDE DEF left
<1>7. TypeOK'
  BY <1>1, <1>2, <1>3, <1>4, <1>6 DEF TypeOK
<1>8. Grouped(rail')
  BY <1>1, <1>4, RailFacts, Positions, SameShape
<1>9. OriginsKnown'
  BY <1>1, <1>2, <1>3, <1>4 DEF OriginsKnown, OriginKnown
<1>10. FilesApart'
  <2>1. \A i, j \in DOMAIN rail : rail[i].id[1] = rail[j].id[1] => rail[i].file = rail[j].file
    BY <1>1 DEF FilesApart
  <2>2. \A i \in DOMAIN rail, m \in DOMAIN reopens :
          rail[i].id[1] = reopens[m].id[1] => rail[i].file = reopens[m].file
    BY <1>1 DEF FilesApart
  <2>3. \A i, j \in DOMAIN rail : rail'[i].file /\ rail'[i].handle = rail'[j].handle => i = j
    BY <1>1, <1>4, <1>5 DEF FilesApart
  <2>4. \A i \in DOMAIN rail : rail'[i].file => rail'[i].handle \notin adopted'
    BY <1>1, <1>4, <1>5, <1>6 DEF FilesApart
  <2>5. ASSUME NEW m \in DOMAIN reopens, reopens[m].file
        PROVE  /\ backend'[reopens[m].previous] # "unopened"
               /\ reopens[m].previous \notin adopted'
               /\ \A i \in DOMAIN rail :
                    rail'[i].handle = reopens[m].previous => rail'[i].id = reopens[m].id
    <3>1. /\ reopens[m].previous \in Handle \ {h} /\ backend[reopens[m].previous] # "unopened"
          /\ reopens[m].previous \notin adopted
      BY <1>1, <1>5, <2>5, RailFacts DEF FilesApart
    <3>2. QED
      BY <1>1, <1>4, <1>6, <2>5, <3>1 DEF FilesApart
  <2>6. QED
    BY <1>3, <1>4, <2>1, <2>2, <2>3, <2>4, <2>5 DEF FilesApart
<1>11. ActiveExists'
  <2>1. (rail' = <<>>) <=> (rail = <<>>)
    BY <1>1, <1>4, RailFacts, Positions
  <2>2. QED
    BY <1>1, <1>2, <1>4, <2>1 DEF ActiveExists
<1>12. HandleLivesAsLongAsItsUsers'
  <2>1. ASSUME NEW i \in DOMAIN rail PROVE backend'[rail'[i].handle] \in {"locked", "writable"}
    <3>1. CASE Moved(i)
      BY <1>4, <1>6, <3>1
    <3>2. CASE ~Moved(i)
      <4>1. rail'[i].handle = rail[i].handle /\ rail[i].handle \in Handle \ {h}
        BY <1>1, <1>4, <1>5, <3>2, RailFacts
      <4>2. i \in Users(rail', rail[i].handle)
        BY <1>4, <4>1 DEF Users
      <4>3. QED
        BY <1>1, <1>6, <4>1, <4>2 DEF HandleLivesAsLongAsItsUsers
    <3>3. QED
      BY <3>1, <3>2
  <2>2. ASSUME NEW g \in adopted' PROVE Users(rail', g) # {} \/ backend'[g] = "closed"
    <3>1. CASE g = h
      <4>1. left # {}
        BY <1>2, <1>5, <3>1 DEF left
      <4>2. PICK i \in DOMAIN rail : Moved(i)
        BY <4>1 DEF left
      <4>3. QED
        BY <1>4, <3>1, <4>2 DEF Users
    <3>2. CASE g # h
      <4>1. g \in adopted /\ g \in Handle \ {h}
        BY <1>1, <1>6, <3>2 DEF TypeOK
      <4>2. CASE backend[g] = "closed"
        BY <1>6, <4>1, <4>2
      <4>3. CASE Users(rail, g) # {}
        <5>1. PICK i \in DOMAIN rail : rail[i].handle = g
          BY <4>3 DEF Users
        <5>2. Moved(i) => g \in left
          BY <5>1 DEF left
        <5>3. ~Moved(i) => Users(rail', g) # {}
          BY <1>4, <5>1 DEF Users
        <5>4. QED
          BY <1>6, <4>1, <5>2, <5>3
      <4>4. QED
        BY <1>1, <4>1, <4>2, <4>3 DEF HandleLivesAsLongAsItsUsers
    <3>3. QED
      BY <3>1, <3>2
  <2>3. QED
    BY <1>4, <2>1, <2>2 DEF HandleLivesAsLongAsItsUsers
<1>13. AdoptedOpened'
  BY <1>1, <1>6 DEF AdoptedOpened, TypeOK
<1>14. QED
  BY <1>7, <1>8, <1>9, <1>10, <1>11, <1>12, <1>13 DEF RailInv

\* A file is on its new scratch database before the handle it was on is closed.
LEMMA ReplaceFileKeeps == ASSUME RailInv, ReplaceFile PROVE RailInv'
<1>1. TypeOK /\ Grouped(rail) /\ OriginsKnown /\ FilesApart /\ ActiveExists
      /\ HandleLivesAsLongAsItsUsers /\ AdoptedOpened
  BY DEF RailInv
<1>2. PICK n \in DOMAIN reopens, h \in Handle :
        /\ reopens[n].file /\ IsFirst(h)
        /\ rail' = [i \in DOMAIN rail |->
             IF rail[i].id = reopens[n].id
             THEN [rail[i] EXCEPT !.handle = h, !.readOnly = FALSE] ELSE rail[i]]
        /\ backend' = [backend EXCEPT ![h] = "writable", ![reopens[n].previous] = "closed"]
        /\ reopens' = RemoveAt(reopens, n)
        /\ UNCHANGED <<active, opens, adopted>>
  BY DEF ReplaceFile
<1> DEFINE Moved(i) == rail[i].id = reopens[n].id
           previous == reopens[n].previous
<1>3. /\ reopens' \in Seq(Reopen)
      /\ \A m \in DOMAIN reopens' : \E k \in DOMAIN reopens : reopens'[m] = reopens[k]
  BY <1>1, <1>2, Forgotten
<1>4. /\ DOMAIN rail' = DOMAIN rail /\ rail' \in Seq(Workspace)
      /\ \A i \in DOMAIN rail :
           /\ rail'[i].id = rail[i].id /\ rail'[i].parent = rail[i].parent /\ rail'[i].file = rail[i].file
           /\ rail'[i].handle = IF Moved(i) THEN h ELSE rail[i].handle
  <2>1. \A i \in DOMAIN rail : [rail[i] EXCEPT !.handle = h, !.readOnly = FALSE] \in Workspace
    BY <1>1, RailFacts DEF Workspace
  <2>2. \A i \in DOMAIN rail : rail'[i] \in Workspace
    BY <1>1, <1>2, <2>1, RailFacts
  <2>3. rail' \in Seq(Workspace)
    <3>1. DOMAIN rail' = 1..Len(rail) /\ Len(rail) \in Nat /\ rail' = [i \in 1..Len(rail) |-> rail'[i]]
      BY <1>1, <1>2, RailFacts
    <3>2. \A i \in 1..Len(rail) : rail'[i] \in Workspace
      BY <1>2, <2>2, <3>1
    <3>3. QED
      BY <3>1, <3>2
  <2>4. QED
    BY <1>1, <1>2, <2>3, RailFacts DEF Workspace
<1>5. /\ backend[h] = "unopened" /\ h \notin adopted /\ previous # h /\ previous \in Handle \ adopted
      /\ \A i \in DOMAIN rail :
           /\ rail[i].handle # h /\ (Moved(i) => rail[i].file)
           /\ rail[i].handle = previous => Moved(i)
  <2>1. \A i \in DOMAIN rail : backend[rail[i].handle] # "unopened"
    BY <1>1 DEF HandleLivesAsLongAsItsUsers
  <2>2. \A i \in DOMAIN rail : Moved(i) => rail[i].file = reopens[n].file
    BY <1>1 DEF FilesApart
  <2>3. backend[previous] # "unopened" /\ previous \in Handle \ adopted
    BY <1>1, <1>2, RailFacts DEF FilesApart
  <2>4. \A i \in DOMAIN rail : rail[i].handle = previous => Moved(i)
    BY <1>1, <1>2 DEF FilesApart
  <2>5. QED
    BY <1>1, <1>2, <2>1, <2>2, <2>3, <2>4 DEF IsFirst, AdoptedOpened
<1>6. /\ backend' \in [Handle -> BackendState] /\ backend'[h] = "writable" /\ backend'[previous] = "closed"
      /\ \A g \in Handle \ {h, previous} : backend'[g] = backend[g]
  BY <1>1, <1>2, <1>5 DEF TypeOK, BackendState
<1>7. TypeOK'
  BY <1>1, <1>2, <1>3, <1>4, <1>6 DEF TypeOK
<1>8. Grouped(rail')
  BY <1>1, <1>4, RailFacts, Positions, SameShape
<1>9. OriginsKnown'
  <2>1. opens' = opens
    BY <1>2
  <2>2. QED
    BY <1>1, <1>3, <1>4, <2>1 DEF OriginsKnown, OriginKnown
<1>10. FilesApart'
  <2>1. \A i, j \in DOMAIN rail : rail[i].id[1] = rail[j].id[1] => rail[i].file = rail[j].file
    BY <1>1 DEF FilesApart
  <2>2. \A i \in DOMAIN rail, m \in DOMAIN reopens :
          rail[i].id[1] = reopens[m].id[1] => rail[i].file = reopens[m].file
    BY <1>1 DEF FilesApart
  <2>3. \A i, j \in DOMAIN rail : rail'[i].file /\ rail'[i].handle = rail'[j].handle => i = j
    <3>1. \A i, j \in DOMAIN rail : rail[i].file /\ rail[i].handle = rail[j].handle => i = j
      BY <1>1 DEF FilesApart
    <3>2. \A i, j \in DOMAIN rail : Moved(i) /\ Moved(j) => i = j
      BY <1>1 DEF Grouped
    <3>3. QED
      BY <1>4, <1>5, <3>1, <3>2
  <2>4. \A i \in DOMAIN rail : rail'[i].file => rail'[i].handle \notin adopted'
    <3>1. adopted' = adopted /\ \A i \in DOMAIN rail : rail[i].file => rail[i].handle \notin adopted
      BY <1>1, <1>2 DEF FilesApart
    <3>2. QED
      BY <1>4, <1>5, <3>1
  <2>5. ASSUME NEW m \in DOMAIN reopens, reopens[m].file
        PROVE  /\ backend'[reopens[m].previous] # "unopened"
               /\ reopens[m].previous \notin adopted'
               /\ \A i \in DOMAIN rail :
                    rail'[i].handle = reopens[m].previous => rail'[i].id = reopens[m].id
    <3>1. /\ reopens[m].previous \in Handle \ {h} /\ backend[reopens[m].previous] # "unopened"
          /\ reopens[m].previous \notin adopted
      BY <1>1, <1>5, <2>5, RailFacts DEF FilesApart
    <3>2. adopted' = adopted
      BY <1>2
    <3>3. \A i \in DOMAIN rail : rail[i].handle = reopens[m].previous => rail[i].id = reopens[m].id
      BY <1>1, <2>5 DEF FilesApart
    <3>4. QED
      BY <1>4, <1>6, <3>1, <3>2, <3>3
  <2>6. QED
    BY SMTT(30), <1>3, <1>4, <2>1, <2>2, <2>3, <2>4, <2>5 DEF FilesApart
<1>11. ActiveExists'
  <2>1. (rail' = <<>>) <=> (rail = <<>>)
    BY <1>1, <1>4, RailFacts, Positions
  <2>2. QED
    BY ZenonT(30), <1>1, <1>2, <1>4, <2>1 DEF ActiveExists
<1>12. HandleLivesAsLongAsItsUsers'
  <2>1. ASSUME NEW i \in DOMAIN rail PROVE backend'[rail'[i].handle] \in {"locked", "writable"}
    <3>1. CASE Moved(i)
      BY <1>4, <1>6, <3>1
    <3>2. CASE ~Moved(i)
      <4>1. rail'[i].handle = rail[i].handle /\ rail[i].handle \in Handle \ {h, previous}
        BY <1>1, <1>4, <1>5, <3>2, RailFacts
      <4>2. QED
        BY <1>1, <1>6, <4>1 DEF HandleLivesAsLongAsItsUsers
    <3>3. QED
      BY <3>1, <3>2
  <2>2. ASSUME NEW g \in adopted' PROVE Users(rail', g) # {} \/ backend'[g] = "closed"
    <3>1. g \in adopted /\ g \in Handle \ {h, previous} /\ backend'[g] = backend[g]
      BY <1>1, <1>2, <1>5, <1>6 DEF TypeOK
    <3>2. ASSUME NEW i \in DOMAIN rail, rail[i].handle = g PROVE i \in Users(rail', g)
      <4>1. ~rail[i].file
        BY <1>1, <3>1, <3>2 DEF FilesApart
      <4>2. QED
        BY <1>4, <1>5, <3>2, <4>1 DEF Users
    <3>3. QED
      BY <1>1, <3>1, <3>2 DEF HandleLivesAsLongAsItsUsers, Users
  <2>3. QED
    BY <1>4, <2>1, <2>2 DEF HandleLivesAsLongAsItsUsers
<1>13. AdoptedOpened'
  BY <1>1, <1>2, <1>5, <1>6 DEF AdoptedOpened, TypeOK
<1>14. QED
  BY <1>7, <1>8, <1>9, <1>10, <1>11, <1>12, <1>13 DEF RailInv

\* A workspace and its children, put at the end of the rail, are a group of their own.
LEMMA GroupArrives ==
  ASSUME NEW r \in Seq(Workspace), NEW q \in Seq(Workspace), Grouped(r), Len(r) < Len(q),
         \A i \in 1..Len(r) : q[i] = r[i],
         q[Len(r) + 1].parent = NoId,
         \A i \in (Len(r) + 2)..Len(q) : q[i].parent = q[Len(r) + 1].id,
         \A i \in 1..Len(r), k \in (Len(r) + 1)..Len(q) : r[i].id # q[k].id,
         \A i, k \in (Len(r) + 1)..Len(q) : q[i].id = q[k].id => i = k
  PROVE  Grouped(q)
<1> DEFINE n == Len(r)
<1>1. n \in Nat /\ Len(q) \in Nat /\ DOMAIN r = 1..n /\ DOMAIN q = 1..Len(q)
  OBVIOUS
<1>2. \A i \in DOMAIN q : i \in 1..n \/ i \in (n + 1)..Len(q)
  BY <1>1
<1>3. ASSUME NEW i \in DOMAIN q, NEW j \in DOMAIN q, q[i].id = q[j].id PROVE i = j
  <2>1. CASE i \in 1..n /\ j \in 1..n
    BY <1>1, <1>3, <2>1 DEF Grouped
  <2>2. QED
    BY <1>1, <1>2, <1>3, <2>1
<1>4. ASSUME NEW i \in DOMAIN q, q[i].parent # NoId
      PROVE  \E p \in DOMAIN q :
               /\ p < i /\ q[p].id = q[i].parent /\ q[p].parent = NoId
               /\ \A k \in (p + 1)..i : q[k].parent = q[i].parent
  <2>1. CASE i \in 1..n
    <3>1. PICK p \in DOMAIN r :
            /\ p < i /\ r[p].id = r[i].parent /\ r[p].parent = NoId
            /\ \A k \in (p + 1)..i : r[k].parent = r[i].parent
      BY <1>1, <1>4, <2>1 DEF Grouped
    <3>2. \A k \in (p + 1)..i : k \in 1..n
      BY <1>1, <2>1, <3>1
    <3>3. QED
      BY <1>1, <2>1, <3>1, <3>2
  <2>2. CASE i \in (n + 1)..Len(q)
    <3>1. i # n + 1
      BY <1>4
    <3>2. n + 1 \in DOMAIN q /\ n + 1 < i /\ i \in (n + 2)..Len(q)
      BY <1>1, <2>2, <3>1
    <3>3. \A k \in ((n + 1) + 1)..i : k \in (n + 2)..Len(q)
      BY <1>1, <3>2
    <3>4. QED
      BY <3>2, <3>3
  <2>3. QED
    BY <1>2, <2>1, <2>2
<1>5. QED
  BY <1>3, <1>4 DEF Grouped

\* What is opened, with an origin and a handle that nobody had, at the end of the rail.
Arrives(h, readOnly, file) ==
  /\ opens < MaxOpens /\ opens' = opens + 1 /\ reopens' = reopens
  /\ IsFirst(h) /\ backend' = Opened(h, readOnly)
  /\ adopted' = IF file THEN adopted ELSE adopted \cup {h}
  /\ rail' \in Seq(Workspace) /\ Len(rail) < Len(rail') /\ (file => Len(rail') = Len(rail) + 1)
  /\ \A i \in 1..Len(rail) : rail'[i] = rail[i]
  /\ \A i \in (Len(rail) + 1)..Len(rail') :
       /\ rail'[i].handle = h /\ rail'[i].file = file
       /\ Len(rail'[i].id) > 0 /\ rail'[i].id[1] = opens + 1
  /\ rail'[Len(rail) + 1].parent = NoId /\ active' = rail'[Len(rail) + 1].id
  /\ \A i \in (Len(rail) + 2)..Len(rail') : rail'[i].parent = rail'[Len(rail) + 1].id
  /\ \A i, k \in (Len(rail) + 1)..Len(rail') : rail'[i].id = rail'[k].id => i = k

LEMMA ArrivalKeeps ==
  ASSUME RailInv, NEW h \in Handle, NEW readOnly \in BOOLEAN, NEW file \in BOOLEAN,
         Arrives(h, readOnly, file)
  PROVE  RailInv'
<1> DEFINE n == Len(rail)
           New == (n + 1)..Len(rail')
<1>1. TypeOK /\ Grouped(rail) /\ OriginsKnown /\ FilesApart /\ ActiveExists
      /\ HandleLivesAsLongAsItsUsers /\ AdoptedOpened
  BY DEF RailInv
<1>2. /\ rail \in Seq(Workspace) /\ n \in Nat /\ DOMAIN rail = 1..n
      /\ rail' \in Seq(Workspace) /\ rail' # <<>>
      /\ Len(rail') \in Nat /\ DOMAIN rail' = 1..Len(rail') /\ n + 1 \in New
      /\ \A i \in DOMAIN rail' : rail'[i] \in Workspace /\ rail'[i].id \in Id
      /\ opens \in Nat /\ opens + 1 \in 0..MaxOpens
  <2>1. rail \in Seq(Workspace) /\ rail' \in Seq(Workspace) /\ opens \in 0..MaxOpens
        /\ opens < MaxOpens /\ Len(rail) < Len(rail')
    BY <1>1 DEF TypeOK, Arrives
  <2>2. MaxOpens \in Nat
    BY WorkspaceAssumption
  <2>3. opens \in Nat /\ opens + 1 \in 0..MaxOpens
    BY <2>1, <2>2
  <2>4. /\ n \in Nat /\ DOMAIN rail = 1..n /\ Len(rail') \in Nat /\ DOMAIN rail' = 1..Len(rail')
        /\ (rail' = <<>> <=> Len(rail') = 0) /\ \A i \in DOMAIN rail' : rail'[i] \in Workspace
    BY <2>1, Positions
  <2>5. rail' # <<>> /\ n + 1 \in New
    BY <2>1, <2>4
  <2>6. QED
    BY <2>1, <2>3, <2>4, <2>5 DEF Workspace
<1>3. DOMAIN rail' = DOMAIN rail \cup New /\ New \cap DOMAIN rail = {}
  BY <1>2
<1>4. /\ opens' = opens + 1 /\ reopens' = reopens /\ active' = rail'[n + 1].id
      /\ adopted' = (IF file THEN adopted ELSE adopted \cup {h})
      /\ \A i \in New : rail'[i].handle = h /\ rail'[i].file = file
      /\ \A i \in New : Len(rail'[i].id) > 0 /\ rail'[i].id[1] = opens + 1
      /\ \A i \in DOMAIN rail : rail'[i] = rail[i]
  BY <1>2 DEF Arrives
<1>5. /\ \A i \in DOMAIN rail : rail[i].id[1] \in 1..opens /\ Len(rail[i].id) > 0
      /\ \A m \in DOMAIN reopens : reopens[m].id[1] \in 1..opens /\ Len(reopens[m].id) > 0
      /\ \A x \in 1..opens : x # opens + 1 /\ x \in 1..(opens + 1)
      /\ opens + 1 \in 1..(opens + 1)
  <2>1. \A x \in 1..opens : x # opens + 1 /\ x \in 1..(opens + 1)
    BY <1>2
  <2>2. opens + 1 \in 1..(opens + 1)
    BY <1>2
  <2>3. QED
    BY <1>1, <2>1, <2>2 DEF OriginsKnown, OriginKnown
<1>6. /\ backend[h] = "unopened" /\ h \notin adopted
      /\ \A i \in DOMAIN rail : rail[i].handle # h /\ rail[i].handle \in Handle
  BY <1>1, RailFacts DEF Arrives, IsFirst, AdoptedOpened, HandleLivesAsLongAsItsUsers
<1>7. /\ backend' \in [Handle -> BackendState] /\ backend'[h] \in {"locked", "writable"}
      /\ \A g \in Handle \ {h} : backend'[g] = backend[g]
  BY <1>1 DEF TypeOK, Arrives, Opened, Mode, BackendState
<1>8. Grouped(rail')
  <2>1. \A i \in DOMAIN rail, k \in New : rail[i].id # rail'[k].id
    BY <1>4, <1>5
  <2>2. QED
    BY <1>1, <1>2, <2>1, GroupArrives DEF Arrives
<1>9. file => \A i, j \in New : i = j
  <2>1. file => Len(rail') = n + 1
    BY DEF Arrives
  <2>2. QED
    BY <1>2, <2>1
<1>10. n + 1 \in DOMAIN rail'
  BY <1>2, <1>3
<1>11. \A i \in New : rail'[i].parent # NoId => rail'[i].parent[1] = opens + 1
  <2>1. \A i \in New : i = n + 1 \/ i \in (n + 2)..Len(rail')
    BY <1>2
  <2>2. QED
    BY ZenonT(30), <1>2, <1>4, <2>1 DEF Arrives
<1> HIDE DEF New, n
<1>12. TypeOK'
  <2>1. active' \in Id
    BY <1>2, <1>4, <1>10
  <2>2. adopted' \subseteq Handle
    BY <1>1, <1>4 DEF TypeOK
  <2>3. QED
    BY <1>1, <1>2, <1>4, <1>7, <2>1, <2>2 DEF TypeOK
<1>13. OriginsKnown'
  <2>1. \A i \in DOMAIN rail' : Len(rail'[i].id) > 0 /\ rail'[i].id[1] \in 1..(opens + 1)
    BY <1>3, <1>4, <1>5
  <2>2. \A m \in DOMAIN reopens : Len(reopens[m].id) > 0 /\ reopens[m].id[1] \in 1..(opens + 1)
    BY <1>4, <1>5
  <2>3. \A i \in DOMAIN rail : rail[i].parent # NoId => rail[i].parent[1] = rail[i].id[1]
    BY <1>1 DEF OriginsKnown
  <2>4. \A i \in DOMAIN rail' : rail'[i].parent # NoId => rail'[i].parent[1] = rail'[i].id[1]
    BY <1>3, <1>4, <1>11, <2>3
  <2>5. QED
    BY <1>4, <2>1, <2>2, <2>4 DEF OriginsKnown, OriginKnown
<1>14. FilesApart'
  <2>1. \A i, j \in DOMAIN rail' : rail'[i].id[1] = rail'[j].id[1] => rail'[i].file = rail'[j].file
    <3>1. \A i, j \in DOMAIN rail : rail[i].id[1] = rail[j].id[1] => rail[i].file = rail[j].file
      BY <1>1 DEF FilesApart
    <3>2. QED
      BY <1>3, <1>4, <1>5, <3>1
  <2>2. \A i \in DOMAIN rail', m \in DOMAIN reopens :
          rail'[i].id[1] = reopens[m].id[1] => rail'[i].file = reopens[m].file
    <3>1. \A i \in DOMAIN rail, m \in DOMAIN reopens :
            rail[i].id[1] = reopens[m].id[1] => rail[i].file = reopens[m].file
      BY <1>1 DEF FilesApart
    <3>2. QED
      BY <1>3, <1>4, <1>5, <3>1
  <2>3. \A i, j \in DOMAIN rail' : rail'[i].file /\ rail'[i].handle = rail'[j].handle => i = j
    <3>1. \A i, j \in DOMAIN rail : rail[i].file /\ rail[i].handle = rail[j].handle => i = j
      BY <1>1 DEF FilesApart
    <3>2. QED
      BY <1>3, <1>4, <1>6, <1>9, <3>1
  <2>4. \A i \in DOMAIN rail' : rail'[i].file => rail'[i].handle \notin adopted'
    <3>1. \A i \in DOMAIN rail : rail[i].file => rail[i].handle \notin adopted
      BY <1>1 DEF FilesApart
    <3>2. QED
      BY <1>3, <1>4, <1>6, <3>1
  <2>5. ASSUME NEW m \in DOMAIN reopens, reopens[m].file
        PROVE  /\ backend'[reopens[m].previous] # "unopened"
               /\ reopens[m].previous \notin adopted'
               /\ \A i \in DOMAIN rail' :
                    rail'[i].handle = reopens[m].previous => rail'[i].id = reopens[m].id
    <3>1. /\ reopens[m].previous \in Handle \ {h} /\ backend[reopens[m].previous] # "unopened"
          /\ reopens[m].previous \notin adopted
      BY <1>1, <1>6, <2>5, RailFacts DEF FilesApart
    <3>2. \A i \in DOMAIN rail : rail[i].handle = reopens[m].previous => rail[i].id = reopens[m].id
      BY <1>1, <2>5 DEF FilesApart
    <3>3. QED
      BY <1>3, <1>4, <1>7, <3>1, <3>2
  <2>6. QED
    BY <1>4, <2>1, <2>2, <2>3, <2>4, <2>5 DEF FilesApart
<1>15. ActiveExists'
  BY <1>2, <1>4, <1>10 DEF ActiveExists
<1>16. HandleLivesAsLongAsItsUsers'
  <2>1. \A i \in DOMAIN rail : backend[rail[i].handle] \in {"locked", "writable"}
    BY <1>1 DEF HandleLivesAsLongAsItsUsers
  <2>2. \A i \in DOMAIN rail' : backend'[rail'[i].handle] \in {"locked", "writable"}
    BY <1>3, <1>4, <1>6, <1>7, <2>1
  <2>3. ASSUME NEW g \in adopted' PROVE Users(rail', g) # {} \/ backend'[g] = "closed"
    <3>1. CASE g = h
      <4>1. n + 1 \in New
        BY <1>2
      <4>2. QED
        BY <1>4, <1>10, <3>1, <4>1 DEF Users
    <3>2. CASE g # h
      <4>1. g \in adopted /\ backend'[g] = backend[g]
        BY <1>1, <1>4, <1>7, <3>2 DEF TypeOK
      <4>2. Users(rail, g) \subseteq Users(rail', g)
        BY <1>3, <1>4 DEF Users
      <4>3. QED
        BY <1>1, <4>1, <4>2 DEF HandleLivesAsLongAsItsUsers
    <3>3. QED
      BY <3>1, <3>2
  <2>4. QED
    BY <2>2, <2>3 DEF HandleLivesAsLongAsItsUsers
<1>17. AdoptedOpened'
  BY <1>1, <1>4, <1>7 DEF AdoptedOpened, TypeOK
<1>18. QED
  BY <1>8, <1>12, <1>13, <1>14, <1>15, <1>16, <1>17 DEF RailInv

\* A new workspace, and a child of any workspace, are workspaces.
LEMMA NewTiles ==
  ASSUME TypeOK, NEW h \in Handle, NEW readOnly \in BOOLEAN, NEW file \in BOOLEAN
  PROVE  /\ Root(h, readOnly, file) \in Workspace
         /\ Root(h, readOnly, file).id = <<opens + 1>> /\ Root(h, readOnly, file).parent = NoId
         /\ Root(h, readOnly, file).handle = h /\ Root(h, readOnly, file).file = file
<1>1. opens + 1 \in Nat /\ <<opens + 1>> \in Id /\ NoId \in Id
  BY DEF TypeOK, Id, NoId
<1>2. QED
  BY <1>1 DEF Root, Workspace

LEMMA NewChildren ==
  ASSUME NEW w \in Workspace, NEW scope \in Scope, NEW temp \in BOOLEAN
  PROVE  /\ Child(w, scope, temp) \in Workspace
         /\ Child(w, scope, temp).id = Append(w.id, scope) /\ Child(w, scope, temp).parent = w.id
         /\ Child(w, scope, temp).handle = w.handle /\ Child(w, scope, temp).file = w.file
<1>1. w.id \in Id /\ Append(w.id, scope) \in Id
  BY DEF Workspace, Id
<1>2. QED
  BY <1>1 DEF Child, ChildId, Workspace

LEMMA OpenFileWorkspaceKeeps == ASSUME RailInv, OpenFileWorkspace PROVE RailInv'
<1>1. PICK h \in Handle :
        /\ IsFirst(h) /\ rail' = Append(rail, Root(h, FALSE, TRUE)) /\ backend' = Opened(h, FALSE)
  BY DEF OpenFileWorkspace
<1> DEFINE root == Root(h, FALSE, TRUE)
<1>2. /\ rail \in Seq(Workspace) /\ Len(rail) \in Nat /\ root \in Workspace
      /\ root.id = <<opens + 1>> /\ root.parent = NoId /\ root.handle = h /\ root.file = TRUE
  BY NewTiles, RailFacts DEF RailInv
<1> HIDE DEF root
<1>3. /\ rail' \in Seq(Workspace) /\ Len(rail') = Len(rail) + 1 /\ rail'[Len(rail) + 1] = root
      /\ \A i \in 1..Len(rail) : rail'[i] = rail[i]
  <2>1. rail' = Append(rail, root)
    BY <1>1 DEF root
  <2>2. QED
    BY <1>2, <2>1
<1>4. \A i \in (Len(rail) + 1)..Len(rail') : i = Len(rail) + 1
  BY <1>2, <1>3
<1>5. Len(<<opens + 1>>) > 0 /\ <<opens + 1>>[1] = opens + 1
  OBVIOUS
<1>6. \A i \in (Len(rail) + 2)..Len(rail') : FALSE
  BY <1>2, <1>3
<1>7. opens < MaxOpens /\ opens' = opens + 1 /\ active' = <<opens + 1>> /\ UNCHANGED <<reopens, adopted>>
  BY DEF OpenFileWorkspace
<1>8. Arrives(h, FALSE, TRUE)
  <2>1. \A i \in (Len(rail) + 1)..Len(rail') :
          /\ rail'[i].handle = h /\ rail'[i].file = TRUE
          /\ Len(rail'[i].id) > 0 /\ rail'[i].id[1] = opens + 1
    BY <1>2, <1>3, <1>4, <1>5
  <2>2. Len(rail) < Len(rail')
    BY <1>2, <1>3
  <2>3. QED
    BY <1>1, <1>2, <1>3, <1>4, <1>6, <1>7, <2>1, <2>2 DEF Arrives
<1>9. QED
  BY <1>8, ArrivalKeeps

LEMMA OpenWorkspaceKeeps == ASSUME RailInv, OpenWorkspace PROVE RailInv'
<1>1. PICK h \in Handle, readOnly \in BOOLEAN, kept \in SUBSET Scope :
        LET root == Root(h, readOnly, FALSE)
            scopes == SetToSeq(kept)
        IN  /\ IsFirst(h)
            /\ rail' = Append(rail, root) \o
                       [i \in DOMAIN scopes |-> Child(root, scopes[i], FALSE)]
            /\ active' = root.id
            /\ backend' = Opened(h, readOnly)
            /\ adopted' = adopted \cup {h}
  BY DEF OpenWorkspace
<1> DEFINE root == Root(h, readOnly, FALSE)
           scopes == SetToSeq(kept)
           children == [i \in DOMAIN scopes |-> Child(root, scopes[i], FALSE)]
           top == Append(rail, root)
           n == Len(rail)
<1>2. /\ rail \in Seq(Workspace) /\ n \in Nat /\ root \in Workspace
      /\ root.id = <<opens + 1>> /\ root.parent = NoId /\ root.handle = h /\ root.file = FALSE
  BY NewTiles, RailFacts DEF RailInv
<1>3. /\ IsFirst(h) /\ backend' = Opened(h, readOnly) /\ adopted' = adopted \cup {h}
      /\ active' = root.id /\ rail' = top \o children
  BY <1>1
<1>4. /\ scopes \in Seq(kept) /\ \A i, j \in 1..Len(scopes) : scopes[i] = scopes[j] => i = j
      /\ DOMAIN scopes = 1..Len(scopes) /\ Len(scopes) \in Nat
  <2>1. IsFiniteSet(kept)
    BY WorkspaceAssumption, FS_Subset
  <2>2. QED
    BY <2>1, SetToSeqPlaces
<1> HIDE DEF root, scopes
<1>5. \A i \in 1..Len(scopes) :
        /\ scopes[i] \in Scope /\ children[i] \in Workspace
        /\ Len(children[i].id) = 2 /\ children[i].id[1] = opens + 1 /\ children[i].id[2] = scopes[i]
        /\ children[i].parent = <<opens + 1>> /\ children[i].handle = h /\ children[i].file = FALSE
  <2>1. \A i \in 1..Len(scopes) : scopes[i] \in Scope /\ children[i] = Child(root, scopes[i], FALSE)
    BY <1>4
  <2>2. ASSUME NEW i \in 1..Len(scopes)
        PROVE  /\ children[i] \in Workspace /\ children[i].id = Append(<<opens + 1>>, scopes[i])
               /\ children[i].parent = <<opens + 1>> /\ children[i].handle = h /\ children[i].file = FALSE
    <3>1. children[i] = Child(root, scopes[i], FALSE) /\ scopes[i] \in Scope
      BY <2>1
    <3>2. /\ Child(root, scopes[i], FALSE) \in Workspace
          /\ Child(root, scopes[i], FALSE).id = Append(root.id, scopes[i])
          /\ Child(root, scopes[i], FALSE).parent = root.id
          /\ Child(root, scopes[i], FALSE).handle = root.handle
          /\ Child(root, scopes[i], FALSE).file = root.file
      BY <1>2, <3>1, NewChildren
    <3> HIDE DEF children
    <3>3. QED
      BY <1>2, <3>1, <3>2
  <2>3. ASSUME NEW i \in 1..Len(scopes)
        PROVE  LET id == Append(<<opens + 1>>, scopes[i])
               IN  Len(id) = 2 /\ id[1] = opens + 1 /\ id[2] = scopes[i]
    <3>1. <<opens + 1>> \in Seq(Nat \cup Scope) /\ scopes[i] \in Nat \cup Scope
      BY <1>2, <2>1 DEF Workspace, Id
    <3>2. QED
      BY <3>1
  <2>4. QED
    BY <2>1, <2>2, <2>3
<1>6. children \in Seq(Workspace) /\ Len(children) = Len(scopes)
  <2>1. children = [i \in 1..Len(scopes) |-> children[i]]
    BY <1>4
  <2>2. \A i \in 1..Len(scopes) : children[i] \in Workspace
    BY <1>5
  <2> HIDE DEF children
  <2>3. QED
    BY <1>4, <2>1, <2>2
<1>7. /\ top \in Seq(Workspace) /\ Len(top) = n + 1 /\ top[n + 1] = root
      /\ \A i \in 1..n : top[i] = rail[i]
  BY <1>2
<1> HIDE DEF children, top
<1>8. rail' \in Seq(Workspace) /\ Len(rail') = n + 1 + Len(scopes)
  <2>1. top \o children \in Seq(Workspace) /\ Len(top \o children) = Len(top) + Len(children)
    BY <1>6, <1>7
  <2>2. QED
    BY <1>3, <1>6, <1>7, <2>1
<1>9. \A i \in 1..(n + 1) : rail'[i] = top[i]
  BY <1>2, <1>3, <1>6, <1>7
<1>10. ASSUME NEW i \in (n + 2)..Len(rail')
       PROVE  i - (n + 1) \in 1..Len(scopes) /\ rail'[i] = children[i - (n + 1)]
  <2>1. i \in (Len(top) + 1)..(Len(top) + Len(children)) /\ i - (n + 1) \in 1..Len(scopes)
    BY <1>2, <1>4, <1>6, <1>7, <1>8
  <2>2. (top \o children)[i] = children[i - Len(top)]
    BY <1>6, <1>7, <2>1
  <2>3. QED
    BY <1>3, <1>7, <2>1, <2>2
<1>11. Len(<<opens + 1>>) = 1 /\ <<opens + 1>>[1] = opens + 1
  OBVIOUS
<1>12. /\ rail'[n + 1] = root /\ n + 1 \in 1..(n + 1)
       /\ \A i \in 1..n : rail'[i] = rail[i]
       /\ \A i \in (n + 1)..Len(rail') : i = n + 1 \/ i \in (n + 2)..Len(rail')
       /\ n < Len(rail')
  BY <1>2, <1>4, <1>7, <1>8, <1>9
<1>13. opens < MaxOpens /\ opens' = opens + 1 /\ UNCHANGED reopens
  BY DEF OpenWorkspace
<1>14. \A i \in (n + 1)..Len(rail') :
         /\ rail'[i].handle = h /\ rail'[i].file = FALSE
         /\ Len(rail'[i].id) > 0 /\ rail'[i].id[1] = opens + 1
  BY <1>2, <1>5, <1>10, <1>11, <1>12
<1>15. \A i \in (n + 2)..Len(rail') : rail'[i].parent = rail'[n + 1].id
  BY <1>2, <1>5, <1>10, <1>12
<1>16. ASSUME NEW i \in (n + 1)..Len(rail'), NEW k \in (n + 1)..Len(rail'), rail'[i].id = rail'[k].id
       PROVE  i = k
  <2>2. CASE i = n + 1 \/ k = n + 1
    <3>1. \A j \in (n + 2)..Len(rail') : rail'[j].id # rail'[n + 1].id
      BY <1>2, <1>5, <1>10, <1>11, <1>12
    <3>2. QED
      BY <1>12, <1>16, <2>2, <3>1
  <2>3. CASE i \in (n + 2)..Len(rail') /\ k \in (n + 2)..Len(rail')
    <3>1. scopes[i - (n + 1)] = scopes[k - (n + 1)]
      BY <1>5, <1>10, <1>16, <2>3
    <3>2. i - (n + 1) = k - (n + 1)
      BY <1>4, <1>10, <2>3, <3>1
    <3>3. QED
      BY <1>2, <1>8, <1>4, <2>3, <3>2
  <2>4. QED
    BY <1>12, <2>2, <2>3
<1>17. Arrives(h, readOnly, FALSE)
  BY <1>2, <1>3, <1>8, <1>12, <1>13, <1>14, <1>15, <1>16 DEF Arrives
<1>18. QED
  BY <1>17, ArrivalKeeps

\* The run of children below p ends, before a workspace that is not one of them.
LEMMA LastBelowPlaces ==
  ASSUME rail \in Seq(Workspace), NEW p \in DOMAIN rail
  PROVE  /\ LastBelow(p) \in p..Len(rail)
         /\ \A k \in (p + 1)..LastBelow(p) : rail[k].parent = rail[p].id
         /\ LastBelow(p) < Len(rail) => rail[LastBelow(p) + 1].parent # rail[p].id
<1> DEFINE Below(j) == \A k \in (p + 1)..j : rail[k].parent = rail[p].id
           S == {j \in p..Len(rail) : Below(j)}
<1>1. Len(rail) \in Nat /\ p \in 1..Len(rail)
  OBVIOUS
<1>2. S \in SUBSET Nat /\ p \in S /\ \A j \in S : j <= Len(rail)
  BY <1>1
<1>3. PICK j \in S : \A k \in S : k <= j
  <2> HIDE DEF S
  <2>1. S # {}
    BY <1>2
  <2>2. QED
    BY <1>1, <1>2, <2>1, GreatestExists
<1>4. j \in p..Len(rail) /\ Below(j) /\ j \in Nat
  BY <1>1, <1>3
<1>5. ASSUME j < Len(rail), rail[j + 1].parent = rail[p].id PROVE FALSE
  <2>1. \A k \in (p + 1)..(j + 1) : k \in (p + 1)..j \/ k = j + 1
    BY <1>1, <1>4
  <2>2. j + 1 \in p..Len(rail) /\ Below(j + 1)
    BY <1>1, <1>4, <1>5, <2>1
  <2>3. j + 1 <= j
    BY <1>3, <2>2
  <2>4. QED
    BY <1>4, <2>3
<1>6. QED
  BY <1>4, <1>5 DEF LastBelow

\* Closing up a place takes no two places to one.
LEMMA ClosedUp ==
  ASSUME NEW l \in Int, NEW i \in Int, NEW j \in Int, i # l + 1, j # l + 1,
         (IF i <= l THEN i ELSE i - 1) = (IF j <= l THEN j ELSE j - 1)
  PROVE  i = j
  OBVIOUS

\* A child put at the end of its parent's run leaves every other run as it is.
LEMMA GroupGrows ==
  ASSUME NEW r \in Seq(Workspace), Grouped(r), NEW q \in Seq(Workspace), NEW p \in 1..Len(r),
         r[p].parent = NoId, r[p].id # NoId,
         NEW l \in p..Len(r), \A k \in (p + 1)..l : r[k].parent = r[p].id,
         l < Len(r) => r[l + 1].parent # r[p].id,
         Len(q) = Len(r) + 1, \A k \in 1..l : q[k] = r[k],
         \A k \in (l + 1)..Len(r) : q[k + 1] = r[k],
         q[l + 1].parent = r[p].id, \A k \in 1..Len(r) : r[k].id # q[l + 1].id
  PROVE  Grouped(q)
<1>1. /\ Len(r) \in Nat /\ Len(q) \in Nat /\ DOMAIN r = 1..Len(r) /\ DOMAIN q = 1..(Len(r) + 1)
      /\ l \in Nat /\ p \in Nat /\ p <= l /\ l <= Len(r)
  OBVIOUS
<1>2. ASSUME NEW i \in DOMAIN q
      PROVE  \/ i \in 1..l /\ q[i] = r[i]
             \/ i = l + 1
             \/ i \in (l + 2)..(Len(r) + 1) /\ i - 1 \in (l + 1)..Len(r) /\ q[i] = r[i - 1]
  <2>1. CASE i \in (l + 2)..(Len(r) + 1)
    <3>1. i - 1 \in (l + 1)..Len(r) /\ (i - 1) + 1 = i
      BY <1>1, <2>1
    <3>2. QED
      BY <2>1, <3>1
  <2>2. CASE i \in 1..l
    <3>1. q[i] = r[i]
      BY <2>2
    <3>2. QED
      BY <2>2, <3>1
  <2>3. i \in 1..l \/ i = l + 1 \/ i \in (l + 2)..(Len(r) + 1)
    <3> DEFINE n == Len(r)
    <3>1. n \in Nat /\ l \in Nat /\ l <= n /\ i \in 1..(n + 1)
      BY <1>1
    <3> HIDE DEF n
    <3>2. i \in 1..l \/ i = l + 1 \/ i \in (l + 2)..(n + 1)
      BY <3>1
    <3>3. QED
      BY <3>2 DEF n
  <2>4. QED
    BY <2>1, <2>2, <2>3
<1> DEFINE old(i) == IF i <= l THEN i ELSE i - 1
<1>3. \A i \in DOMAIN q : i # l + 1 => old(i) \in DOMAIN r /\ q[i] = r[old(i)]
  BY <1>1, <1>2
<1>4. ASSUME NEW i \in DOMAIN q, NEW j \in DOMAIN q, q[i].id = q[j].id PROVE i = j
  <2>1. CASE i = l + 1 \/ j = l + 1
    <3>1. \A k \in DOMAIN q : k # l + 1 => q[k].id # q[l + 1].id
      <4> HIDE DEF old
      <4>1. QED
        BY <1>1, <1>3
    <3>2. QED
      BY <1>4, <2>1, <3>1
  <2>2. CASE i # l + 1 /\ j # l + 1
    <3>1. old(i) = old(j)
      BY <1>3, <1>4, <2>2 DEF Grouped
    <3>2. i \in Int /\ j \in Int /\ l \in Int
      BY <1>1
    <3>3. QED
      BY <2>2, <3>1, <3>2, ClosedUp
  <2>3. QED
    BY <2>1, <2>2
<1>5. ASSUME NEW i \in DOMAIN q, q[i].parent # NoId
      PROVE  \E o \in DOMAIN q :
               /\ o < i /\ q[o].id = q[i].parent /\ q[o].parent = NoId
               /\ \A k \in (o + 1)..i : q[k].parent = q[i].parent
  <2>1. CASE i = l + 1
    <3>1. p \in DOMAIN q /\ p < i /\ q[p] = r[p]
      BY <1>1, <2>1
    <3>2. \A k \in (p + 1)..i : k \in (p + 1)..l \/ k = l + 1
      BY <1>1, <2>1
    <3>3. \A k \in (p + 1)..l : q[k] = r[k]
      BY <1>1
    <3>4. QED
      BY <2>1, <3>1, <3>2, <3>3
  <2>2. CASE i \in 1..l
    <3>1. i \in DOMAIN r /\ q[i] = r[i]
      BY <1>1, <2>2
    <3>2. PICK o \in DOMAIN r :
            /\ o < i /\ r[o].id = r[i].parent /\ r[o].parent = NoId
            /\ \A k \in (o + 1)..i : r[k].parent = r[i].parent
      BY <1>5, <3>1 DEF Grouped
    <3>3. o \in 1..l /\ o \in DOMAIN q /\ \A k \in (o + 1)..i : k \in 1..l
      BY <1>1, <2>2, <3>2
    <3>4. QED
      BY <3>1, <3>2, <3>3
  <2>3. CASE i \in (l + 2)..(Len(r) + 1)
    <3>1. i - 1 \in DOMAIN r /\ q[i] = r[i - 1]
      BY <1>1, <1>2, <2>3
    <3>2. PICK o \in DOMAIN r :
            /\ o < i - 1 /\ r[o].id = r[i - 1].parent /\ r[o].parent = NoId
            /\ \A k \in (o + 1)..(i - 1) : r[k].parent = r[i - 1].parent
      BY <1>5, <3>1 DEF Grouped
    <3>3. l < o
      <4>1. SUFFICES ASSUME o <= l PROVE FALSE
        BY <1>1, <3>2
      <4>2. l + 1 \in (o + 1)..(i - 1) /\ l < Len(r)
        BY <1>1, <2>3, <3>2, <4>1
      <4>3. r[l + 1].parent = r[o].id
        BY <3>2, <4>2
      <4>4. o # p
        BY <4>2, <4>3
      <4>5. o < p => p \in (o + 1)..(i - 1)
        BY <1>1, <2>3, <3>2
      <4>6. ~(o < p)
        BY <1>5, <3>1, <3>2, <4>5
      <4>7. o \in (p + 1)..l
        BY <1>1, <3>2, <4>1, <4>4, <4>6
      <4>8. QED
        BY <3>2, <4>7
    <3>4. /\ o + 1 \in DOMAIN q /\ o + 1 < i /\ q[o + 1] = r[o]
      BY <1>1, <2>3, <3>2, <3>3
    <3>5. ASSUME NEW k \in ((o + 1) + 1)..i PROVE q[k].parent = q[i].parent
      <4>1. k - 1 \in (o + 1)..(i - 1) /\ k - 1 \in (l + 1)..Len(r) /\ (k - 1) + 1 = k
        BY <1>1, <2>3, <3>2, <3>3
      <4>2. q[k] = r[k - 1]
        BY <4>1
      <4>3. QED
        BY <3>1, <3>2, <4>1, <4>2
    <3>6. QED
      BY <3>1, <3>2, <3>4, <3>5
  <2>4. QED
    BY <1>2, <2>1, <2>2, <2>3
<1>6. QED
  BY <1>4, <1>5 DEF Grouped

\* A child is only ever opened below a database that is a workspace of its own.
LEMMA OpenSchemaKeeps == ASSUME RailInv, NEW scope \in Scope, OpenSchema(scope) PROVE RailInv'
<1>1. TypeOK /\ Grouped(rail) /\ OriginsKnown /\ FilesApart /\ ActiveExists
      /\ HandleLivesAsLongAsItsUsers /\ AdoptedOpened
  BY DEF RailInv
<1>2. UNCHANGED <<opens, reopens, backend, adopted>>
  BY DEF OpenSchema
<1>3. PICK i \in DOMAIN rail, p \in DOMAIN rail :
        /\ rail[i].id = active /\ ~rail[i].file
        /\ rail[p].id = IF rail[i].parent = NoId THEN active ELSE rail[i].parent
        /\ LET child == Child(rail[p], scope, TRUE)
           IN  IF \E k \in DOMAIN rail : rail[k].id = child.id
               THEN active' = child.id /\ rail' = rail
               ELSE rail' = InsertAt(rail, LastBelow(p) + 1, child) /\ active' = child.id
  BY DEF OpenSchema
<1> DEFINE child == Child(rail[p], scope, TRUE)
           l == LastBelow(p)
           n == Len(rail)
<1>4. /\ rail \in Seq(Workspace) /\ n \in Nat /\ DOMAIN rail = 1..n
      /\ \A k \in DOMAIN rail : rail[k] \in Workspace /\ rail[k].handle \in Handle
  BY <1>1, RailFacts
<1>5. /\ child \in Workspace /\ child.id = Append(rail[p].id, scope) /\ child.parent = rail[p].id
      /\ child.handle = rail[p].handle /\ child.file = rail[p].file
  BY <1>4, NewChildren
<1>6. CASE \E k \in DOMAIN rail : rail[k].id = child.id
  <2>1. rail' = rail /\ \E k \in DOMAIN rail : active' = rail[k].id
    BY <1>3, <1>6
  <2>2. QED
    BY <1>2, <1>4, <2>1, InPlaceKeeps
<1>7. CASE ~\E k \in DOMAIN rail : rail[k].id = child.id
  <2>1. rail' = InsertAt(rail, l + 1, child) /\ active' = child.id
    BY <1>3, <1>7
  <2>2. rail[p].parent = NoId /\ ~rail[p].file
    <3>1. CASE rail[i].parent = NoId
      BY <1>1, <1>3, <3>1 DEF Grouped
    <3>2. CASE rail[i].parent # NoId
      <4>1. PICK o \in DOMAIN rail : rail[o].id = rail[i].parent /\ rail[o].parent = NoId
        BY <1>1, <3>2 DEF Grouped
      <4>2. o = p
        BY <1>1, <1>3, <3>2, <4>1 DEF Grouped
      <4>3. rail[p].id[1] = rail[i].id[1]
        BY <1>1, <1>3, <3>2 DEF OriginsKnown
      <4>4. rail[p].file = rail[i].file
        BY <1>1, <4>3 DEF FilesApart
      <4>5. QED
        BY <1>3, <4>1, <4>2, <4>4
    <3>3. QED
      BY <3>1, <3>2
  <2>3. Len(rail[p].id) > 0 /\ rail[p].id[1] \in 1..opens /\ rail[p].id # NoId
    BY <1>1 DEF OriginsKnown, OriginKnown, NoId
  <2>4. Len(child.id) > 0 /\ child.id[1] = rail[p].id[1]
    <3>1. rail[p].id \in Seq(Nat \cup Scope)
      BY <1>4 DEF Workspace, Id
    <3>2. scope \in Nat \cup Scope
      OBVIOUS
    <3>3. Len(Append(rail[p].id, scope)) > 0 /\ Append(rail[p].id, scope)[1] = rail[p].id[1]
      BY <2>3, <3>1, <3>2
    <3>4. QED
      BY <1>5, <3>3, Zenon
  <2>5. /\ l \in p..n /\ \A k \in (p + 1)..l : rail[k].parent = rail[p].id
        /\ l < n => rail[l + 1].parent # rail[p].id
    BY <1>4, LastBelowPlaces
  <2> HIDE DEF child, l
  <2>6. l \in Nat /\ l <= n /\ l + 1 \in 1..(n + 1)
    BY <1>4, <2>5
  <2>7. /\ rail' \in Seq(Workspace) /\ Len(rail') = n + 1
        /\ \A k \in 1..(n + 1) :
             rail'[k] = IF k < l + 1 THEN rail[k] ELSE IF k = l + 1 THEN child ELSE rail[k - 1]
    <3>1. rail \in Seq(Workspace) /\ child \in Workspace /\ l + 1 \in 1..(Len(rail) + 1)
      BY <1>4, <1>5, <2>6
    <3>2. /\ InsertAt(rail, l + 1, child) \in Seq(Workspace)
          /\ Len(InsertAt(rail, l + 1, child)) = Len(rail) + 1
          /\ \A k \in 1..(Len(rail) + 1) : InsertAt(rail, l + 1, child)[k] =
               IF k < l + 1 THEN rail[k] ELSE IF k = l + 1 THEN child ELSE rail[k - 1]
      <4>1. ASSUME NEW r \in Seq(Workspace), NEW w \in Workspace, NEW j \in 1..(Len(r) + 1)
            PROVE  /\ InsertAt(r, j, w) \in Seq(Workspace) /\ Len(InsertAt(r, j, w)) = Len(r) + 1
                   /\ \A k \in 1..(Len(r) + 1) :
                        InsertAt(r, j, w)[k] = IF k < j THEN r[k] ELSE IF k = j THEN w ELSE r[k - 1]
        BY InsertAtPlaces
      <4>2. QED
        BY <3>1, <4>1
    <3>3. QED
      BY <2>1, <3>2
  <2>8. /\ \A k \in 1..l : rail'[k] = rail[k]
        /\ rail'[l + 1] = child
        /\ \A k \in (l + 1)..n : rail'[k + 1] = rail[k]
    <3>1. \A k \in 1..l : k \in 1..(n + 1) /\ k < l + 1
      BY <1>4, <2>6
    <3>2. \A k \in (l + 1)..n :
            k + 1 \in 1..(n + 1) /\ ~(k + 1 < l + 1) /\ k + 1 # l + 1 /\ (k + 1) - 1 = k
      BY <1>4, <2>6
    <3>3. ASSUME NEW k \in (l + 1)..n PROVE rail'[k + 1] = rail[k]
      <4>1. rail'[k + 1] = rail[(k + 1) - 1]
        BY <2>7, <3>2
      <4>2. QED
        BY <3>2, <4>1
    <3>4. QED
      BY <1>4, <2>6, <2>7, <3>1, <3>3
  <2>9. Grouped(rail')
    BY <1>1, <1>4, <1>5, <1>7, <2>2, <2>3, <2>5, <2>7, <2>8, GroupGrows
  <2>10. /\ DOMAIN rail' = 1..(n + 1) /\ l + 1 \in DOMAIN rail' /\ rail' # <<>>
         /\ \A k \in DOMAIN rail' : rail'[k] = child \/ \E j \in DOMAIN rail : rail'[k] = rail[j]
         /\ \A j \in DOMAIN rail : \E k \in DOMAIN rail' : rail'[k] = rail[j]
    <3>1. DOMAIN rail' = 1..(n + 1) /\ rail' # <<>>
      BY <1>4, <2>7, Positions
    <3>2. \A k \in 1..(n + 1) : k < l + 1 => k \in 1..n
      BY <1>4, <2>6
    <3>3. \A k \in 1..(n + 1) : ~(k < l + 1) /\ k # l + 1 => k - 1 \in 1..n
      BY <1>4, <2>6
    <3>4. \A k \in 1..(n + 1) : rail'[k] = child \/ \E j \in 1..n : rail'[k] = rail[j]
      BY <2>7, <3>2, <3>3
    <3>5. \A j \in 1..n : j \in 1..l \/ j \in (l + 1)..n
      BY <1>4, <2>6
    <3>6. \A j \in 1..l : j \in 1..(n + 1)
      BY <1>4, <2>6
    <3>7. \A j \in (l + 1)..n : j + 1 \in 1..(n + 1)
      BY <1>4, <2>6
    <3>8. \A j \in 1..n : \E k \in 1..(n + 1) : rail'[k] = rail[j]
      BY <2>8, <3>5, <3>6, <3>7
    <3>9. QED
      BY <1>4, <2>6, <3>1, <3>4, <3>8
  <2> HIDE DEF n
  <2>11. TypeOK'
    <3>1. child.id \in Id
      BY <1>5 DEF Workspace
    <3>2. QED
      BY <1>1, <1>2, <2>1, <2>7, <3>1 DEF TypeOK
  <2>12. OriginsKnown'
    <3>1. \A k \in DOMAIN rail :
            /\ Len(rail[k].id) > 0 /\ rail[k].id[1] \in 1..opens
            /\ rail[k].parent # NoId => rail[k].parent[1] = rail[k].id[1]
      BY <1>1 DEF OriginsKnown, OriginKnown
    <3>2. \A k \in DOMAIN rail' :
            /\ Len(rail'[k].id) > 0 /\ rail'[k].id[1] \in 1..opens
            /\ rail'[k].parent # NoId => rail'[k].parent[1] = rail'[k].id[1]
      <4>1. SUFFICES ASSUME NEW k \in DOMAIN rail'
                     PROVE  /\ Len(rail'[k].id) > 0 /\ rail'[k].id[1] \in 1..opens
                            /\ rail'[k].parent # NoId => rail'[k].parent[1] = rail'[k].id[1]
        OBVIOUS
      <4>2. CASE rail'[k] = child
        BY <1>5, <2>3, <2>4, <4>2
      <4>3. CASE \E j \in DOMAIN rail : rail'[k] = rail[j]
        BY <3>1, <4>3
      <4>4. QED
        BY <2>10, <4>2, <4>3
    <3>3. QED
      BY <1>1, <1>2, <3>2 DEF OriginsKnown, OriginKnown
  <2>13. FilesApart'
    <3>0. \A k \in DOMAIN rail' : \E j \in DOMAIN rail :
            rail'[k].id[1] = rail[j].id[1] /\ rail'[k].file = rail[j].file
      BY <1>5, <2>4, <2>10
    <3>1. \A j, k \in DOMAIN rail' : rail'[j].id[1] = rail'[k].id[1] => rail'[j].file = rail'[k].file
      BY <1>1, <3>0 DEF FilesApart
    <3>2. \A k \in DOMAIN rail', m \in DOMAIN reopens :
            rail'[k].id[1] = reopens[m].id[1] => rail'[k].file = reopens[m].file
      BY <1>1, <3>0 DEF FilesApart
    <3>3. \A j, k \in DOMAIN rail' : rail'[j].file /\ rail'[j].handle = rail'[k].handle => j = k
      <4>1. \A j, k \in DOMAIN rail : rail[j].file /\ rail[j].handle = rail[k].handle => j = k
        BY <1>1 DEF FilesApart
      <4>2. SUFFICES ASSUME NEW j \in DOMAIN rail', NEW k \in DOMAIN rail',
                            rail'[j].file, rail'[j].handle = rail'[k].handle
                     PROVE  rail'[j].id = rail'[k].id
        BY <2>9 DEF Grouped
      <4>3. PICK a \in DOMAIN rail : rail'[j] = rail[a]
        BY <1>5, <2>2, <2>10, <4>2
      <4>4. rail'[k] # child
        BY <1>5, <2>2, <4>1, <4>2, <4>3
      <4>5. QED
        BY <2>10, <4>1, <4>2, <4>3, <4>4
    <3>4. \A k \in DOMAIN rail' : rail'[k].file => rail'[k].handle \notin adopted
      BY <1>1, <1>5, <2>2, <2>10 DEF FilesApart
    <3>5. ASSUME NEW m \in DOMAIN reopens, reopens[m].file
          PROVE  /\ backend[reopens[m].previous] # "unopened"
                 /\ reopens[m].previous \notin adopted
                 /\ \A k \in DOMAIN rail' :
                      rail'[k].handle = reopens[m].previous => rail'[k].id = reopens[m].id
      <4>1. \A k \in DOMAIN rail : rail[k].handle = reopens[m].previous => rail[k].id = reopens[m].id
        BY <1>1, <3>5 DEF FilesApart
      <4>2. rail[p].id = reopens[m].id => rail[p].file = reopens[m].file
        BY <1>1 DEF FilesApart
      <4>3. child.handle # reopens[m].previous
        BY <1>5, <2>2, <3>5, <4>1, <4>2
      <4>4. QED
        BY <1>1, <2>10, <3>5, <4>1, <4>3 DEF FilesApart
    <3>6. QED
      BY <1>2, <3>1, <3>2, <3>3, <3>4, <3>5 DEF FilesApart
  <2>14. ActiveExists'
    BY <2>1, <2>8, <2>10 DEF ActiveExists
  <2>15. HandleLivesAsLongAsItsUsers'
    <3>1. \A k \in DOMAIN rail' : backend[rail'[k].handle] \in {"locked", "writable"}
      BY <1>1, <1>5, <2>10 DEF HandleLivesAsLongAsItsUsers
    <3>2. \A h : Users(rail, h) # {} => Users(rail', h) # {}
      BY <2>10 DEF Users
    <3>3. QED
      BY <1>1, <1>2, <3>1, <3>2 DEF HandleLivesAsLongAsItsUsers
  <2>16. AdoptedOpened'
    BY <1>1, <1>2 DEF AdoptedOpened
  <2>17. QED
    BY <2>9, <2>11, <2>12, <2>13, <2>14, <2>15, <2>16 DEF RailInv
<1>8. QED
  BY <1>6, <1>7

-----------------------------------------------------------------------------
(* Closing.                                                                *)

\* Who goes with the workspace at i.
Goes(i, k) == k = i \/ (rail[k].parent = rail[i].id /\ rail[k].temp)

\* The others stay in their order, on their handles; only those below i move to the top level.
LEMMA OthersStay ==
  ASSUME TypeOK, Grouped(rail), NEW i \in DOMAIN rail
  PROVE  /\ Remaining(i) \in Seq(Workspace)
         /\ Dropped(i) = {rail[k] : k \in {k \in DOMAIN rail : Goes(i, k)}}
         /\ \E at \in [1..Len(Remaining(i)) -> DOMAIN rail] :
              /\ \A n \in 1..Len(Remaining(i)) :
                   /\ ~Goes(i, at[n]) /\ Remaining(i)[n].id = rail[at[n]].id
                   /\ Remaining(i)[n].handle = rail[at[n]].handle
                   /\ Remaining(i)[n].file = rail[at[n]].file
                   /\ Remaining(i)[n].parent =
                        IF rail[at[n]].parent = rail[i].id THEN NoId ELSE rail[at[n]].parent
              /\ \A m, n \in 1..Len(Remaining(i)) : m < n => at[m] < at[n]
              /\ \A k \in DOMAIN rail : ~Goes(i, k) => \E n \in 1..Len(Remaining(i)) : at[n] = k
<1> DEFINE T == ToSet(rail) \ Dropped(i)
           rest == OnlyIn(rail, T)
<1>1. rail \in Seq(Workspace) /\ DOMAIN rail = 1..Len(rail)
      /\ \A k \in DOMAIN rail : rail[k] \in Workspace
  BY RailFacts
<1>2. Dropped(i) = {rail[k] : k \in {k \in DOMAIN rail : Goes(i, k)}}
  BY DEF Dropped, Goes
<1>3. \A k \in DOMAIN rail : rail[k] \in T <=> ~Goes(i, k)
  <2>1. \A j, k \in DOMAIN rail : rail[j] = rail[k] => j = k
    BY DEF Grouped
  <2>2. ToSet(rail) = {rail[k] : k \in DOMAIN rail}
    BY DEF ToSet
  <2>3. QED
    BY <1>2, <2>1, <2>2
<1> HIDE DEF T
<1>4. PICK at : SelectedAt(at, rail, T)
  BY <1>1, OnlyInPlaces
<1>5. rest \in Seq(Workspace \cap T)
  BY <1>1, OnlyInPlaces
<1>6. /\ at \in [1..Len(rest) -> 1..Len(rail)]
      /\ \A n \in 1..Len(rest) : rail[at[n]] \in T /\ rest[n] = rail[at[n]]
      /\ \A m, n \in 1..Len(rest) : m < n => at[m] < at[n]
      /\ \A k \in 1..Len(rail) : rail[k] \in T => \E n \in 1..Len(rest) : at[n] = k
  BY <1>4 DEF SelectedAt
<1> HIDE DEF rest
<1>7. /\ DOMAIN rest = 1..Len(rest) /\ Len(rest) \in Nat
      /\ \A n \in 1..Len(rest) : rest[n] \in Workspace
  BY <1>5
<1>8. Remaining(i) = [n \in 1..Len(rest) |->
        IF rest[n].parent = rail[i].id THEN [rest[n] EXCEPT !.parent = NoId] ELSE rest[n]]
  BY <1>7 DEF Remaining, rest, T
<1>9. ASSUME NEW n \in 1..Len(rest)
      PROVE  /\ Remaining(i)[n] \in Workspace /\ Remaining(i)[n].id = rest[n].id
             /\ Remaining(i)[n].handle = rest[n].handle /\ Remaining(i)[n].file = rest[n].file
             /\ Remaining(i)[n].parent = IF rest[n].parent = rail[i].id THEN NoId ELSE rest[n].parent
  <2>1. rest[n] \in Workspace /\ NoId \in Id
    BY <1>7 DEF NoId, Id
  <2>2. QED
    BY <1>8, <2>1 DEF Workspace
<1>10. Remaining(i) \in Seq(Workspace) /\ Len(Remaining(i)) = Len(rest)
  <2>1. Remaining(i) = [n \in 1..Len(rest) |-> Remaining(i)[n]]
    BY <1>8
  <2>2. QED
    BY <1>7, <1>9, <2>1
<1>11. at \in [1..Len(rest) -> DOMAIN rail] /\ \A n \in 1..Len(rest) : ~Goes(i, at[n])
  BY <1>1, <1>3, <1>6
<1>12. \A k \in DOMAIN rail : ~Goes(i, k) => \E n \in 1..Len(rest) : at[n] = k
  BY <1>1, <1>3, <1>6
<1>13. /\ at \in [1..Len(Remaining(i)) -> DOMAIN rail]
       /\ \A n \in 1..Len(Remaining(i)) :
            /\ ~Goes(i, at[n]) /\ Remaining(i)[n].id = rail[at[n]].id
            /\ Remaining(i)[n].handle = rail[at[n]].handle
            /\ Remaining(i)[n].file = rail[at[n]].file
            /\ Remaining(i)[n].parent =
                 IF rail[at[n]].parent = rail[i].id THEN NoId ELSE rail[at[n]].parent
       /\ \A m, n \in 1..Len(Remaining(i)) : m < n => at[m] < at[n]
       /\ \A k \in DOMAIN rail : ~Goes(i, k) => \E n \in 1..Len(Remaining(i)) : at[n] = k
  BY <1>6, <1>9, <1>10, <1>11, <1>12
<1>14. QED
  BY <1>2, <1>10, <1>13

LEMMA CloseKeeps == ASSUME RailInv, NEW i \in DOMAIN rail, Close(i) PROVE RailInv'
<1>1. TypeOK /\ Grouped(rail) /\ OriginsKnown /\ FilesApart /\ ActiveExists
      /\ HandleLivesAsLongAsItsUsers /\ AdoptedOpened
  BY DEF RailInv
<1>2. /\ rail' = Remaining(i) /\ active' = FocusAfter(i, rail')
      /\ Release({w.handle : w \in Dropped(i)}, rail')
      /\ UNCHANGED <<opens, reopens, adopted>>
  BY DEF Close
<1> DEFINE n == Len(rail')
<1>3. rail' \in Seq(Workspace) /\ Dropped(i) = {rail[k] : k \in {k \in DOMAIN rail : Goes(i, k)}}
  BY <1>1, <1>2, OthersStay
<1>4. PICK at \in [1..n -> DOMAIN rail] :
        /\ \A m \in 1..n :
             /\ ~Goes(i, at[m]) /\ rail'[m].id = rail[at[m]].id
             /\ rail'[m].handle = rail[at[m]].handle
             /\ rail'[m].file = rail[at[m]].file
             /\ rail'[m].parent = IF rail[at[m]].parent = rail[i].id THEN NoId ELSE rail[at[m]].parent
        /\ \A l, m \in 1..n : l < m => at[l] < at[m]
        /\ \A k \in DOMAIN rail : ~Goes(i, k) => \E m \in 1..n : at[m] = k
  BY <1>1, <1>2, OthersStay
<1>5. /\ n \in Nat /\ DOMAIN rail' = 1..n /\ (rail' = <<>> <=> n = 0)
      /\ \A m \in DOMAIN rail' : rail'[m] \in Workspace /\ rail'[m].id \in Id /\ at[m] \in DOMAIN rail
      /\ DOMAIN rail \subseteq Nat
  <2>1. DOMAIN rail \subseteq Nat
    BY <1>1, Positions DEF TypeOK
  <2>2. \A m \in 1..n : at[m] \in DOMAIN rail
    BY <1>4
  <2> HIDE DEF n
  <2>3. n \in Nat /\ DOMAIN rail' = 1..n /\ (rail' = <<>> <=> n = 0)
        /\ \A m \in DOMAIN rail' : rail'[m] \in Workspace
    BY <1>3, Positions DEF n
  <2>4. QED
    BY <2>1, <2>2, <2>3 DEF Workspace
<1>6. rail[i].id # NoId
  BY <1>1 DEF OriginsKnown, OriginKnown, NoId
<1> HIDE DEF n
<1>7. \A l, m \in DOMAIN rail' : at[l] = at[m] => l = m
  BY <1>4, <1>5
<1>8. Grouped(rail')
  <2>1. ASSUME NEW l \in DOMAIN rail', NEW m \in DOMAIN rail', rail'[l].id = rail'[m].id PROVE l = m
    <3>1. rail[at[l]].id = rail[at[m]].id /\ at[l] \in DOMAIN rail /\ at[m] \in DOMAIN rail
      BY <1>4, <1>5, <2>1
    <3>2. at[l] = at[m]
      BY <1>1, <3>1 DEF Grouped
    <3>3. QED
      BY <1>7, <3>2
  <2>2. ASSUME NEW m \in DOMAIN rail', rail'[m].parent # NoId
        PROVE  \E p \in DOMAIN rail' :
                 /\ p < m /\ rail'[p].id = rail'[m].parent /\ rail'[p].parent = NoId
                 /\ \A k \in (p + 1)..m : rail'[k].parent = rail'[m].parent
    <3>1. rail[at[m]].parent # rail[i].id /\ rail'[m].parent = rail[at[m]].parent
      BY <1>4, <1>5, <2>2
    <3>2. PICK o \in DOMAIN rail :
            /\ o < at[m] /\ rail[o].id = rail[at[m]].parent /\ rail[o].parent = NoId
            /\ \A k \in (o + 1)..at[m] : rail[k].parent = rail[at[m]].parent
      BY <1>1, <1>5, <2>2, <3>1 DEF Grouped
    <3>3. ~Goes(i, o)
      BY <1>6, <3>1, <3>2 DEF Goes
    <3>4. PICK p \in 1..n : at[p] = o
      BY <1>4, <3>3
    <3>5. p < m
      <4>1. m < p => at[m] < at[p]
        BY <1>4, <1>5
      <4>2. at[m] \in Nat /\ at[p] \in Nat /\ at[p] < at[m] /\ p \in Nat /\ m \in Nat
        BY <1>5, <3>2, <3>4
      <4>3. ~(m < p) /\ m # p
        BY <4>1, <4>2
      <4>4. QED
        BY <4>2, <4>3
    <3>6. rail'[p].id = rail'[m].parent /\ rail'[p].parent = NoId
      BY <1>4, <3>1, <3>2, <3>4
    <3>7. ASSUME NEW k \in (p + 1)..m PROVE rail'[k].parent = rail'[m].parent
      <4>1. k \in 1..n /\ p < k /\ (k < m \/ k = m)
        BY <1>5, <3>4
      <4>2. at[p] < at[k] /\ (at[k] < at[m] \/ k = m)
        BY <1>4, <1>5, <3>4, <4>1
      <4>3. at[k] \in (o + 1)..at[m]
        BY <1>5, <3>4, <4>1, <4>2
      <4>4. rail[at[k]].parent = rail[at[m]].parent
        BY <3>2, <4>3
      <4>5. QED
        BY <1>4, <3>1, <4>1, <4>4
    <3>8. QED
      BY <1>5, <3>4, <3>5, <3>6, <3>7
  <2>3. QED
    BY <2>1, <2>2 DEF Grouped
<1>9. /\ backend' \in [Handle -> BackendState]
      /\ \A g \in Handle :
           /\ backend'[g] \in {backend[g], "closed"}
           /\ Users(rail', g) # {} => backend'[g] = backend[g]
           /\ g \in {w.handle : w \in Dropped(i)} /\ Users(rail', g) = {} => backend'[g] = "closed"
  BY <1>1, <1>2 DEF TypeOK, Release, BackendState
<1>10. ActiveExists'
  <2>1. CASE active \notin {w.id : w \in Dropped(i)}
    <3>1. active' = active
      BY <1>2, <2>1 DEF FocusAfter
    <3>2. PICK k \in DOMAIN rail : rail[k].id = active
      <4>1. rail # <<>>
        BY <1>1, Positions DEF TypeOK
      <4>2. QED
        BY <1>1, <4>1 DEF ActiveExists
    <3>3. ~Goes(i, k)
      BY <1>3, <2>1, <3>2
    <3>4. PICK m \in 1..n : at[m] = k
      BY <1>4, <3>3
    <3>5. rail' # <<>> /\ m \in DOMAIN rail' /\ rail'[m].id = active
      BY <1>4, <1>5, <3>2, <3>4
    <3>6. QED
      BY <3>1, <3>5 DEF ActiveExists
  <2>2. CASE active \in {w.id : w \in Dropped(i)} /\ rail' = <<>>
    BY <1>2, <2>2 DEF FocusAfter, ActiveExists
  <2>3. CASE active \in {w.id : w \in Dropped(i)} /\ rail' # <<>>
    <3>1. active' = rail'[IF i <= n THEN i ELSE n].id
      BY <1>2, <2>3 DEF FocusAfter, n
    <3>2. (IF i <= n THEN i ELSE n) \in DOMAIN rail'
      <4>1. i \in 1..Len(rail) /\ n > 0
        BY <1>1, <1>5, <2>3 DEF TypeOK
      <4>2. QED
        BY <1>5, <4>1
    <3>3. QED
      BY <2>3, <3>1, <3>2 DEF ActiveExists
  <2>4. QED
    BY <2>1, <2>2, <2>3
<1>11. TypeOK'
  <2>1. active' \in Id
    <3>1. CASE rail' = <<>>
      BY <1>10, <3>1 DEF ActiveExists, Id, NoId
    <3>2. CASE rail' # <<>>
      BY <1>5, <1>10, <3>2 DEF ActiveExists
    <3>3. QED
      BY <3>1, <3>2
  <2>2. QED
    BY <1>1, <1>2, <1>3, <1>9, <2>1 DEF TypeOK
<1>12. OriginsKnown'
  <2>1. \A k \in DOMAIN rail :
          /\ Len(rail[k].id) > 0 /\ rail[k].id[1] \in 1..opens
          /\ rail[k].parent # NoId => rail[k].parent[1] = rail[k].id[1]
    BY <1>1 DEF OriginsKnown, OriginKnown
  <2>2. \A m \in DOMAIN rail' :
          /\ Len(rail'[m].id) > 0 /\ rail'[m].id[1] \in 1..opens
          /\ rail'[m].parent # NoId => rail'[m].parent[1] = rail'[m].id[1]
    BY <1>4, <1>5, <2>1
  <2>3. QED
    BY <1>1, <1>2, <2>2 DEF OriginsKnown, OriginKnown
<1>13. FilesApart'
  <2>0. \A l \in DOMAIN rail' :
          at[l] \in DOMAIN rail /\ rail'[l].id = rail[at[l]].id /\ rail'[l].file = rail[at[l]].file
          /\ rail'[l].handle = rail[at[l]].handle
    BY <1>4, <1>5
  <2>1. \A l, m \in DOMAIN rail' : rail'[l].id[1] = rail'[m].id[1] => rail'[l].file = rail'[m].file
    BY <1>1, <2>0 DEF FilesApart
  <2>2. \A l \in DOMAIN rail', m \in DOMAIN reopens :
          rail'[l].id[1] = reopens[m].id[1] => rail'[l].file = reopens[m].file
    BY <1>1, <2>0 DEF FilesApart
  <2>3. \A l, m \in DOMAIN rail' : rail'[l].file /\ rail'[l].handle = rail'[m].handle => l = m
    BY <1>1, <1>7, <2>0 DEF FilesApart
  <2>4. \A m \in DOMAIN rail' : rail'[m].file => rail'[m].handle \notin adopted
    BY <1>1, <2>0 DEF FilesApart
  <2>5. ASSUME NEW m \in DOMAIN reopens, reopens[m].file
        PROVE  /\ backend'[reopens[m].previous] # "unopened"
               /\ reopens[m].previous \notin adopted
               /\ \A k \in DOMAIN rail' :
                    rail'[k].handle = reopens[m].previous => rail'[k].id = reopens[m].id
    <3>1. /\ reopens[m].previous \in Handle /\ backend[reopens[m].previous] # "unopened"
          /\ reopens[m].previous \notin adopted
          /\ \A k \in DOMAIN rail : rail[k].handle = reopens[m].previous => rail[k].id = reopens[m].id
      BY <1>1, <2>5, RailFacts DEF FilesApart
    <3>2. QED
      BY <1>4, <1>5, <1>9, <3>1
  <2>6. QED
    BY <1>2, <2>1, <2>2, <2>3, <2>4, <2>5 DEF FilesApart
<1>14. HandleLivesAsLongAsItsUsers'
  <2>1. \A k \in DOMAIN rail : backend[rail[k].handle] \in {"locked", "writable"} /\ rail[k].handle \in Handle
    BY <1>1, RailFacts DEF HandleLivesAsLongAsItsUsers
  <2>2. ASSUME NEW m \in DOMAIN rail' PROVE backend'[rail'[m].handle] \in {"locked", "writable"}
    <3>1. rail'[m].handle = rail[at[m]].handle /\ at[m] \in DOMAIN rail
      BY <1>4, <1>5
    <3>2. Users(rail', rail'[m].handle) # {}
      BY DEF Users
    <3>3. QED
      BY <1>9, <2>1, <3>1, <3>2
  <2>3. ASSUME NEW g \in adopted PROVE Users(rail', g) # {} \/ backend'[g] = "closed"
    <3>1. g \in Handle /\ (Users(rail, g) # {} \/ backend[g] = "closed")
      BY <1>1 DEF HandleLivesAsLongAsItsUsers, TypeOK
    <3>2. CASE backend[g] = "closed"
      BY <1>9, <3>1, <3>2
    <3>3. CASE Users(rail, g) # {}
      <4>1. PICK k \in DOMAIN rail : rail[k].handle = g
        BY <3>3 DEF Users
      <4>2. CASE Goes(i, k)
        <5>1. g \in {w.handle : w \in Dropped(i)}
          BY <1>3, <4>1, <4>2
        <5>2. QED
          BY <1>9, <3>1, <5>1
      <4>3. CASE ~Goes(i, k)
        <5>1. PICK m \in 1..n : at[m] = k
          BY <1>4, <4>3
        <5>2. QED
          BY <1>4, <1>5, <4>1, <5>1 DEF Users
      <4>4. QED
        BY <4>2, <4>3
    <3>4. QED
      BY <3>1, <3>2, <3>3
  <2>4. QED
    BY <1>2, <2>2, <2>3 DEF HandleLivesAsLongAsItsUsers
<1>15. AdoptedOpened'
  BY <1>1, <1>2, <1>9 DEF AdoptedOpened, TypeOK
<1>16. QED
  BY <1>8, <1>10, <1>11, <1>12, <1>13, <1>14, <1>15 DEF RailInv

LEMMA StoreKeeps == ASSUME RailInv, StoreNext PROVE RailInv'
BY OpenWorkspaceKeeps, OpenFileWorkspaceKeeps, OpenSchemaKeeps, TileKeeps, CloseKeeps,
   BeginReopenKeeps, SwitchNodeKeeps, ReplaceFileKeeps, ReopenFailsKeeps DEF StoreNext

-----------------------------------------------------------------------------
(* The hook.                                                               *)

\* Nothing is pushed to a handle that is not open, and only a closed one refuses.
PushesOpened ==
  /\ \A h \in Handle : pushed[h] # "none" => backend[h] # "unopened"
  /\ \A c \in Call : calls[c] # Idle =>
       /\ backend[calls[c].handle] # "unopened"
       /\ calls[c].stage = "refused" => backend[calls[c].handle] = "closed"
  /\ deps.handle # NoHandle => backend[deps.handle] # "unopened"

\* The call whose answer is awaited is for what the effect last saw; without one, the hook
\* believes that the handle has that mode, or the handle is gone.
LiveIsForDeps ==
  /\ live # NoCall => /\ deps.handle # NoHandle /\ calls[live] # Idle
                      /\ calls[live].handle = deps.handle /\ calls[live].mode = Mode(deps.readOnly)
  /\ live = NoCall /\ deps.handle # NoHandle =>
       pushed[deps.handle] = Mode(deps.readOnly) \/ backend[deps.handle] = "closed"

\* Where no call was abandoned, the one in flight is the live one, and the hook is right.
HookIsRight ==
  /\ \A c \in Call : calls[c] # Idle /\ calls[c].handle \notin superseded => c = live
  /\ \A h \in Handle \ superseded :
       InFlight(h) = {} /\ pushed[h] # "none" => backend[h] \in {pushed[h], "closed"}
  /\ \A c \in Call : calls[c].stage = "applied" /\ calls[c].handle \notin superseded =>
       backend[calls[c].handle] \in {calls[c].mode, "closed"}

SyncInv == SyncTypeOK /\ RailInv /\ PushesOpened /\ LiveIsForDeps /\ HookIsRight

LEMMA CallFacts ==
  ASSUME SyncTypeOK
  PROVE  /\ \A h \in Handle : h # NoHandle
         /\ NoCall \notin Call
         /\ \A c \in Call :
              \/ calls[c] = Idle /\ calls[c].handle = NoHandle /\ calls[c].stage = "idle"
              \/ /\ calls[c] # Idle /\ calls[c].handle \in Handle /\ calls[c].mode \in {"locked", "writable"}
                 /\ calls[c].stage \in {"sent", "applied", "refused"}
<1>1. \A h \in Handle : h # NoHandle
  BY WorkspaceAssumption
<1>2. Idle.handle = NoHandle /\ Idle.stage = "idle"
  BY DEF Idle
<1>3. QED
  BY <1>1, <1>2, CallAssumption DEF SyncTypeOK

\* What the effect depends on is an open handle, or nothing.
LEMMA DepsAreOpen ==
  ASSUME RailInv
  PROVE  /\ Deps \in [handle : Handle \cup {NoHandle}, readOnly : BOOLEAN]
         /\ Deps.handle # NoHandle =>
              Deps.handle \in Handle /\ backend[Deps.handle] \in {"locked", "writable"}
<1>1. CASE \E i \in DOMAIN rail : rail[i].id = active
  <2> DEFINE w == rail[CHOOSE i \in DOMAIN rail : rail[i].id = active]
  <2>1. Deps = [handle |-> w.handle, readOnly |-> w.readOnly]
    BY <1>1 DEF Deps
  <2>2. PICK i \in DOMAIN rail : w = rail[i]
    BY <1>1
  <2>3. w.handle \in Handle /\ w.readOnly \in BOOLEAN /\ backend[w.handle] \in {"locked", "writable"}
    <3>1. rail[i] \in Workspace
      BY RailFacts DEF RailInv
    <3>2. QED
      BY <2>2, <3>1 DEF RailInv, HandleLivesAsLongAsItsUsers, Workspace
  <2> HIDE DEF w
  <2>4. QED
    BY <2>1, <2>3
<1>2. CASE ~\E i \in DOMAIN rail : rail[i].id = active
  BY <1>2 DEF Deps, NoDeps
<1>3. QED
  BY <1>1, <1>2

\* The store leaves an open handle as it is, or closes it.
LEMMA StoreLeavesOrCloses ==
  ASSUME RailInv, StoreNext
  PROVE  \A h \in Handle : backend[h] # "unopened" => backend'[h] \in {backend[h], "closed"}
<1>1. backend \in [Handle -> BackendState]
  BY DEF RailInv, TypeOK
<1>2. CASE OpenWorkspace \/ OpenFileWorkspace
  BY <1>1, <1>2 DEF OpenWorkspace, OpenFileWorkspace, Opened, IsFirst
<1>3. CASE \E i \in DOMAIN rail : Close(i)
  BY <1>1, <1>3 DEF Close, Release
<1>4. CASE SwitchNode
  BY <1>1, <1>4 DEF SwitchNode, IsFirst
<1>5. CASE ReplaceFile
  BY <1>1, <1>5 DEF ReplaceFile, IsFirst
<1>6. CASE backend' = backend
  BY <1>6
<1>7. QED
  BY <1>2, <1>3, <1>4, <1>5, <1>6
     DEF StoreNext, OpenSchema, Keep, SetActive, SetWorkspaceReadOnly, BeginReopen, ReopenFails

LEMMA StoreKeepsHook == ASSUME SyncInv, StoreNext, UNCHANGED hook PROVE SyncInv'
<1>1. RailInv'
  BY StoreKeeps DEF SyncInv
<1>2. UNCHANGED <<deps, pushed, calls, live, superseded>>
  BY DEF hook
<1>3. SyncTypeOK'
  BY <1>1, <1>2 DEF SyncInv, SyncTypeOK, RailInv
<1>4. \A h \in Handle : backend[h] # "unopened" => backend'[h] \in {backend[h], "closed"}
  BY StoreLeavesOrCloses DEF SyncInv
<1>5. \A c \in Call : calls[c] # Idle => calls[c].handle \in Handle
  BY CallFacts DEF SyncInv
<1>6. deps.handle # NoHandle => deps.handle \in Handle
  BY DEF SyncInv, SyncTypeOK
<1>7. \A h \in Handle : backend[h] # "unopened" => backend'[h] # "unopened"
  BY <1>4
<1>8. PushesOpened'
  BY <1>2, <1>4, <1>5, <1>6 DEF SyncInv, PushesOpened
<1>9. LiveIsForDeps'
  BY <1>2, <1>4, <1>6 DEF SyncInv, LiveIsForDeps, PushesOpened
<1>10. HookIsRight'
  <2>1. \A h \in Handle : InFlight(h)' = InFlight(h)
    BY <1>2 DEF InFlight
  <2>2. \A c \in Call : calls[c].stage = "applied" => calls[c] # Idle
    BY CallFacts DEF SyncInv
  <2>3. QED
    BY <1>2, <1>4, <1>5, <2>1, <2>2 DEF SyncInv, HookIsRight, PushesOpened
<1>11. QED
  BY <1>1, <1>3, <1>8, <1>9, <1>10 DEF SyncInv

\* The effect follows the store and touches nothing of it.
LEMMA EffectKeeps == ASSUME SyncInv, Effect PROVE SyncInv'
<1>1. SyncTypeOK /\ RailInv /\ PushesOpened /\ LiveIsForDeps /\ HookIsRight
  BY DEF SyncInv
<1>2. /\ UNCHANGED <<rail, active, opens, reopens, backend, adopted, pushed>> /\ deps' = Deps
      /\ Deps \in [handle : Handle \cup {NoHandle}, readOnly : BOOLEAN]
      /\ Deps.handle # NoHandle =>
           Deps.handle \in Handle /\ backend[Deps.handle] \in {"locked", "writable"}
  BY <1>1, DepsAreOpen DEF Effect, store
<1>3. RailInv'
  BY <1>1, <1>2 DEF RailInv, TypeOK, OriginsKnown, OriginKnown, FilesApart, ActiveExists,
                    HandleLivesAsLongAsItsUsers, AdoptedOpened
<1>4. Abandoned \subseteq Handle /\ (live # NoCall => Abandoned = {calls[live].handle})
  BY <1>1, CallFacts DEF Abandoned, LiveIsForDeps, SyncTypeOK
<1>5. CASE Known(Deps)
  <2>1. live' = NoCall /\ calls' = calls /\ superseded' = superseded \cup Abandoned
    BY <1>5 DEF Effect
  <2>2. SyncTypeOK'
    BY <1>1, <1>2, <1>3, <1>4, <2>1 DEF SyncTypeOK, RailInv
  <2>3. PushesOpened'
    BY <1>1, <1>2, <2>1 DEF PushesOpened
  <2>4. LiveIsForDeps'
    BY <1>2, <1>5, <2>1 DEF LiveIsForDeps, Known
  <2>5. HookIsRight'
    <3>1. \A h : InFlight(h)' = InFlight(h)
      BY <2>1 DEF InFlight
    <3>2. \A c \in Call : calls[c] # Idle /\ calls[c].handle \notin superseded' => c = live'
      BY <1>1, <1>4, <2>1, CallAssumption DEF HookIsRight
    <3>3. QED
      BY <1>1, <1>2, <2>1, <3>1, <3>2 DEF HookIsRight
  <2>6. QED
    BY <1>3, <2>2, <2>3, <2>4, <2>5 DEF SyncInv
<1>6. CASE ~Known(Deps)
  <2>1. PICK c \in Call :
          /\ calls[c] = Idle /\ calls' = [calls EXCEPT ![c] = Sent(Deps)] /\ live' = c
          /\ superseded' = (superseded \cup Abandoned) \ AloneFor(Deps.handle)
    BY <1>6 DEF Effect
  <2>2. Deps.handle # NoHandle /\ Deps.handle \in Handle /\ backend[Deps.handle] \in {"locked", "writable"}
    BY <1>2, <1>6 DEF Known
  <2>3. /\ Sent(Deps) \in [handle : Handle, mode : {"locked", "writable"}, stage : {"sent", "applied", "refused"}]
        /\ Sent(Deps).handle = Deps.handle /\ Sent(Deps).mode = Mode(Deps.readOnly)
        /\ Sent(Deps).stage = "sent" /\ Sent(Deps) # Idle
    BY <1>1, <2>2, CallFacts DEF Sent, Mode, Idle
  <2>4. calls'[c] = Sent(Deps) /\ \A x \in Call \ {c} : calls'[x] = calls[x]
    BY <1>1, <2>1 DEF SyncTypeOK
  <2>5. SyncTypeOK'
    BY <1>1, <1>2, <1>3, <1>4, <2>1, <2>3 DEF SyncTypeOK, RailInv
  <2>6. PushesOpened'
    BY <1>1, <1>2, <2>2, <2>3, <2>4 DEF PushesOpened
  <2>7. LiveIsForDeps'
    BY <1>2, <2>1, <2>2, <2>3, <2>4, CallAssumption DEF LiveIsForDeps
  <2>8. HookIsRight'
    <3>1. ASSUME NEW x \in Call \ {c}, calls[x] # Idle PROVE calls[x].handle \in superseded'
      <4>1. calls[x].handle \notin AloneFor(Deps.handle)
        BY <3>1 DEF AloneFor, InFlight
      <4>2. CASE x = live
        BY <1>4, <2>1, <4>1, <4>2, CallAssumption
      <4>3. CASE x # live
        BY <1>1, <2>1, <3>1, <4>1, <4>3 DEF HookIsRight
      <4>4. QED
        BY <4>2, <4>3
    <3>2. \A x \in Call : calls'[x] # Idle /\ calls'[x].handle \notin superseded' => x = live'
      BY <2>1, <2>4, <3>1
    <3>3. ASSUME NEW h \in Handle \ superseded', InFlight(h)' = {}, pushed[h] # "none"
          PROVE  backend[h] \in {pushed[h], "closed"}
      <4>1. h # Deps.handle
        BY <2>3, <2>4, <3>3 DEF InFlight
      <4>2. InFlight(h) = {}
        BY <1>1, <2>1, <2>4, <3>3, CallFacts DEF InFlight
      <4>3. h \notin superseded
        BY <2>1, <3>3, <4>1 DEF AloneFor
      <4>4. QED
        BY <1>1, <3>3, <4>2, <4>3 DEF HookIsRight
    <3>4. \A x \in Call : calls'[x].stage = "applied" => x # c /\ calls[x] # Idle
      BY <1>1, <2>3, <2>4, CallFacts
    <3>5. \A x \in Call : calls'[x].stage = "applied" => calls'[x].handle \in superseded'
      BY <2>4, <3>1, <3>4
    <3>6. QED
      BY <1>2, <3>2, <3>3, <3>5 DEF HookIsRight
  <2>9. QED
    BY <1>3, <2>5, <2>6, <2>7, <2>8 DEF SyncInv
<1>7. QED
  BY <1>5, <1>6

\* The backend takes a call that is the only one it can still take for its handle, or one
\* of several of which none will be believed.
LEMMA ApplyKeeps == ASSUME SyncInv, NEW c \in Call, Apply(c) PROVE SyncInv'
<1>1. SyncTypeOK /\ RailInv /\ PushesOpened /\ LiveIsForDeps /\ HookIsRight
  BY DEF SyncInv
<1> DEFINE h == calls[c].handle
<1>2. /\ calls[c] # Idle /\ h \in Handle /\ calls[c].mode \in {"locked", "writable"}
      /\ calls[c].stage = "sent" /\ backend[h] # "unopened"
  BY <1>1, CallFacts DEF Apply, PushesOpened
<1>3. UNCHANGED <<rail, active, opens, reopens, adopted, deps, pushed, live, superseded>>
  BY DEF Apply
<1>4. /\ \/ /\ backend[h] = "closed" /\ backend' = backend
            /\ calls' = [calls EXCEPT ![c].stage = "refused"]
         \/ /\ backend[h] # "closed" /\ backend' = [backend EXCEPT ![h] = calls[c].mode]
            /\ calls' = [calls EXCEPT ![c].stage = "applied"]
  BY DEF Apply
<1>5. /\ backend \in [Handle -> BackendState]
      /\ \A g \in Handle : backend'[g] = IF g = h /\ backend[h] # "closed" THEN calls[c].mode ELSE backend[g]
  BY <1>1, <1>2, <1>4 DEF SyncTypeOK, TypeOK
<1>6. /\ calls' \in [Call -> {Idle} \cup [handle : Handle, mode : {"locked", "writable"},
                                          stage : {"sent", "applied", "refused"}]]
      /\ \A x \in Call \ {c} : calls'[x] = calls[x]
      /\ calls'[c].handle = h /\ calls'[c].mode = calls[c].mode /\ calls'[c] # Idle
      /\ calls'[c].stage = IF backend[h] = "closed" THEN "refused" ELSE "applied"
  <2>1. calls[c] \in [handle : Handle, mode : {"locked", "writable"}, stage : {"sent", "applied", "refused"}]
    BY <1>1, <1>2 DEF SyncTypeOK
  <2>2. \A s \in {"applied", "refused"} :
          /\ [calls[c] EXCEPT !.stage = s] \in [handle : Handle, mode : {"locked", "writable"},
                                                stage : {"sent", "applied", "refused"}]
          /\ [calls[c] EXCEPT !.stage = s].handle = h /\ [calls[c] EXCEPT !.stage = s].mode = calls[c].mode
          /\ [calls[c] EXCEPT !.stage = s].stage = s
    BY <2>1
  <2>3. calls' = [calls EXCEPT ![c] = [calls[c] EXCEPT
                    !.stage = IF backend[h] = "closed" THEN "refused" ELSE "applied"]]
    BY <1>4
  <2>4. QED
    BY <1>1, <1>2, <2>2, <2>3, CallFacts DEF SyncTypeOK, Idle
<1>7. RailInv'
  <2>1. CASE backend' = backend
    BY <1>1, <1>3, <2>1 DEF RailInv, TypeOK, OriginsKnown, OriginKnown, FilesApart, ActiveExists,
                            HandleLivesAsLongAsItsUsers, AdoptedOpened
  <2>2. CASE backend[h] # "closed" /\ backend' = [backend EXCEPT ![h] = calls[c].mode]
    BY <1>1, <1>2, <1>3, <2>2, ModeKeeps
  <2>3. QED
    BY <1>4, <2>1, <2>2
<1> HIDE DEF h
<1>8. SyncTypeOK'
  BY <1>1, <1>3, <1>6, <1>7 DEF SyncTypeOK, RailInv
<1>9. \A g \in Handle : (backend[g] # "unopened" => backend'[g] # "unopened")
                       /\ (backend[g] = "closed" => backend'[g] = "closed")
  BY <1>2, <1>5
<1>10. \A x \in Call : calls[x] # Idle => calls[x].handle \in Handle
  BY <1>1, CallFacts
<1>11. PushesOpened'
  <2>1. deps.handle # NoHandle => deps.handle \in Handle
    BY <1>1 DEF SyncTypeOK
  <2>2. \A x \in Call \ {c} : calls'[x] # Idle =>
          /\ backend'[calls'[x].handle] # "unopened"
          /\ calls'[x].stage = "refused" => backend'[calls'[x].handle] = "closed"
    BY <1>1, <1>6, <1>9, <1>10 DEF PushesOpened
  <2>3. /\ backend'[calls'[c].handle] # "unopened"
        /\ calls'[c].stage = "refused" => backend'[calls'[c].handle] = "closed"
    BY <1>2, <1>6, <1>9
  <2>4. QED
    BY <1>1, <1>3, <1>9, <2>1, <2>2, <2>3 DEF PushesOpened
<1>12. LiveIsForDeps'
  <2>1. deps.handle # NoHandle => deps.handle \in Handle
    BY <1>1 DEF SyncTypeOK
  <2>2. live # NoCall => live \in Call /\ calls'[live] # Idle
                        /\ calls'[live].handle = calls[live].handle /\ calls'[live].mode = calls[live].mode
    BY <1>1, <1>6 DEF SyncTypeOK, LiveIsForDeps, h
  <2>3. QED
    BY <1>1, <1>3, <1>9, <2>1, <2>2 DEF LiveIsForDeps
<1>13. HookIsRight'
  <2>1. \A x \in Call : calls'[x].handle = calls[x].handle /\ (calls'[x] # Idle <=> calls[x] # Idle)
    BY <1>2, <1>6 DEF h
  <2>2. \A g : InFlight(g)' = InFlight(g)
    BY <2>1 DEF InFlight
  <2>3. \A x \in Call : calls'[x] # Idle /\ calls'[x].handle \notin superseded => x = live
    BY <1>1, <2>1 DEF HookIsRight
  <2>4. ASSUME NEW g \in Handle \ superseded, InFlight(g) = {}, pushed[g] # "none"
        PROVE  backend'[g] \in {pushed[g], "closed"}
    <3>1. g # h
      BY <2>4 DEF InFlight, h
    <3>2. QED
      BY <1>1, <1>5, <2>4, <3>1 DEF HookIsRight
  <2>5. ASSUME NEW x \in Call, calls'[x].stage = "applied", calls'[x].handle \notin superseded
        PROVE  backend'[calls'[x].handle] \in {calls'[x].mode, "closed"}
    <3>1. CASE x = c
      BY <1>2, <1>5, <1>6, <2>5, <3>1
    <3>2. CASE x # c
      <4>1. calls'[x] = calls[x] /\ calls[x] # Idle /\ x = live
        BY <1>1, <1>6, <2>3, <2>5, <3>2, CallFacts
      <4>2. calls[x].handle # h
        BY <1>1, <1>2, <2>5, <3>2, <4>1 DEF HookIsRight, h
      <4>3. QED
        BY <1>1, <1>5, <1>10, <2>5, <4>1, <4>2 DEF HookIsRight
    <3>3. QED
      BY <3>1, <3>2
  <2>6. QED
    BY <1>3, <2>2, <2>3, <2>4, <2>5 DEF HookIsRight
<1>14. QED
  BY <1>7, <1>8, <1>11, <1>12, <1>13 DEF SyncInv

\* An answer makes the hook believe what the backend has, or nothing new.
LEMMA AnswerKeeps == ASSUME SyncInv, NEW c \in Call, Answer(c) PROVE SyncInv'
<1>1. SyncTypeOK /\ RailInv /\ PushesOpened /\ LiveIsForDeps /\ HookIsRight
  BY DEF SyncInv
<1> DEFINE h == calls[c].handle
<1>2. /\ calls[c] # Idle /\ h \in Handle /\ calls[c].mode \in {"locked", "writable"}
      /\ calls[c].stage \in {"applied", "refused"} /\ backend[h] # "unopened"
      /\ calls[c].stage = "refused" => backend[h] = "closed"
  BY <1>1, CallFacts DEF Answer, PushesOpened
<1>3. UNCHANGED <<rail, active, opens, reopens, backend, adopted, deps, superseded>>
      /\ calls' = [calls EXCEPT ![c] = Idle]
  BY DEF Answer, store
<1>4. RailInv'
  BY <1>1, <1>3 DEF RailInv, TypeOK, OriginsKnown, OriginKnown, FilesApart, ActiveExists,
                    HandleLivesAsLongAsItsUsers, AdoptedOpened
<1>5. calls'[c] = Idle /\ (\A x \in Call \ {c} : calls'[x] = calls[x]) /\ Idle.handle = NoHandle
      /\ Idle.stage = "idle"
  BY <1>1, <1>3 DEF SyncTypeOK, Idle
<1>6. /\ pushed' \in [Handle -> {"none", "locked", "writable"}]
      /\ \A g \in Handle :
           pushed'[g] = IF live = c /\ calls[c].stage = "applied" /\ g = h THEN calls[c].mode ELSE pushed[g]
      /\ live' = IF live = c THEN NoCall ELSE live
  <2>1. CASE live = c /\ calls[c].stage = "applied"
    <3>1. pushed' = [pushed EXCEPT ![h] = calls[c].mode] /\ live' = NoCall
      BY <2>1 DEF Answer
    <3>2. QED
      BY <1>1, <1>2, <2>1, <3>1 DEF SyncTypeOK
  <2>2. CASE ~(live = c /\ calls[c].stage = "applied")
    <3>1. pushed' = pushed /\ live' = IF live = c THEN NoCall ELSE live
      BY <2>2 DEF Answer
    <3>2. QED
      BY <1>1, <2>2, <3>1 DEF SyncTypeOK
  <2>3. QED
    BY <2>1, <2>2
<1>7. SyncTypeOK'
  BY <1>1, <1>3, <1>4, <1>6 DEF SyncTypeOK, RailInv
<1> HIDE DEF h
<1>8. PushesOpened'
  BY <1>1, <1>2, <1>3, <1>5, <1>6 DEF PushesOpened
<1>9. LiveIsForDeps'
  <2>1. CASE live = c
    <3>1. /\ live' = NoCall /\ h = deps.handle /\ calls[c].mode = Mode(deps.readOnly)
      BY <1>1, <1>2, <1>6, <2>1, CallFacts DEF LiveIsForDeps, h
    <3>2. QED
      BY <1>2, <1>3, <1>6, <2>1, <3>1 DEF LiveIsForDeps
  <2>2. CASE live # c
    <3>1. live # NoCall => live \in Call \ {c}
      BY <1>1, <2>2 DEF SyncTypeOK
    <3>2. deps.handle # NoHandle => deps.handle \in Handle
      BY <1>1 DEF SyncTypeOK
    <3>3. QED
      BY <1>1, <1>3, <1>5, <1>6, <2>2, <3>1, <3>2 DEF LiveIsForDeps
  <2>3. QED
    BY <2>1, <2>2
<1>10. HookIsRight'
  <2>1. \A x \in Call : calls'[x] # Idle /\ calls'[x].handle \notin superseded => x = live'
    BY <1>1, <1>5, <1>6 DEF HookIsRight
  <2>2. ASSUME NEW g \in Handle \ superseded, InFlight(g)' = {}, pushed'[g] # "none"
        PROVE  backend[g] \in {pushed'[g], "closed"}
    <3>1. \A x \in Call \ {c} : calls[x].handle # g
      BY <1>5, <2>2 DEF InFlight
    <3>2. CASE g = h
      <4>1. live = c
        BY <1>1, <1>2, <2>2, <3>2 DEF HookIsRight, h
      <4>2. CASE calls[c].stage = "applied"
        BY <1>1, <1>6, <2>2, <3>2, <4>1, <4>2 DEF HookIsRight, h
      <4>3. CASE calls[c].stage = "refused"
        BY <1>2, <3>2, <4>3
      <4>4. QED
        BY <1>2, <4>2, <4>3
    <3>3. CASE g # h
      <4>1. InFlight(g) = {}
        BY <3>1, <3>3 DEF InFlight, h
      <4>2. QED
        BY <1>1, <1>6, <2>2, <3>3, <4>1 DEF HookIsRight
    <3>4. QED
      BY <3>2, <3>3
  <2>3. \A x \in Call : calls'[x].stage = "applied" => calls'[x] = calls[x]
    BY <1>5
  <2>4. QED
    BY <1>1, <1>3, <2>1, <2>2, <2>3 DEF HookIsRight
<1>11. QED
  BY <1>4, <1>7, <1>8, <1>9, <1>10 DEF SyncInv

-----------------------------------------------------------------------------
(* The theorems.                                                           *)

LEMMA SyncInitially == SyncInit => SyncInv
<1> SUFFICES ASSUME SyncInit PROVE SyncInv
  OBVIOUS
<1> USE DEF SyncInit, Init
<1>1. TypeOK
  BY WorkspaceAssumption DEF TypeOK, Id, NoId, BackendState
<1>2. DOMAIN rail = {} /\ DOMAIN reopens = {}
  OBVIOUS
<1>3. Grouped(rail) /\ OriginsKnown /\ FilesApart /\ ActiveExists /\ HandleLivesAsLongAsItsUsers
      /\ AdoptedOpened
  BY <1>2 DEF Grouped, OriginsKnown, FilesApart, ActiveExists, HandleLivesAsLongAsItsUsers, AdoptedOpened
<1>4. SyncTypeOK
  BY <1>1 DEF SyncTypeOK, NoDeps
<1>5. PushesOpened /\ LiveIsForDeps /\ HookIsRight
  BY CallAssumption DEF PushesOpened, LiveIsForDeps, HookIsRight, NoDeps, Idle
<1>6. QED
  BY <1>1, <1>3, <1>4, <1>5 DEF SyncInv, RailInv

LEMMA SyncStep == SyncInv /\ [SyncNext]_vars => SyncInv'
<1> SUFFICES ASSUME SyncInv, [SyncNext]_vars PROVE SyncInv'
  OBVIOUS
<1>1. CASE UNCHANGED vars
  BY <1>1 DEF vars, store, hook, SyncInv, SyncTypeOK, RailInv, TypeOK, OriginsKnown, OriginKnown,
              FilesApart, ActiveExists, HandleLivesAsLongAsItsUsers, AdoptedOpened,
              PushesOpened, LiveIsForDeps, HookIsRight, InFlight
<1>2. QED
  BY <1>1, StoreKeepsHook, EffectKeeps, ApplyKeeps, AnswerKeeps DEF SyncNext

\* Whatever is opened, switched, re-opened and closed, with calls of the hook in between,
\* the rail and the hook stay in the relation that the theorems below rest on.
THEOREM RailInvariant == SyncSpec => []SyncInv
BY SyncInitially, SyncStep, PTL DEF SyncSpec

\* The variables keep their types.
THEOREM RailTypeCorrect == SyncSpec => []SyncTypeOK
<1>1. SyncInv => SyncTypeOK
  BY DEF SyncInv
<1>2. QED
  BY <1>1, RailInvariant, PTL

\* The rail reads parent, child, child, next parent, and shows an active workspace.
THEOREM RailReadsInGroups == SyncSpec => [](RailGrouped /\ ActiveExists)
<1>1. SyncInv => RailGrouped /\ ActiveExists
  BY GroupedIsRailGrouped DEF SyncInv, RailInv, TypeOK
<1>2. QED
  BY <1>1, RailInvariant, PTL

\* No workspace loses its connection to what another one does, and a database connection
\* is closed with its last user.
THEOREM HandlesOutliveTheirUsers == SyncSpec => []HandleLivesAsLongAsItsUsers
<1>1. SyncInv => HandleLivesAsLongAsItsUsers
  BY DEF SyncInv, RailInv
<1>2. QED
  BY <1>1, RailInvariant, PTL

\* When the calls are answered the handle has its workspace's mode, but for the calls
\* abandoned in flight.
THEOREM ModesSettle == SyncSpec => []ModeSettles
<1>1. SyncInv => ModeSettles
  <2> SUFFICES ASSUME SyncInv, Quiet, Deps.handle # NoHandle, Deps.handle \notin superseded
               PROVE  /\ backend[Deps.handle] = Mode(Deps.readOnly)
                      /\ pushed[Deps.handle] = Mode(Deps.readOnly)
    BY DEF ModeSettles
  <2>1. Deps = deps /\ \A c \in Call : calls[c] = Idle
    BY DEF Quiet, Changed
  <2>2. live = NoCall
    BY <2>1 DEF SyncInv, SyncTypeOK, LiveIsForDeps
  <2>3. Deps.handle \in Handle /\ backend[Deps.handle] \in {"locked", "writable"}
    BY DepsAreOpen DEF SyncInv
  <2>4. pushed[Deps.handle] = Mode(Deps.readOnly)
    BY <2>1, <2>2, <2>3 DEF SyncInv, LiveIsForDeps
  <2>5. InFlight(Deps.handle) = {}
    BY <2>1, <2>3, CallFacts DEF InFlight, SyncInv
  <2>6. pushed[Deps.handle] # "none"
    BY <2>4 DEF Mode
  <2>7. backend[Deps.handle] \in {pushed[Deps.handle], "closed"}
    BY <2>3, <2>5, <2>6 DEF SyncInv, HookIsRight
  <2>8. QED
    BY <2>3, <2>4, <2>7
<1>2. QED
  BY <1>1, RailInvariant, PTL

-----------------------------------------------------------------------------
(* The connection form: what a form says is what the entry made of it says     *)
(* when it is opened again, one engine at a time.                              *)

NoSecrets == [password |-> "", sshSecret |-> ""]

\* Reopened and saved as it is, the entry is the same.
ReopensAs(f, p) == BuildParams(f) = p /\ Secrets(f) = NoSecrets

LEMMA NewFormIsForm == IsForm(NewForm) /\ NewForm.password = "" /\ NewForm.importedSecret = "" /\ NewForm.useSsh = FALSE
  BY DEF IsForm, NewForm, Engine, TunnelledEngine, AwsAuth

\* The part of a form a tunnel is read into.
LEMMA SshFieldsAre ==
  ASSUME NEW p
  PROVE  LET f == SshFields(p)
         IN  /\ IsForm(f) /\ f.password = "" /\ f.importedSecret = "" /\ f.sshPassword = ""
             /\ f.useSsh = (p.ssh # <<>>)
             /\ p.ssh # <<>> =>
                  /\ f.sshHost = p.ssh[1].host /\ f.sshPort = p.ssh[1].port /\ f.sshUser = p.ssh[1].user
                  /\ f.sshAuth = p.ssh[1].method
                  /\ p.ssh[1].method = "key" => f.sshKey = p.ssh[1].keyPath
  BY DEF SshFields, IsForm, ++, NewForm, Engine, TunnelledEngine, AwsAuth

\* What every form that is opened from an entry is made over.
LEMMA OpenedFormIs ==
  ASSUME NEW e \in Engine
  PROVE  LET g == [engine |-> e, portTouched |-> TRUE, userTouched |-> TRUE] ++ NewForm
         IN  /\ IsForm(g) /\ g.engine = e /\ g.portTouched = TRUE /\ g.userTouched = TRUE
             /\ g.password = "" /\ g.importedSecret = "" /\ g.useSsh = FALSE
  BY DEF IsForm, ++, NewForm, Engine, TunnelledEngine, AwsAuth

\* The form an entry is opened in has what the entry says.
LEMMA FormOfFile ==
  ASSUME NEW p, p.engine = "sqlite"
  PROVE  LET f == FormOf(p)
         IN  /\ IsForm(f) /\ f.engine = "sqlite" /\ f.file = p.path
             /\ Secrets(f) = NoSecrets
<1>1. FormOf(p) = [file |-> p.path] ++ ([engine |-> p.engine, portTouched |-> TRUE, userTouched |-> TRUE] ++ NewForm)
  BY DEF FormOf
<1>2. QED
  BY <1>1 DEF IsForm, ++, NewForm, Engine, TunnelledEngine, AwsAuth, Secrets, NoSecrets

LEMMA FormOfDynamo ==
  ASSUME NEW p, p.engine = "dynamodb", p.mode \in AwsAuth
  PROVE  LET f == FormOf(p)
         IN  /\ IsForm(f) /\ f.engine = "dynamodb" /\ f.region = p.region /\ f.awsAuth = p.mode
             /\ (f.ddbMode = "local") <=> (p.endpoint # "")
             /\ p.endpoint # "" => f.ddbEndpoint = p.endpoint
             /\ p.mode = "profile" => f.awsProfile = p.credential
             /\ p.mode = "keys" => f.awsAccessKeyId = p.credential
             /\ Secrets(f) = NoSecrets
<1> DEFINE g == [engine |-> p.engine, portTouched |-> TRUE, userTouched |-> TRUE] ++ NewForm
<1>1. FormOf(p) =
        [ddbMode |-> IF p.endpoint # "" THEN "local" ELSE "aws", region |-> p.region,
         ddbEndpoint |-> IF p.endpoint # "" THEN p.endpoint ELSE NewForm.ddbEndpoint,
         awsAuth |-> p.mode,
         awsProfile |-> IF p.mode = "profile" THEN p.credential ELSE NewForm.awsProfile,
         awsAccessKeyId |-> IF p.mode = "keys" THEN p.credential ELSE ""]
        ++ g
  BY DEF FormOf
<1>2. /\ IsForm(g) /\ g.engine = p.engine /\ g.portTouched = TRUE /\ g.userTouched = TRUE
      /\ g.password = "" /\ g.importedSecret = "" /\ g.useSsh = FALSE
  BY OpenedFormIs DEF Engine, TunnelledEngine
<1> HIDE DEF g
<1>3. /\ DOMAIN FormOf(p) = DOMAIN NewForm
      /\ FormOf(p).engine = p.engine /\ FormOf(p).portTouched = TRUE /\ FormOf(p).userTouched = TRUE
      /\ FormOf(p).awsAuth = p.mode /\ FormOf(p).useSsh = FALSE
      /\ FormOf(p).password = "" /\ FormOf(p).importedSecret = ""
  <2>1. /\ DOMAIN g = DOMAIN NewForm
        /\ {"engine", "portTouched", "userTouched", "awsAuth", "useSsh", "password", "importedSecret", "sshPassword"} \subseteq DOMAIN g
    BY <1>2 DEF IsForm, NewForm
  <2>2. DOMAIN FormOf(p) = DOMAIN NewForm
    BY <1>1, <2>1 DEF ++, NewForm
  <2>3. QED
    BY <1>1, <1>2, <2>1, <2>2 DEF ++
<1>4. IsForm(FormOf(p)) /\ Secrets(FormOf(p)) = NoSecrets
  <2>1. IsForm(FormOf(p))
    BY <1>2, <1>3 DEF IsForm
  <2>2. QED
    BY <1>3, <2>1 DEF Secrets, NoSecrets
<1>5. /\ FormOf(p).region = p.region /\ FormOf(p).awsAuth = p.mode
      /\ (FormOf(p).ddbMode = "local") <=> (p.endpoint # "")
      /\ p.endpoint # "" => FormOf(p).ddbEndpoint = p.endpoint
      /\ p.mode = "profile" => FormOf(p).awsProfile = p.credential
      /\ p.mode = "keys" => FormOf(p).awsAccessKeyId = p.credential
  BY <1>1 DEF ++
<1>6. QED
  BY <1>3, <1>4, <1>5

LEMMA FormOfMongo ==
  ASSUME NEW p, p.engine = "mongodb"
  PROVE  LET f == FormOf(p)
         IN  /\ IsForm(f) /\ f.engine = "mongodb"
             /\ (f.mongoConnMode = "uri") <=> (p.uri # "")
             /\ p.uri # "" => f.mongoUri = p.uri
             /\ f.host = p.host /\ f.port = p.port /\ f.db = p.database /\ f.user = p.user /\ f.tls = p.tlsMode
             /\ Secrets(f) = NoSecrets
<1> DEFINE g == [engine |-> p.engine, portTouched |-> TRUE, userTouched |-> TRUE] ++ NewForm
<1>1. FormOf(p) =
        [mongoConnMode |-> IF p.uri # "" THEN "uri" ELSE "fields",
         mongoUri |-> IF p.uri # "" THEN p.uri ELSE NewForm.mongoUri,
         host |-> p.host, port |-> p.port, db |-> p.database, user |-> p.user, tls |-> p.tlsMode]
        ++ g
  BY DEF FormOf
<1>2. /\ IsForm(g) /\ g.engine = p.engine /\ g.portTouched = TRUE /\ g.userTouched = TRUE
      /\ g.password = "" /\ g.importedSecret = "" /\ g.useSsh = FALSE
  BY OpenedFormIs DEF Engine, TunnelledEngine
<1> HIDE DEF g
<1>3. /\ DOMAIN FormOf(p) = DOMAIN NewForm
      /\ FormOf(p).engine = p.engine /\ FormOf(p).portTouched = TRUE /\ FormOf(p).userTouched = TRUE
      /\ FormOf(p).awsAuth = g.awsAuth /\ FormOf(p).useSsh = FALSE
      /\ FormOf(p).password = "" /\ FormOf(p).importedSecret = ""
  <2>1. /\ DOMAIN g = DOMAIN NewForm
        /\ {"engine", "portTouched", "userTouched", "awsAuth", "useSsh", "password", "importedSecret", "sshPassword"} \subseteq DOMAIN g
    BY <1>2 DEF IsForm, NewForm
  <2>2. DOMAIN FormOf(p) = DOMAIN NewForm
    BY <1>1, <2>1 DEF ++, NewForm
  <2>3. QED
    BY <1>1, <1>2, <2>1, <2>2 DEF ++
<1>4. IsForm(FormOf(p)) /\ Secrets(FormOf(p)) = NoSecrets
  <2>1. IsForm(FormOf(p))
    BY <1>2, <1>3 DEF IsForm
  <2>2. QED
    BY <1>3, <2>1 DEF Secrets, NoSecrets
<1>5. /\ (FormOf(p).mongoConnMode = "uri") <=> (p.uri # "")
      /\ p.uri # "" => FormOf(p).mongoUri = p.uri
      /\ FormOf(p).host = p.host /\ FormOf(p).port = p.port /\ FormOf(p).db = p.database
      /\ FormOf(p).user = p.user /\ FormOf(p).tls = p.tlsMode
  BY <1>1 DEF ++
<1>6. QED
  BY <1>3, <1>4, <1>5

LEMMA FormOfCassandra ==
  ASSUME NEW p, p.engine = "cassandra"
  PROVE  LET f == FormOf(p)
         IN  /\ IsForm(f) /\ f.engine = "cassandra" /\ f.host = p.host /\ f.port = p.port /\ f.db = p.keyspace
             /\ f.datacenter = p.localDatacenter /\ f.user = p.user /\ f.tls = p.tlsMode
             /\ Secrets(f) = NoSecrets
<1> DEFINE g == [engine |-> p.engine, portTouched |-> TRUE, userTouched |-> TRUE] ++ NewForm
<1>1. FormOf(p) =
        [host |-> p.host, port |-> p.port, db |-> p.keyspace, datacenter |-> p.localDatacenter,
         user |-> p.user, tls |-> p.tlsMode]
        ++ g
  BY DEF FormOf
<1>2. /\ IsForm(g) /\ g.engine = p.engine /\ g.portTouched = TRUE /\ g.userTouched = TRUE
      /\ g.password = "" /\ g.importedSecret = "" /\ g.useSsh = FALSE
  BY OpenedFormIs DEF Engine, TunnelledEngine
<1> HIDE DEF g
<1>3. /\ DOMAIN FormOf(p) = DOMAIN NewForm
      /\ FormOf(p).engine = p.engine /\ FormOf(p).portTouched = TRUE /\ FormOf(p).userTouched = TRUE
      /\ FormOf(p).awsAuth = g.awsAuth /\ FormOf(p).useSsh = FALSE
      /\ FormOf(p).password = "" /\ FormOf(p).importedSecret = ""
  <2>1. /\ DOMAIN g = DOMAIN NewForm
        /\ {"engine", "portTouched", "userTouched", "awsAuth", "useSsh", "password", "importedSecret", "sshPassword"} \subseteq DOMAIN g
    BY <1>2 DEF IsForm, NewForm
  <2>2. DOMAIN FormOf(p) = DOMAIN NewForm
    BY <1>1, <2>1 DEF ++, NewForm
  <2>3. QED
    BY <1>1, <1>2, <2>1, <2>2 DEF ++
<1>4. IsForm(FormOf(p)) /\ Secrets(FormOf(p)) = NoSecrets
  <2>1. IsForm(FormOf(p))
    BY <1>2, <1>3 DEF IsForm
  <2>2. QED
    BY <1>3, <2>1 DEF Secrets, NoSecrets
<1>5. /\ FormOf(p).host = p.host /\ FormOf(p).port = p.port /\ FormOf(p).db = p.keyspace
      /\ FormOf(p).datacenter = p.localDatacenter /\ FormOf(p).user = p.user /\ FormOf(p).tls = p.tlsMode
  BY <1>1 DEF ++
<1>6. QED
  BY <1>3, <1>4, <1>5

\* What a tunnelled form has of its tunnel.
SameTunnel(f, p) ==
  LET g == SshFields(p)
  IN  /\ f.useSsh = g.useSsh /\ f.sshHost = g.sshHost /\ f.sshPort = g.sshPort /\ f.sshUser = g.sshUser
      /\ f.sshAuth = g.sshAuth /\ f.sshKey = g.sshKey

LEMMA FormOfTypesense ==
  ASSUME NEW p, p.engine = "typesense"
  PROVE  LET f == FormOf(p)
         IN  /\ IsForm(f) /\ f.engine = "typesense" /\ f.protocol = p.protocol /\ f.host = p.host
             /\ f.port = p.port /\ f.db = p.defaultCollection /\ f.tsNodes = p.nodes
             /\ SameTunnel(f, p)
             /\ Secrets(f) = NoSecrets
<1> DEFINE g == SshFields(p)
<1>1. FormOf(p) =
        [protocol |-> p.protocol, host |-> p.host, port |-> p.port, db |-> p.defaultCollection,
         tsNodes |-> p.nodes]
        ++ [engine |-> p.engine, portTouched |-> TRUE, userTouched |-> TRUE] ++ g
  BY DEF FormOf
<1>2. IsForm(g) /\ g.password = "" /\ g.importedSecret = "" /\ g.sshPassword = ""
  BY SshFieldsAre
<1> HIDE DEF g
<1>3. /\ DOMAIN FormOf(p) = DOMAIN NewForm /\ FormOf(p).engine = "typesense" /\ FormOf(p).awsAuth = g.awsAuth
      /\ FormOf(p).useSsh = g.useSsh /\ FormOf(p).portTouched = TRUE /\ FormOf(p).userTouched = TRUE
      /\ FormOf(p).password = "" /\ FormOf(p).importedSecret = "" /\ FormOf(p).sshPassword = ""
  <2>1. /\ DOMAIN g = DOMAIN NewForm
        /\ {"engine", "portTouched", "userTouched", "awsAuth", "useSsh", "password", "importedSecret", "sshPassword"} \subseteq DOMAIN g
    BY <1>2 DEF IsForm, NewForm
  <2>2. DOMAIN FormOf(p) = DOMAIN NewForm
    BY <1>1, <2>1 DEF ++, NewForm
  <2>3. QED
    BY <1>1, <1>2, <2>1, <2>2 DEF ++
<1>4. IsForm(FormOf(p)) /\ Secrets(FormOf(p)) = NoSecrets
  <2>1. IsForm(FormOf(p))
    BY <1>2, <1>3 DEF IsForm, Engine, TunnelledEngine
  <2>2. QED
    BY <1>3, <2>1 DEF Secrets, NoSecrets
<1>5. /\ FormOf(p).protocol = p.protocol /\ FormOf(p).host = p.host
      /\ FormOf(p).port = p.port /\ FormOf(p).db = p.defaultCollection /\ FormOf(p).tsNodes = p.nodes
  BY <1>1 DEF ++
<1>6. SameTunnel(FormOf(p), p)
  BY <1>1, <1>2 DEF SameTunnel, IsForm, ++, NewForm, g
<1>7. QED
  BY <1>3, <1>4, <1>5, <1>6

LEMMA FormOfServer ==
  ASSUME NEW p, p.engine \in {"postgres", "mysql", "mssql", "clickhouse", "redis"}
  PROVE  LET f == FormOf(p)
         IN  /\ IsForm(f) /\ f.engine = p.engine /\ f.host = p.host /\ f.port = p.port /\ f.user = p.user
             /\ f.tls = p.tlsMode /\ f.db = (IF p.engine = "redis" THEN p.dbIndex ELSE p.database)
             /\ SameTunnel(f, p)
             /\ Secrets(f) = NoSecrets
<1> DEFINE g == SshFields(p)
<1>1. FormOf(p) =
        [host |-> p.host, port |-> p.port, user |-> p.user, tls |-> p.tlsMode,
         db |-> IF p.engine = "redis" THEN p.dbIndex ELSE p.database]
        ++ [engine |-> p.engine, portTouched |-> TRUE, userTouched |-> TRUE] ++ g
  BY DEF FormOf
<1>2. IsForm(g) /\ g.password = "" /\ g.importedSecret = "" /\ g.sshPassword = ""
  BY SshFieldsAre
<1> HIDE DEF g
<1>3. /\ DOMAIN FormOf(p) = DOMAIN NewForm /\ FormOf(p).engine = p.engine /\ FormOf(p).awsAuth = g.awsAuth
      /\ FormOf(p).useSsh = g.useSsh /\ FormOf(p).portTouched = TRUE /\ FormOf(p).userTouched = TRUE
      /\ FormOf(p).password = "" /\ FormOf(p).importedSecret = "" /\ FormOf(p).sshPassword = ""
  <2>1. /\ DOMAIN g = DOMAIN NewForm
        /\ {"engine", "portTouched", "userTouched", "awsAuth", "useSsh", "password", "importedSecret", "sshPassword"} \subseteq DOMAIN g
    BY <1>2 DEF IsForm, NewForm
  <2>2. DOMAIN FormOf(p) = DOMAIN NewForm
    BY <1>1, <2>1 DEF ++, NewForm
  <2>3. QED
    BY <1>1, <1>2, <2>1, <2>2 DEF ++
<1>4. IsForm(FormOf(p)) /\ Secrets(FormOf(p)) = NoSecrets
  <2>1. IsForm(FormOf(p))
    BY <1>2, <1>3 DEF IsForm, Engine, TunnelledEngine
  <2>2. QED
    BY <1>3, <2>1 DEF Secrets, NoSecrets
<1>5. /\ FormOf(p).host = p.host /\ FormOf(p).port = p.port /\ FormOf(p).user = p.user
      /\ FormOf(p).tls = p.tlsMode /\ FormOf(p).db = (IF p.engine = "redis" THEN p.dbIndex ELSE p.database)
  BY <1>1 DEF ++
<1>6. SameTunnel(FormOf(p), p)
  BY <1>1, <1>2 DEF SameTunnel, IsForm, ++, NewForm, g
<1>7. QED
  BY <1>3, <1>4, <1>5, <1>6

\* A form opened from any entry is a form.
LEMMA FormOfIsForm ==
  ASSUME NEW p, IsEntry(p)
  PROVE  IsForm(FormOf(p))
<1>1. CASE p.engine = "sqlite"
  BY <1>1, FormOfFile
<1>2. CASE p.engine = "dynamodb"
  BY <1>2, FormOfDynamo DEF IsEntry
<1>3. CASE p.engine = "mongodb"
  BY <1>3, FormOfMongo
<1>4. CASE p.engine = "cassandra"
  BY <1>4, FormOfCassandra
<1>5. CASE p.engine = "typesense"
  BY <1>5, FormOfTypesense
<1>6. CASE p.engine \in {"postgres", "mysql", "mssql", "clickhouse", "redis"}
  BY <1>6, FormOfServer
<1>7. QED
  BY <1>1, <1>2, <1>3, <1>4, <1>5, <1>6 DEF IsEntry, Engine, TunnelledEngine

-----------------------------------------------------------------------------
\* One engine at a time: what is built of the form that is opened from what a form says.
LEMMA FileReopens ==
  ASSUME NEW f, IsForm(f), Valid(f), Shape(f) = "sqlite"
  PROVE  ReopensAs(FormOf(Params(f)), Params(f))
<1> DEFINE p == Params(f)
           g == FormOf(p)
<1>1. p = [engine |-> "sqlite", path |-> f.file] /\ f.file # ""
  BY DEF Params, Valid
<1> HIDE DEF p
<1>2. p.engine = "sqlite" /\ p.path = f.file
  BY <1>1
<1>3. g.engine = "sqlite" /\ g.file = f.file /\ Secrets(g) = NoSecrets
  BY <1>2, FormOfFile
<1> HIDE DEF g
<1>4. Shape(g) = "sqlite"
  BY <1>3 DEF Shape
<1>5. Valid(g) /\ Params(g) = p
  BY <1>1, <1>3, <1>4 DEF Valid, Params
<1>6. QED
  BY <1>3, <1>5 DEF ReopensAs, BuildParams, g, p

LEMMA DynamoReopens ==
  ASSUME NEW f, IsForm(f), Valid(f), Shape(f) = "dynamodb"
  PROVE  ReopensAs(FormOf(Params(f)), Params(f)) /\ IsEntry(Params(f))
<1> DEFINE p == Params(f)
           g == FormOf(p)
<1>1. p = [engine |-> "dynamodb", region |-> f.region,
           endpoint |-> IF f.ddbMode = "local" THEN f.ddbEndpoint ELSE "",
           mode |-> f.awsAuth,
           credential |-> IF f.awsAuth = "keys" THEN f.awsAccessKeyId
                          ELSE IF f.awsProfile = "" THEN "default" ELSE f.awsProfile]
  BY DEF Params
<1>2. /\ f.region # "" /\ f.awsAuth \in AwsAuth
      /\ f.ddbMode = "local" => f.ddbEndpoint # ""
      /\ f.awsAuth = "keys" => f.awsAccessKeyId # ""
  BY DEF Valid, IsForm
<1> HIDE DEF p
<1>3. /\ p.engine = "dynamodb" /\ p.region = f.region /\ p.mode = f.awsAuth
      /\ p.endpoint = IF f.ddbMode = "local" THEN f.ddbEndpoint ELSE ""
      /\ p.credential = IF f.awsAuth = "keys" THEN f.awsAccessKeyId
                         ELSE IF f.awsProfile = "" THEN "default" ELSE f.awsProfile
  BY <1>1
<1>4. IsEntry(p)
  BY <1>2, <1>3 DEF IsEntry, Engine, TunnelledEngine
<1>5. /\ g.engine = "dynamodb" /\ g.region = p.region /\ g.awsAuth = p.mode
      /\ (g.ddbMode = "local") <=> (p.endpoint # "")
      /\ p.endpoint # "" => g.ddbEndpoint = p.endpoint
      /\ p.mode = "profile" => g.awsProfile = p.credential
      /\ p.mode = "keys" => g.awsAccessKeyId = p.credential
      /\ Secrets(g) = NoSecrets
  BY <1>2, <1>3, FormOfDynamo
<1> HIDE DEF g
<1>6. Shape(g) = "dynamodb"
  BY <1>5 DEF Shape
<1>7. Valid(g)
  BY <1>2, <1>3, <1>5, <1>6 DEF Valid, AwsAuth
<1>8. /\ p.endpoint = IF g.ddbMode = "local" THEN g.ddbEndpoint ELSE ""
      /\ p.credential = IF g.awsAuth = "keys" THEN g.awsAccessKeyId
                         ELSE IF g.awsProfile = "" THEN "default" ELSE g.awsProfile
  BY <1>2, <1>3, <1>5 DEF AwsAuth
<1>9. Params(g) = [engine |-> "dynamodb", region |-> p.region, endpoint |-> p.endpoint, mode |-> p.mode,
                   credential |-> p.credential]
  BY <1>5, <1>6, <1>8 DEF Params
<1>10. Params(g) = p
  BY <1>1, <1>3, <1>9
<1>11. QED
  BY <1>4, <1>5, <1>7, <1>10 DEF ReopensAs, BuildParams, g, p

LEMMA MongoUriReopens ==
  ASSUME NEW f, IsForm(f), Valid(f), Shape(f) = "mongodb uri"
  PROVE  ReopensAs(FormOf(Params(f)), Params(f)) /\ IsEntry(Params(f))
<1> DEFINE p == Params(f)
           g == FormOf(p)
<1>1. p = [engine |-> "mongodb", uri |-> f.mongoUri, tlsMode |-> f.tls, user |-> "", database |-> "",
           host |-> IF f.host = "" THEN "localhost" ELSE f.host,
           port |-> IF IsPort(f.port) THEN f.port ELSE "27017"]
  BY DEF Params
<1>2. f.mongoUri \notin {"", "bad"}
  BY DEF Valid
<1> HIDE DEF p
<1>3. /\ p.engine = "mongodb" /\ p.uri = f.mongoUri /\ p.tlsMode = f.tls /\ p.user = "" /\ p.database = ""
      /\ p.host # "" /\ IsPort(p.port)
      /\ p = [engine |-> "mongodb", uri |-> p.uri, tlsMode |-> p.tlsMode, user |-> "", database |-> "",
              host |-> p.host, port |-> p.port]
  BY <1>1 DEF IsPort
<1>4. /\ g.engine = "mongodb" /\ g.mongoConnMode = "uri" /\ g.mongoUri = p.uri /\ g.host = p.host
      /\ g.port = p.port /\ g.tls = p.tlsMode /\ Secrets(g) = NoSecrets
  BY <1>2, <1>3, FormOfMongo
<1> HIDE DEF g
<1>5. Shape(g) = "mongodb uri"
  BY <1>4 DEF Shape
<1>6. Valid(g) /\ Params(g) = p
  BY <1>2, <1>3, <1>4, <1>5 DEF Valid, Params
<1>7. QED
  BY <1>3, <1>4, <1>6 DEF ReopensAs, BuildParams, IsEntry, Engine, TunnelledEngine, g, p

LEMMA MongoReopens ==
  ASSUME NEW f, IsForm(f), Valid(f), Shape(f) = "mongodb"
  PROVE  ReopensAs(FormOf(Params(f)), Params(f)) /\ IsEntry(Params(f))
<1> DEFINE p == Params(f)
           g == FormOf(p)
<1>1. p = [uri |-> "", database |-> f.db] ++ Server(f) /\ f.engine = "mongodb"
  BY DEF Params, Shape
<1>2. f.host # "" /\ IsPort(f.port)
  BY DEF Valid
<1>3. /\ p.engine = "mongodb" /\ p.uri = "" /\ p.database = f.db /\ p.host = f.host /\ p.port = f.port
      /\ p.user = f.user /\ p.tlsMode = f.tls
  BY <1>1 DEF Server, ++
<1> HIDE DEF p
<1>4. /\ g.engine = "mongodb" /\ g.mongoConnMode # "uri" /\ g.host = f.host /\ g.port = f.port
      /\ g.db = f.db /\ g.user = f.user /\ g.tls = f.tls /\ Secrets(g) = NoSecrets
  BY <1>3, FormOfMongo
<1> HIDE DEF g
<1>5. Shape(g) = "mongodb" /\ Server(g) = Server(f)
  BY <1>1, <1>4 DEF Shape, Server
<1>6. Valid(g)
  BY <1>2, <1>4, <1>5 DEF Valid
<1>7. Params(g) = [uri |-> "", database |-> g.db] ++ Server(g)
  BY <1>5 DEF Params
<1>8. Params(g) = p
  BY <1>1, <1>4, <1>5, <1>7
<1>9. QED
  BY <1>3, <1>4, <1>6, <1>8 DEF ReopensAs, BuildParams, IsEntry, Engine, TunnelledEngine, g, p

LEMMA CassandraReopens ==
  ASSUME NEW f, IsForm(f), Valid(f), Shape(f) = "cassandra"
  PROVE  ReopensAs(FormOf(Params(f)), Params(f)) /\ IsEntry(Params(f))
<1> DEFINE p == Params(f)
           g == FormOf(p)
<1>1. p = [keyspace |-> f.db, localDatacenter |-> f.datacenter] ++ Server(f) /\ f.engine = "cassandra"
  BY DEF Params, Shape
<1>2. f.host # "" /\ IsPort(f.port)
  BY DEF Valid
<1>3. /\ p.engine = "cassandra" /\ p.keyspace = f.db /\ p.localDatacenter = f.datacenter
      /\ p.host = f.host /\ p.port = f.port /\ p.user = f.user /\ p.tlsMode = f.tls
  BY <1>1 DEF Server, ++
<1> HIDE DEF p
<1>4. /\ g.engine = "cassandra" /\ g.host = f.host /\ g.port = f.port /\ g.db = f.db
      /\ g.datacenter = f.datacenter /\ g.user = f.user /\ g.tls = f.tls /\ Secrets(g) = NoSecrets
  BY <1>3, FormOfCassandra
<1> HIDE DEF g
<1>5. Shape(g) = "cassandra" /\ Server(g) = Server(f)
  BY <1>1, <1>4 DEF Shape, Server
<1>6. Valid(g)
  BY <1>2, <1>4, <1>5 DEF Valid
<1>7. Params(g) = [keyspace |-> g.db, localDatacenter |-> g.datacenter] ++ Server(g)
  BY <1>5 DEF Params
<1>8. Params(g) = p
  BY <1>1, <1>4, <1>5, <1>7
<1>9. QED
  BY <1>3, <1>4, <1>6, <1>8 DEF ReopensAs, BuildParams, IsEntry, Engine, TunnelledEngine, g, p

\* A tunnel that is valid is read as it was written.
LEMMA TunnelReopens ==
  ASSUME NEW f, NEW g, NEW p, IsForm(f), SshValid(f), p.ssh = Tunnel(f).ssh, SameTunnel(g, p)
  PROVE  Tunnel(g) = Tunnel(f) /\ SshValid(g)
<1>1. /\ f.useSsh \in BOOLEAN
      /\ f.useSsh => /\ f.sshHost # "" /\ IsPort(f.sshPort) /\ f.sshUser # ""
                     /\ f.sshAuth = "key" => f.sshKey # ""
  BY DEF IsForm, SshValid
<1>2. CASE f.useSsh = FALSE
  <2>1. Tunnel(f) = [ssh |-> <<>>] /\ p.ssh = <<>>
    BY <1>2 DEF Tunnel
  <2>2. g.useSsh = FALSE
    BY <2>1, SshFieldsAre DEF SameTunnel
  <2>3. QED
    BY <2>1, <2>2 DEF Tunnel, SshValid
<1>3. CASE f.useSsh = TRUE
  <2>1. Tunnel(f) = [ssh |-> <<BuildSsh(f)>>] /\ p.ssh = <<BuildSsh(f)>> /\ p.ssh # <<>> /\ p.ssh[1] = BuildSsh(f)
    BY <1>3 DEF Tunnel
  <2>2. /\ g.useSsh = TRUE /\ g.sshHost = BuildSsh(f).host /\ g.sshPort = BuildSsh(f).port
        /\ g.sshUser = BuildSsh(f).user /\ g.sshAuth = BuildSsh(f).method
        /\ BuildSsh(f).method = "key" => g.sshKey = BuildSsh(f).keyPath
    BY <2>1, SshFieldsAre DEF SameTunnel
  <2>3. /\ g.sshHost = f.sshHost /\ g.sshPort = f.sshPort /\ g.sshUser = f.sshUser /\ g.sshAuth = f.sshAuth
        /\ f.sshAuth = "key" => g.sshKey = f.sshKey
    BY <2>2 DEF BuildSsh
  <2>4. BuildSsh(g) = BuildSsh(f)
    BY <2>3 DEF BuildSsh
  <2>5. Tunnel(g) = Tunnel(f)
    BY <2>1, <2>2, <2>4 DEF Tunnel
  <2>6. SshValid(g)
    BY <1>1, <1>3, <2>2, <2>3 DEF SshValid
  <2>7. QED
    BY <2>5, <2>6
<1>4. QED
  BY <1>1, <1>2, <1>3

LEMMA TypesenseReopens ==
  ASSUME NEW f, IsForm(f), Valid(f), Shape(f) = "typesense"
  PROVE  ReopensAs(FormOf(Params(f)), Params(f)) /\ IsEntry(Params(f))
<1> DEFINE p == Params(f)
           g == FormOf(p)
           own(h) == [engine |-> "typesense", protocol |-> h.protocol, host |-> h.host, port |-> h.port,
                      defaultCollection |-> h.db, nodes |-> h.tsNodes]
<1>1. p = own(f) ++ Tunnel(f)
  BY DEF Params
<1>2. f.host # "" /\ IsPort(f.port) /\ SshValid(f)
  BY DEF Valid
<1> HIDE DEF p
<1>3. /\ p.engine = "typesense" /\ p.protocol = f.protocol /\ p.host = f.host /\ p.port = f.port
      /\ p.defaultCollection = f.db /\ p.nodes = f.tsNodes /\ p.ssh = Tunnel(f).ssh
  BY <1>1 DEF Tunnel, ++
<1>4. /\ g.engine = "typesense" /\ g.protocol = f.protocol /\ g.host = f.host /\ g.port = f.port
      /\ g.db = f.db /\ g.tsNodes = f.tsNodes /\ SameTunnel(g, p) /\ Secrets(g) = NoSecrets
  BY <1>3, FormOfTypesense
<1> HIDE DEF g
<1>5. Tunnel(g) = Tunnel(f) /\ SshValid(g)
  BY <1>2, <1>3, <1>4, TunnelReopens
<1>6. Shape(g) = "typesense" /\ own(g) = own(f)
  BY <1>4 DEF Shape
<1>7. Valid(g)
  BY <1>2, <1>4, <1>5, <1>6 DEF Valid
<1>8. Params(g) = own(g) ++ Tunnel(g)
  BY <1>6 DEF Params
<1> HIDE DEF own
<1>9. Params(g) = p
  BY <1>1, <1>5, <1>6, <1>8
<1>10. QED
  BY <1>3, <1>4, <1>7, <1>9 DEF ReopensAs, BuildParams, IsEntry, Engine, TunnelledEngine, g, p

LEMMA RedisReopens ==
  ASSUME NEW f, IsForm(f), Valid(f), Shape(f) = "redis"
  PROVE  ReopensAs(FormOf(Params(f)), Params(f)) /\ IsEntry(Params(f))
<1> DEFINE p == Params(f)
           g == FormOf(p)
           own(h) == [dbIndex |-> DbIndex(h.db)] ++ Server(h)
<1>1. p = own(f) ++ Tunnel(f) /\ f.engine = "redis"
  BY DEF Params, Shape
<1>2. f.host # "" /\ IsPort(f.port) /\ SshValid(f) /\ DbIndex(f.db) \in {"0", "1"}
  BY DEF Valid, Shape
<1> HIDE DEF p
<1>3. /\ p.engine = "redis" /\ p.host = f.host /\ p.port = f.port /\ p.user = f.user
      /\ p.tlsMode = f.tls /\ p.dbIndex = DbIndex(f.db) /\ p.ssh = Tunnel(f).ssh
  BY <1>1 DEF Server, Tunnel, ++
<1>4. /\ g.engine = "redis" /\ g.host = f.host /\ g.port = f.port /\ g.user = f.user
      /\ g.tls = f.tls /\ g.db = DbIndex(f.db) /\ SameTunnel(g, p) /\ Secrets(g) = NoSecrets
  BY <1>3, FormOfServer
<1> HIDE DEF g
<1>5. Tunnel(g) = Tunnel(f) /\ SshValid(g)
  BY <1>2, <1>3, <1>4, TunnelReopens
<1>6. Shape(g) = "redis" /\ Server(g) = Server(f) /\ DbIndex(g.db) = DbIndex(f.db)
  BY <1>1, <1>2, <1>4 DEF Shape, Server, DbIndex
<1>7. Valid(g)
  BY <1>2, <1>4, <1>5, <1>6 DEF Valid
<1>8. Params(g) = own(g) ++ Tunnel(g) /\ own(g) = own(f)
  BY <1>6 DEF Params
<1> HIDE DEF own
<1>9. Params(g) = p
  BY <1>1, <1>5, <1>8
<1>10. QED
  BY <1>3, <1>4, <1>7, <1>9 DEF ReopensAs, BuildParams, IsEntry, Engine, TunnelledEngine, g, p

LEMMA ServerReopens ==
  ASSUME NEW f, IsForm(f), Valid(f), Shape(f) \in {"postgres", "mysql", "mssql", "clickhouse"}
  PROVE  ReopensAs(FormOf(Params(f)), Params(f)) /\ IsEntry(Params(f))
<1> DEFINE p == Params(f)
           g == FormOf(p)
           own(h) == [database |-> h.db] ++ Server(h)
<1>1. p = own(f) ++ Tunnel(f) /\ f.engine = Shape(f)
  BY DEF Params, Shape
<1>2. /\ f.host # "" /\ IsPort(f.port) /\ SshValid(f)
      /\ f.engine \in {"postgres", "mssql"} => f.db # ""
  BY DEF Valid
<1> HIDE DEF p
<1>3. /\ p.engine = f.engine /\ p.host = f.host /\ p.port = f.port /\ p.user = f.user
      /\ p.tlsMode = f.tls /\ p.database = f.db /\ p.ssh = Tunnel(f).ssh
  BY <1>1 DEF Server, Tunnel, ++
<1>4. /\ g.engine = f.engine /\ g.host = f.host /\ g.port = f.port /\ g.user = f.user
      /\ g.tls = f.tls /\ g.db = f.db /\ SameTunnel(g, p) /\ Secrets(g) = NoSecrets
  <2>1. p.engine \in {"postgres", "mysql", "mssql", "clickhouse", "redis"} /\ p.engine # "redis"
    BY <1>1, <1>3
  <2>2. QED
    BY <1>3, <2>1, FormOfServer
<1> HIDE DEF g
<1>5. Tunnel(g) = Tunnel(f) /\ SshValid(g)
  BY <1>2, <1>3, <1>4, TunnelReopens
<1>6. Shape(g) = Shape(f) /\ Server(g) = Server(f)
  BY <1>1, <1>4 DEF Shape, Server
<1>7. Valid(g)
  BY <1>1, <1>2, <1>4, <1>5, <1>6 DEF Valid
<1>8. Params(g) = own(g) ++ Tunnel(g) /\ own(g) = own(f)
  <2>1. Params(g) = own(g) ++ Tunnel(g)
    BY <1>6 DEF Params
  <2>2. own(g) = own(f)
    BY <1>4, <1>6
  <2>3. QED
    BY <2>1, <2>2
<1> HIDE DEF own
<1>9. Params(g) = p
  BY <1>1, <1>5, <1>8
<1>10. QED
  BY <1>1, <1>3, <1>4, <1>7, <1>9 DEF ReopensAs, BuildParams, IsEntry, Engine, TunnelledEngine, g, p

\* Every form that validates says what the form opened from it says.
LEMMA EveryFormReopens ==
  ASSUME NEW f, IsForm(f), Valid(f)
  PROVE  ReopensAs(FormOf(Params(f)), Params(f)) /\ IsEntry(Params(f))
<1>1. Shape(f) \in (Engine \cup {"mongodb uri"})
  BY DEF Shape, IsForm
<1>2. CASE Shape(f) = "sqlite"
  <2>1. Params(f).engine = "sqlite"
    BY <1>2 DEF Params
  <2>2. QED
    BY <1>2, <2>1, FileReopens DEF IsEntry, Engine
<1>3. CASE Shape(f) = "dynamodb"
  BY <1>3, DynamoReopens
<1>4. CASE Shape(f) = "mongodb uri"
  BY <1>4, MongoUriReopens
<1>5. CASE Shape(f) = "mongodb"
  BY <1>5, MongoReopens
<1>6. CASE Shape(f) = "cassandra"
  BY <1>6, CassandraReopens
<1>7. CASE Shape(f) = "typesense"
  BY <1>7, TypesenseReopens
<1>8. CASE Shape(f) = "redis"
  BY <1>8, RedisReopens
<1>9. CASE Shape(f) \in {"postgres", "mysql", "mssql", "clickhouse"}
  BY <1>9, ServerReopens
<1>10. QED
  BY <1>1, <1>2, <1>3, <1>4, <1>5, <1>6, <1>7, <1>8, <1>9 DEF Engine, TunnelledEngine

-----------------------------------------------------------------------------
\* What is carried over from a paste, and what is decided from it.
CarriedNames == {"host", "port", "db", "file", "user", "tls", "datacenter"}
DecidedNames ==
  {"portTouched", "userTouched", "protocol", "mongoUri", "mongoConnMode", "importedSecret", "name"}

PickedIs(g, f, e) ==
  /\ IsForm(g) /\ DOMAIN g = DOMAIN NewForm /\ g["engine"] = e
  /\ g["port"] = (IF ~f.portTouched /\ e \in DOMAIN DefaultPort THEN DefaultPort[e] ELSE f["port"])
  /\ g["user"] = (IF f.userTouched THEN f["user"]
                   ELSE IF e \in DOMAIN DefaultUser THEN DefaultUser[e] ELSE "")
  /\ \A n \in DOMAIN NewForm \ {"engine", "port", "user"} : g[n] = f[n]

LEMMA PickEngineIs ==
  ASSUME NEW f, IsForm(f), NEW e \in Engine
  PROVE  PickedIs(PickEngine(f, e), f, e)
<1>1. {"engine", "port", "user", "awsAuth", "portTouched", "userTouched", "useSsh"} \subseteq DOMAIN NewForm /\ DOMAIN f = DOMAIN NewForm
  BY DEF NewForm, IsForm
<1> DEFINE port == IF ~f.portTouched /\ e \in DOMAIN DefaultPort THEN DefaultPort[e] ELSE f.port
           user == IF f.userTouched THEN f.user ELSE IF e \in DOMAIN DefaultUser THEN DefaultUser[e] ELSE ""
           g == PickEngine(f, e)
<1>2. g = [f EXCEPT !.engine = e, !.port = port, !.user = user]
  BY DEF PickEngine
<1> HIDE DEF port, user, g
<1>3. /\ DOMAIN g = DOMAIN NewForm /\ g["engine"] = e /\ g["port"] = port /\ g["user"] = user
      /\ \A n \in DOMAIN NewForm \ {"engine", "port", "user"} : g[n] = f[n]
  BY <1>1, <1>2
<1>4. IsForm(g)
  BY <1>1, <1>3 DEF IsForm
<1>5. QED
  BY <1>3, <1>4 DEF port, user, g, PickedIs

\* The form a paste makes of another.
ImportedIs(r, f, u) ==
  /\ IsForm(r) /\ r = [n \in DOMAIN NewForm |-> r[n]]
  /\ \A n \in CarriedNames \cap DOMAIN u : r[n] = u[n]
  /\ r["portTouched"] = (f.portTouched \/ "port" \in DOMAIN u)
  /\ r["userTouched"] = (f.userTouched \/ "user" \in DOMAIN u)
  /\ r["protocol"] = (IF u.engine # "typesense" THEN f["protocol"] ELSE u.scheme)
  /\ r["mongoUri"] = (IF "uri" \in DOMAIN u THEN u.uri ELSE f["mongoUri"])
  /\ r["mongoConnMode"] = (IF "uri" \in DOMAIN u THEN "uri" ELSE f["mongoConnMode"])
  /\ r["importedSecret"] = (IF "secret" \in DOMAIN u THEN u.secret ELSE f["importedSecret"])
  /\ r["name"] = (IF f["name"] # "" THEN f["name"]
                ELSE IF "db" \in DOMAIN u THEN u.db ELSE IF "host" \in DOMAIN u THEN u.host ELSE "")
  /\ \A n \in DOMAIN NewForm \ ((CarriedNames \cap DOMAIN u) \cup DecidedNames) :
       r[n] = PickEngine(f, u.engine)[n]

LEMMA ImportIs ==
  ASSUME NEW f, IsForm(f), NEW u, u.engine \in Engine
  PROVE  ImportedIs(ImportInto(f, u), f, u)
<1> DEFINE g == PickEngine(f, u.engine)
           c == [n \in CarriedNames \cap DOMAIN u |-> u[n]]
           target == IF "db" \in DOMAIN u THEN u.db ELSE IF "host" \in DOMAIN u THEN u.host ELSE ""
           d == [portTouched |-> g.portTouched \/ "port" \in DOMAIN u,
                 userTouched |-> g.userTouched \/ "user" \in DOMAIN u,
                 protocol |-> IF u.engine # "typesense" THEN g.protocol ELSE u.scheme,
                 mongoUri |-> IF "uri" \in DOMAIN u THEN u.uri ELSE g.mongoUri,
                 mongoConnMode |-> IF "uri" \in DOMAIN u THEN "uri" ELSE g.mongoConnMode,
                 importedSecret |-> IF "secret" \in DOMAIN u THEN u.secret ELSE g.importedSecret,
                 name |-> IF g.name # "" THEN g.name ELSE target]
           r == ImportInto(f, u)
<1>1. r = c ++ d ++ g
  BY DEF ImportInto, Carried, CarriedNames
<1>2. /\ CarriedNames \subseteq DOMAIN NewForm /\ DecidedNames \subseteq DOMAIN NewForm
      /\ CarriedNames \cap DecidedNames = {} /\ {"engine", "port", "user"} \cap DecidedNames = {}
      /\ {"engine", "awsAuth", "useSsh"} \subseteq DOMAIN NewForm \ (CarriedNames \cup DecidedNames)
      /\ {"awsAuth", "useSsh"} \cap {"engine", "port", "user"} = {}
  BY DEF CarriedNames, DecidedNames, NewForm
<1>3. /\ IsForm(g) /\ DOMAIN g = DOMAIN NewForm /\ g["engine"] = u.engine
      /\ \A n \in DOMAIN NewForm \ {"engine", "port", "user"} : g[n] = f[n]
  <2>1. PickedIs(g, f, u.engine)
    BY PickEngineIs
  <2>2. QED
    BY <2>1 DEF PickedIs
<1>4. DOMAIN c = CarriedNames \cap DOMAIN u /\ \A n \in CarriedNames \cap DOMAIN u : c[n] = u[n]
  OBVIOUS
<1>5. DOMAIN d = DecidedNames
  BY DEF DecidedNames
<1>6. \A n \in DecidedNames : g[n] = f[n]
  BY <1>2, <1>3
<1>7. /\ d["portTouched"] = (f.portTouched \/ "port" \in DOMAIN u)
      /\ d["userTouched"] = (f.userTouched \/ "user" \in DOMAIN u)
      /\ d["protocol"] = (IF u.engine # "typesense" THEN f["protocol"] ELSE u.scheme)
      /\ d["mongoUri"] = (IF "uri" \in DOMAIN u THEN u.uri ELSE f["mongoUri"])
      /\ d["mongoConnMode"] = (IF "uri" \in DOMAIN u THEN "uri" ELSE f["mongoConnMode"])
      /\ d["importedSecret"] = (IF "secret" \in DOMAIN u THEN u.secret ELSE f["importedSecret"])
      /\ d["name"] = (IF f["name"] # "" THEN f["name"] ELSE target)
  BY <1>6 DEF DecidedNames
<1> HIDE DEF g, c, d, r
<1>8. /\ DOMAIN r = DOMAIN NewForm /\ r = [n \in DOMAIN NewForm |-> r[n]]
      /\ \A n \in CarriedNames \cap DOMAIN u : r[n] = c[n]
      /\ \A n \in DecidedNames : r[n] = d[n]
      /\ \A n \in DOMAIN NewForm \ ((CarriedNames \cap DOMAIN u) \cup DecidedNames) : r[n] = g[n]
  <2>1. DOMAIN (c ++ d) = (CarriedNames \cap DOMAIN u) \cup DecidedNames
    BY <1>4, <1>5 DEF ++
  <2>2. /\ \A n \in CarriedNames \cap DOMAIN u : (c ++ d)[n] = c[n]
        /\ \A n \in DecidedNames : (c ++ d)[n] = d[n]
    BY <1>2, <1>4, <1>5 DEF ++
  <2> DEFINE cd == c ++ d
  <2> HIDE DEF cd
  <2>3. r = [n \in DOMAIN cd \cup DOMAIN g |-> IF n \in DOMAIN cd THEN cd[n] ELSE g[n]]
    BY <1>1 DEF ++, cd
  <2>4. DOMAIN cd \cup DOMAIN g = DOMAIN NewForm
    BY <1>2, <1>3, <2>1 DEF cd
  <2>5. DOMAIN r = DOMAIN NewForm /\ r = [n \in DOMAIN NewForm |-> r[n]]
    BY <2>3, <2>4
  <2>6. \A n \in DOMAIN NewForm : r[n] = IF n \in DOMAIN cd THEN cd[n] ELSE g[n]
    BY <2>3, <2>4
  <2>7. QED
    BY <1>2, <2>1, <2>2, <2>5, <2>6 DEF cd
<1>9. IsForm(r)
  <2>1. r["engine"] = u.engine /\ r["awsAuth"] = f["awsAuth"] /\ r["useSsh"] = f["useSsh"]
    BY <1>2, <1>3, <1>8
  <2>2. r["portTouched"] \in BOOLEAN /\ r["userTouched"] \in BOOLEAN
    BY <1>7, <1>8 DEF DecidedNames
  <2>3. QED
    BY <1>8, <2>1, <2>2 DEF IsForm
<1>10. QED
  <2>1. /\ {"portTouched", "userTouched", "protocol", "mongoUri", "mongoConnMode", "importedSecret", "name"}
             \subseteq DecidedNames
    BY DEF DecidedNames
  <2>2. ImportedIs(r, f, u)
    BY <1>4, <1>7, <1>8, <1>9, <2>1 DEF ImportedIs, g
  <2>3. QED
    BY <2>2 DEF r

\* A paste writes over what it wrote before, and nothing else.
LEMMA ImportAgain ==
  ASSUME NEW f, IsForm(f), NEW u, u.engine \in Engine
  PROVE  LET once == ImportInto(f, u) IN ImportInto(once, u) = once
<1> DEFINE once == ImportInto(f, u)
           twice == ImportInto(once, u)
           g == PickEngine(f, u.engine)
           h == PickEngine(once, u.engine)
<1>1. ImportedIs(once, f, u)
  BY ImportIs
<1> HIDE DEF once
<1>2. IsForm(once)
  BY <1>1 DEF ImportedIs
<1>3. ImportedIs(twice, once, u)
  BY <1>2, ImportIs
<1> HIDE DEF twice
<1>4. PickedIs(g, f, u.engine)
  BY PickEngineIs
<1>5. PickedIs(h, once, u.engine)
  BY <1>2, PickEngineIs
<1> HIDE DEF g, h
<1>6. /\ \A n \in DOMAIN NewForm \ ((CarriedNames \cap DOMAIN u) \cup DecidedNames) : once[n] = g[n]
      /\ \A n \in DOMAIN NewForm \ ((CarriedNames \cap DOMAIN u) \cup DecidedNames) : twice[n] = h[n]
  BY <1>1, <1>3 DEF ImportedIs, g, h
<1>7. {once.portTouched, once.userTouched, f.portTouched, f.userTouched} \subseteq BOOLEAN
  BY <1>2 DEF IsForm
<1>8. {"engine", "port", "user"} \subseteq DOMAIN NewForm /\ {"engine", "port", "user"} \cap DecidedNames = {}
  BY DEF NewForm, DecidedNames
<1>9. ASSUME NEW n \in CarriedNames \cap DOMAIN u PROVE twice[n] = once[n]
  BY <1>1, <1>3 DEF ImportedIs
<1>10. ASSUME NEW n \in DecidedNames PROVE twice[n] = once[n]
  <2>1. twice["portTouched"] = once["portTouched"] /\ twice["userTouched"] = once["userTouched"]
    BY <1>1, <1>3, <1>7 DEF ImportedIs
  <2>2. /\ twice["protocol"] = once["protocol"] /\ twice["mongoUri"] = once["mongoUri"]
        /\ twice["mongoConnMode"] = once["mongoConnMode"] /\ twice["importedSecret"] = once["importedSecret"]
    BY <1>1, <1>3 DEF ImportedIs
  <2>3. twice["name"] = once["name"]
    BY <1>1, <1>3 DEF ImportedIs
  <2>4. QED
    BY <2>1, <2>2, <2>3 DEF DecidedNames
<1>11. ASSUME NEW n \in DOMAIN NewForm \ ((CarriedNames \cap DOMAIN u) \cup DecidedNames)
       PROVE  twice[n] = once[n]
  <2>1. twice[n] = h[n] /\ once[n] = g[n]
    BY <1>6
  <2>2. CASE n \notin {"engine", "port", "user"}
    BY <1>5, <2>1, <2>2 DEF PickedIs
  <2>3. CASE n = "engine"
    BY <1>4, <1>5, <2>1, <2>3 DEF PickedIs
  <2>4. CASE n = "port"
    <3>1. "port" \notin DOMAIN u
      BY <2>4 DEF CarriedNames
    <3>2. once.portTouched = f.portTouched
      BY <1>1, <1>7, <3>1 DEF ImportedIs
    <3>3. QED
      BY <1>4, <1>5, <2>1, <2>4, <3>2 DEF PickedIs
  <2>5. CASE n = "user"
    <3>1. "user" \notin DOMAIN u
      BY <2>5 DEF CarriedNames
    <3>2. once.userTouched = f.userTouched
      BY <1>1, <1>7, <3>1 DEF ImportedIs
    <3>3. QED
      BY <1>4, <1>5, <2>1, <2>5, <3>2 DEF PickedIs
  <2>6. QED
    BY <2>2, <2>3, <2>4, <2>5
<1>12. \A n \in DOMAIN NewForm : twice[n] = once[n]
  BY <1>9, <1>10, <1>11
<1>13. once = [n \in DOMAIN NewForm |-> once[n]] /\ twice = [n \in DOMAIN NewForm |-> twice[n]]
  BY <1>1, <1>3 DEF ImportedIs
<1>14. twice = once
  BY <1>12, <1>13
<1>15. QED
  BY <1>14 DEF once, twice

-----------------------------------------------------------------------------
LEMMA SetFieldIsForm ==
  ASSUME NEW f, IsForm(f), NEW n \in Shown(f.engine), NEW v \in Edits[n]
  PROVE  IsForm(SetField(f, n, v))
<1> DEFINE set == [f EXCEPT ![n] = v]
<1>1. n \notin {"engine", "portTouched", "userTouched"}
  BY DEF Shown, ShownFor, SshShown
<1>2. {"engine", "portTouched", "userTouched", "awsAuth", "useSsh", "port", "user", "importedSecret"} \subseteq DOMAIN f
  BY DEF IsForm, NewForm
<1>3. /\ DOMAIN set = DOMAIN f /\ set.engine = f.engine /\ set.portTouched = f.portTouched
      /\ set.userTouched = f.userTouched
      /\ set.awsAuth \in AwsAuth /\ set.useSsh \in BOOLEAN
  BY <1>1, <1>2, FormAssumption DEF IsForm
<1> HIDE DEF set
<1>4. \/ SetField(f, n, v) = [set EXCEPT !.portTouched = TRUE]
      \/ SetField(f, n, v) = [set EXCEPT !.userTouched = TRUE]
      \/ SetField(f, n, v) = [set EXCEPT !.importedSecret = ""]
      \/ SetField(f, n, v) = set
  BY DEF SetField, set
<1>5. QED
  BY <1>2, <1>3, <1>4 DEF IsForm

LEMMA FormStarts == FormInit => FormTypeOK
  BY FormAssumption DEF FormInit, FormTypeOK

LEMMA FormStep == FormTypeOK /\ [FormNext]_formVars => FormTypeOK'
<1> SUFFICES ASSUME FormTypeOK, [FormNext]_formVars PROVE FormTypeOK'
  OBVIOUS
<1>1. ASSUME NEW f, IsForm(f), Becomes(f) PROVE FormTypeOK'
  BY <1>1 DEF Becomes, FormTypeOK
<1>2. CASE UNCHANGED formVars
  BY <1>2 DEF formVars, FormTypeOK
<1>3. CASE EditField
  BY <1>1, <1>3, SetFieldIsForm DEF EditField, FormTypeOK
<1>4. CASE EditEngine
  <2>1. PICK e \in Engine : Becomes(PickEngine(form, e)) /\ form # Closed
    BY <1>4 DEF EditEngine
  <2>2. IsForm(PickEngine(form, e))
    BY <2>1, PickEngineIs DEF FormTypeOK, PickedIs
  <2>3. QED
    BY <1>1, <2>1, <2>2
<1>5. CASE ImportUrl
  <2>1. PICK u \in Url : Becomes(ImportInto(form, u)) /\ form # Closed
    BY <1>5 DEF ImportUrl
  <2>2. u.engine \in Engine
    BY UrlAssumption
  <2>3. IsForm(ImportInto(form, u))
    BY <2>1, <2>2, ImportIs DEF FormTypeOK, ImportedIs
  <2>4. QED
    BY <1>1, <2>1, <2>3
<1>6. CASE Test
  BY <1>6 DEF Test, FormTypeOK
<1>7. CASE Tested
  BY <1>7 DEF Tested, FormTypeOK
<1>8. CASE Save
  BY <1>8, EveryFormReopens DEF Save, Mounts, FormTypeOK
<1>9. CASE Dismiss
  BY <1>9 DEF Dismiss, Mounts, FormTypeOK
<1>10. CASE NewConnection
  BY <1>10, NewFormIsForm DEF NewConnection, Mounts, FormTypeOK
<1>11. CASE EditEntry
  BY <1>11, FormOfIsForm DEF EditEntry, Mounts, FormTypeOK
<1>12. QED
  BY <1>2, <1>3, <1>4, <1>5, <1>6, <1>7, <1>8, <1>9, <1>10, <1>11 DEF FormNext

\* The form is one, the boxes of it are ticked or not, and what is saved is of a known
\* engine: the inductive invariant of the modal.
THEOREM FormTypeCorrect == FormSpec => []FormTypeOK
  BY FormStarts, FormStep, PTL DEF FormSpec

LEMMA ReopensInv == FormTypeOK => EntryReopensAsSaved /\ ImportTwiceIsOnce
<1>1. ASSUME FormTypeOK, form # Closed, Valid(form)
      PROVE  ReopensAs(FormOf(Params(form)), Params(form))
  BY <1>1, EveryFormReopens DEF FormTypeOK
<1>2. ASSUME FormTypeOK PROVE EntryReopensAsSaved
  BY <1>1, <1>2 DEF EntryReopensAsSaved, ReopensAs, NoSecrets
<1>3. ASSUME FormTypeOK, form # Closed, NEW u \in Url
      PROVE  LET once == ImportInto(form, u) IN ImportInto(once, u) = once
  BY <1>3, UrlAssumption, ImportAgain DEF FormTypeOK
<1>4. QED
  BY <1>2, <1>3 DEF ImportTwiceIsOnce

\* NewConnectionModal.tsx: an entry of any engine, saved from a form filled in any way, is
\* opened for editing with every parameter it has, and no secret is filled in.
THEOREM EntriesReopen == FormSpec => []EntryReopensAsSaved
  BY FormTypeCorrect, ReopensInv, PTL

\* applyImport: pasting the same URL again changes nothing, on any form.
THEOREM ImportsAreIdempotent == FormSpec => []ImportTwiceIsOnce
  BY FormTypeCorrect, ReopensInv, PTL

-----------------------------------------------------------------------------
(* The run that drives one of them: each keeps its own invariant, and leaves   *)
(* the other's variables alone.                                                *)

RailRunInv == SyncInv /\ FormTypeOK

LEMMA RailRunStarts == RailInit => RailRunInv
  BY SyncInitially, FormStarts DEF RailInit, RailRunInv

LEMMA RailRunStep == RailRunInv /\ [RailNext]_<<vars, formVars, driven>> => RailRunInv'
<1> SUFFICES ASSUME SyncInv, FormTypeOK, [RailNext]_<<vars, formVars, driven>> PROVE SyncInv' /\ FormTypeOK'
  BY DEF RailRunInv
<1>1. [SyncNext]_vars /\ [FormNext]_formVars
  BY DEF RailNext, MCNext, SyncNext, vars
<1>2. SyncInv'
  BY <1>1, SyncStep
<1>3. FormTypeOK'
  BY <1>1, FormStep
<1>4. QED
  BY <1>2, <1>3

\* Types, a focus that is on the rail, children next to their parents, and a URL that
\* changes nothing when it is pasted again: whichever of the parts is driven.
THEOREM RailRunIsWellFormed == RailSpec => []WellFormed
<1>1. RailRunInv => WellFormed
  BY GroupedIsRailGrouped, ReopensInv DEF RailRunInv, SyncInv, RailInv, TypeOK, WellFormed
<1>2. QED
  BY <1>1, RailRunStarts, RailRunStep, PTL DEF RailSpec
===============================================================================
