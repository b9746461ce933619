-------------------------------- MODULE Board --------------------------------
(***************************************************************************)
(* A brainstorm board (features/brainstorm_board): the document and the    *)
(* pure functions that change it (doc.ts), the undo stacks                 *)
(* (useBoardDoc.ts), the gestures of the canvas and the shortcuts of the   *)
(* board (BoardCanvas.tsx, BrainstormBoard.tsx), and the stored copy       *)
(* (persist.ts). A document is its objects, the edges by their ends, the   *)
(* groups by their members, and the sketches' links to the tables they     *)
(* were promoted to; "rev" tells apart what only text and places tell      *)
(* apart.                                                                  *)
(***************************************************************************)
EXTENDS Integers, Sequences, FiniteSets

CONSTANTS
  Sketch,        \* ids of notes, sketches, flow nodes, frames
  Card,          \* ids of table cards
  NoObject,      \* nothing edited in place, no edge selected
  HistoryLimit,  \* HISTORY_LIMIT
  KnownBoards,   \* bound: the documents storage may hold at first, with rev 0
  MaxRev         \* bound: changes in a behaviour

\* No line to nowhere, no group of members it no longer has, one group per object, no
\* sketch that claims a table that is gone, or two tables.
Whole(d) ==
  /\ \A e \in d.edges : {e[1], e[2]} \subseteq d.objects
  /\ \A g \in d.groups : g # {} /\ g \subseteq d.objects
  /\ \A g, h \in d.groups : g = h \/ g \cap h = {}
  /\ \A p \in d.promoted : {p[1], p[2]} \subseteq d.objects
  /\ \A p, q \in d.promoted : p[1] = q[1] => p = q

Object == Sketch \cup Card
Document ==
  [rev : 0..MaxRev, objects : SUBSET Object, edges : SUBSET (Object \X Object),
   groups : SUBSET SUBSET Object, promoted : SUBSET (Object \X Card)]

\* What is stored was stored by an earlier run of the program.
ASSUME BoardAssumption ==
  /\ HistoryLimit \in Nat \ {0} /\ MaxRev \in Nat
  /\ \A d \in KnownBoards : d \in Document /\ Whole(d) /\ d.rev = 0

VARIABLES
  board,      \* the document on screen
  past, future,
  rev,        \* changes so far
  selection,  \* [ids, edge]
  inPlace,    \* the object whose text is being edited
  gesture,    \* the ids being dragged, by a press that is not yet released
  timer,      \* the save is due
  stored,     \* localStorage
  mounted     \* the board's tab is the active one

boardVars ==
  <<board, past, future, rev, selection, inPlace, gesture, timer, stored, mounted>>

EmptyBoard == [rev |-> 0, objects |-> {}, edges |-> {}, groups |-> {}, promoted |-> {}]
NothingSelected == [ids |-> {}, edge |-> NoObject]
Histories == {board, stored} \cup {past[i] : i \in DOMAIN past}
                             \cup {future[i] : i \in DOMAIN future}

BoardTypeOK ==
  /\ Histories \subseteq Document
  /\ past \in Seq(Document) /\ future \in Seq(Document)
  /\ Len(past) + Len(future) <= HistoryLimit
  /\ rev \in 0..MaxRev /\ \A d \in Histories : d.rev <= rev
  /\ selection \in [ids : SUBSET Object, edge : (Object \X Object) \cup {NoObject}]
  /\ selection.ids # {} => selection.edge = NoObject
  /\ inPlace \in Object \cup {NoObject}
  /\ gesture \in SUBSET Object
  /\ timer \in BOOLEAN /\ mounted \in BOOLEAN

\* loadBoard: the stored document, or an empty one.
BoardInit ==
  /\ stored \in KnownBoards /\ board = stored
  /\ past = <<>> /\ future = <<>> /\ rev = 0
  /\ selection = NothingSelected /\ inPlace = NoObject /\ gesture = {}
  /\ timer = TRUE /\ mounted = TRUE

-----------------------------------------------------------------------------
(* The document.                                                           *)

\* Bug variant: the links of the sketches are forgotten.
RemoveKeepingLinks(d, ids) ==
  [d EXCEPT !.objects = @ \ ids,
            !.edges = {e \in @ : e[1] \notin ids /\ e[2] \notin ids},
            !.groups = {g \ ids : g \in @} \ {{}}]

RemoveObjects(d, ids) ==
  [d EXCEPT !.objects = @ \ ids,
            !.edges = {e \in @ : e[1] \notin ids /\ e[2] \notin ids},
            !.groups = {g \ ids : g \in @} \ {{}},
            !.promoted = {p \in @ : p[1] \notin ids /\ p[2] \notin ids}]

\* One group per object: the members leave the group that held them.
GroupObjects(d, ids) == [d EXCEPT !.groups = ({g \ ids : g \in @} \ {{}}) \cup {ids}]

Promoted(d, s, c) ==
  [d EXCEPT !.objects = @ \cup {c}, !.promoted = {p \in @ : p[1] # s} \cup {<<s, c>>}]

-----------------------------------------------------------------------------
(* The undo stacks.                                                        *)

PushPast(entry) ==
  IF past # <<>> /\ past[Len(past)] = entry THEN UNCHANGED <<past, future>>
  ELSE /\ past' = LET p == Append(past, entry)
                  IN  IF Len(p) > HistoryLimit THEN Tail(p) ELSE p
       /\ future' = <<>>

\* A new document, on screen from now on; the save starts to wait again.
Show(d) ==
  /\ mounted /\ rev < MaxRev /\ rev' = rev + 1
  /\ board' = [d EXCEPT !.rev = rev + 1]
  /\ timer' = TRUE /\ UNCHANGED <<stored, mounted>>

Apply(d) == Show(d) /\ PushPast(board)
ApplyWithoutHistory(d) == Show(d) /\ UNCHANGED <<past, future>>

\* ⌘Z and ⇧⌘Z stay off the board while a text is edited.
Undo ==
  /\ mounted /\ inPlace = NoObject /\ past # <<>>
  /\ past' = SubSeq(past, 1, Len(past) - 1) /\ future' = Append(future, board)
  /\ board' = past[Len(past)] /\ timer' = TRUE
  /\ UNCHANGED <<rev, selection, inPlace, gesture, stored, mounted>>

\* Bug variant: the document left behind is not kept.
RedoDropping ==
  /\ mounted /\ inPlace = NoObject /\ future # <<>>
  /\ future' = SubSeq(future, 1, Len(future) - 1) /\ past' = past
  /\ board' = future[Len(future)] /\ timer' = TRUE
  /\ UNCHANGED <<rev, selection, inPlace, gesture, stored, mounted>>

Redo ==
  /\ mounted /\ inPlace = NoObject /\ future # <<>>
  /\ future' = SubSeq(future, 1, Len(future) - 1) /\ past' = Append(past, board)
  /\ board' = future[Len(future)] /\ timer' = TRUE
  /\ UNCHANGED <<rev, selection, inPlace, gesture, stored, mounted>>

\* onClear; the text being edited is committed by the press on the button.
Clear ==
  /\ inPlace = NoObject /\ Apply(EmptyBoard)
  /\ selection' = NothingSelected /\ UNCHANGED <<inPlace, gesture>>

-----------------------------------------------------------------------------
(* Gestures and commands.                                                  *)

Fresh == {o \in Object : \A d \in Histories : o \notin d.objects}

\* onCreate and onAddLive: the new object is selected, and may be edited at once.
Create(o) ==
  /\ o \in Fresh /\ inPlace = NoObject
  /\ Apply([board EXCEPT !.objects = @ \cup {o}])
  /\ selection' = [ids |-> {o}, edge |-> NoObject]
  /\ inPlace' \in {NoObject, o} /\ UNCHANGED gesture

\* A double click, or Enter.
EditInPlace(o) ==
  /\ mounted /\ o \in board.objects /\ inPlace = NoObject /\ inPlace' = o
  /\ UNCHANGED <<board, past, future, rev, selection, gesture, timer, stored, mounted>>

\* Blurring the editor commits it; its object may be gone.
CommitText ==
  /\ inPlace # NoObject /\ inPlace' = NoObject /\ UNCHANGED <<selection, gesture>>
  /\ IF inPlace \in board.objects THEN Apply(board)
     ELSE UNCHANGED <<board, past, future, rev, timer, stored, mounted>>

\* A press on an object or a group's label: the text being edited is committed, the
\* document as it was is an undo step, and a drag begins.
Press(ids) ==
  /\ mounted /\ gesture = {} /\ ids # {}
  /\ selection' = [ids |-> ids, edge |-> NoObject] /\ gesture' = ids
  /\ inPlace' = NoObject /\ PushPast(board)
  /\ IF inPlace \in board.objects THEN Show(board)
     ELSE UNCHANGED <<board, rev, timer, stored, mounted>>

\* A frame of the drag: what is gone is not moved, but the document is a new one.
Drag == gesture # {} /\ ApplyWithoutHistory(board) /\ UNCHANGED <<selection, inPlace, gesture>>

Release ==
  /\ gesture # {} /\ gesture' = {}
  /\ UNCHANGED <<board, past, future, rev, selection, inPlace, timer, stored, mounted>>

SelectEdge(e) ==
  /\ mounted /\ e \in board.edges /\ selection' = [ids |-> {}, edge |-> e]
  /\ UNCHANGED <<board, past, future, rev, inPlace, gesture, timer, stored, mounted>>

\* onLink: two tables get a column that references, anything else a line, once.
Link(from, to) ==
  /\ inPlace = NoObject /\ {from, to} \subseteq board.objects /\ from # to
  /\ IF {from, to} \subseteq Card THEN Apply(board) /\ UNCHANGED selection
     ELSE /\ <<from, to>> \notin board.edges
          /\ Apply([board EXCEPT !.edges = @ \cup {<<from, to>>}])
          /\ selection' = [ids |-> {}, edge |-> <<from, to>>]
  /\ UNCHANGED <<inPlace, gesture>>

ReverseEdge(e) ==
  /\ inPlace = NoObject /\ e = selection.edge /\ e \in board.edges
  /\ Apply([board EXCEPT !.edges = (@ \ {e}) \cup {<<e[2], e[1]>>}])
  /\ selection' = [ids |-> {}, edge |-> <<e[2], e[1]>>] /\ UNCHANGED <<inPlace, gesture>>

\* Typing a label has no undo step of its own.
LabelEdge ==
  /\ inPlace = NoObject /\ selection.edge \in board.edges
  /\ ApplyWithoutHistory(board) /\ UNCHANGED <<selection, inPlace, gesture>>

\* onPromote: the sketch stays, linked to the new card.
Promote(s, c) ==
  /\ inPlace = NoObject /\ s \in board.objects /\ c \in Fresh
  /\ Apply(Promoted(board, s, c))
  /\ selection' = [ids |-> {c}, edge |-> NoObject] /\ UNCHANGED <<inPlace, gesture>>

\* onErase, on an object or on the label of a group; no drag is under way.
Erase(ids) ==
  /\ gesture = {} /\ ids # {}
  /\ ids \in board.groups \cup {{o} : o \in board.objects}
  /\ Apply(RemoveObjects(board, ids))
  /\ selection' = [selection EXCEPT !.ids = @ \ ids]
  /\ inPlace' = (IF inPlace \in ids THEN NoObject ELSE inPlace) /\ UNCHANGED gesture

\* Delete: the selection may hold what an undo took away.
DeleteSelection ==
  /\ inPlace = NoObject /\ selection # NothingSelected
  /\ Apply(IF selection.ids # {} THEN RemoveObjects(board, selection.ids)
           ELSE [board EXCEPT !.edges = @ \ {selection.edge}])
  /\ selection' = NothingSelected /\ UNCHANGED <<inPlace, gesture>>

GroupSelection ==
  LET target == selection.ids \cap board.objects
  IN
  /\ inPlace = NoObject /\ Cardinality(target) >= 2
  /\ Apply(GroupObjects(board, target))
  /\ selection' = [ids |-> target, edge |-> NoObject] /\ UNCHANGED <<inPlace, gesture>>

\* ⇧⌘G dissolves every group the selection touches.
UngroupSelection ==
  LET touched == {g \in board.groups : g \cap selection.ids # {}}
  IN
  /\ inPlace = NoObject /\ touched # {}
  /\ Apply([board EXCEPT !.groups = @ \ touched]) /\ UNCHANGED <<selection, inPlace, gesture>>

\* ⌘A and Escape.
Select(ids) ==
  /\ mounted /\ inPlace = NoObject /\ ids \in {board.objects, {}}
  /\ selection' = [ids |-> ids, edge |-> NoObject]
  /\ UNCHANGED <<board, past, future, rev, inPlace, gesture, timer, stored, mounted>>

-----------------------------------------------------------------------------
(* Storage.                                                                *)

SaveBoard ==
  /\ mounted /\ timer /\ timer' = FALSE /\ stored' = board
  /\ UNCHANGED <<board, past, future, rev, selection, inPlace, gesture, mounted>>

\* Another tab is shown, or the app quits: an open editor is removed without a blur, and
\* the save that was due is called off.
LeaveBoard ==
  /\ mounted /\ mounted' = FALSE /\ timer' = FALSE
  /\ past' = <<>> /\ future' = <<>> /\ inPlace' = NoObject /\ gesture' = {}
  /\ UNCHANGED <<board, rev, selection, stored>>

ReturnToBoard ==
  /\ ~mounted /\ mounted' = TRUE /\ timer' = TRUE /\ board' = stored
  /\ UNCHANGED <<past, future, rev, selection, inPlace, gesture, stored>>

BoardNext ==
  \/ \E o \in Object : Create(o) \/ EditInPlace(o)
  \/ \E ids \in SUBSET Object : Press(ids) \/ Erase(ids) \/ Select(ids)
  \/ \E o, p \in Object : Link(o, p) \/ SelectEdge(<<o, p>>) \/ ReverseEdge(<<o, p>>)
  \/ \E s \in Sketch, c \in Card : Promote(s, c)
  \/ CommitText \/ Drag \/ Release \/ LabelEdge \/ DeleteSelection
  \/ GroupSelection \/ UngroupSelection \/ Clear \/ Undo \/ Redo
  \/ SaveBoard \/ LeaveBoard \/ ReturnToBoard

BoardSpec == BoardInit /\ [][BoardNext]_boardVars

-----------------------------------------------------------------------------
(* Properties.                                                             *)

\* doc.ts: no line to nowhere, no group of members it no longer has, one group per
\* object, no sketch that claims a table that is gone - on screen, in either stack, and
\* in the stored copy, whatever edits, undos and returns led there.
BoardsAreWhole == \A d \in Histories : Whole(d)

\* The documents undo and redo move through.
Timeline == past \o <<board>> \o [i \in DOMAIN future |-> future[Len(future) + 1 - i]]

\* useBoardDoc.ts undo and redo: moving along the documents loses none of them.
UndoLosesNothing ==
  [][(rev' = rev /\ board' # board /\ mounted /\ mounted') => Timeline' = Timeline]_boardVars

\* Does not hold: "short enough that nothing is lost to a quick tab close" (persist.ts). A
\* tab left before the save was due loses the change.
NothingIsLostToATabClose == [][mounted /\ ~mounted' => stored' = board]_boardVars
=============================================================================
