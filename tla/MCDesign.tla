------------------------------- MODULE MCDesign -------------------------------
(* Schemas seen, drawn and changed: a behaviour drives the introspection     *)
(* cache, a brainstorm board, the structure editor of a table or the edit    *)
(* mode of the schema map.                                                   *)
EXTENDS Introspection, Board, StructureEdits, MapEdits, TLC
CONSTANTS
  sch1, tab1, view1, fetch1, fetch2,
  sketch1, sketch2, card1,
  colA, colB, colNew, index1, index2, typeX, typeY,
  tbl1, tbl2, tbl3, idCol, colMore

\* A schema with a table and a view, two fetches at a time.
MCUses == {{"tables", "columns", "meta"}, {"tables", "objects", "def"}}

\* A board of two sketches and a card; the stored one is empty, or linked and grouped.
MCKnownBoards ==
  {EmptyBoard,
   [rev |-> 0, objects |-> {sketch1, sketch2},
    edges |-> {<<sketch1, sketch2>>, <<sketch2, sketch1>>},
    groups |-> {{sketch1, sketch2}}, promoted |-> {}]}

\* A table of two columns with an index on the first; three operations.
MCColumns == <<colA, colB>>
MCIndexes == <<[name |-> index1, column |-> colA]>>

\* Two tables, one of which refers to the other; a table and a column can be added.
Seed(columns, fks) == [columns |-> columns, fks |-> fks, cell |-> 0]
MCId == <<Col(idCol, typeX, TRUE, FALSE)>>
MCLinked == [t \in {tbl1, tbl2} |->
  IF t = tbl1 THEN Seed(MCId, <<>>)
  ELSE Seed(MCId \o <<Col(colB, typeX, FALSE, TRUE)>>,
            <<[name |-> <<tbl2, colB>>, col |-> colB, refTable |-> tbl1, refCol |-> idCol]>>)]
MCAlone == [t \in {tbl1} |-> Seed(MCId, <<>>)]
MCSeeds == {MCLinked, MCAlone}
MCNewTables == <<tbl3>>
MCNewCols == <<colMore>>

VARIABLE driven
designVars == <<introVars, boardVars, structVars, mapVars, driven>>

IntroPinned == uses = {"tables", "columns", "meta"}
BoardPinned == board = EmptyBoard
MapPinned == introspected = MCAlone

Init ==
  /\ driven \in {"cache", "board", "structure", "map"}
  /\ IntroInit /\ BoardInit /\ StructInit /\ MapInit
  /\ driven = "cache" \/ IntroPinned
  /\ driven = "board" \/ BoardPinned
  /\ driven = "map" \/ MapPinned

Next ==
  \/ driven = "cache" /\ IntroNext /\ UNCHANGED <<boardVars, structVars, mapVars, driven>>
  \/ driven = "board" /\ BoardNext /\ UNCHANGED <<introVars, structVars, mapVars, driven>>
  \/ driven = "structure" /\ StructNext /\ UNCHANGED <<introVars, boardVars, mapVars, driven>>
  \/ driven = "map" /\ MapNext /\ UNCHANGED <<introVars, boardVars, structVars, driven>>

Spec == Init /\ [][Next]_designVars
Sym == Permutations(Fetch) \cup Permutations(Sketch)

\* What each component keeps of its own state: types; a cache that shares fetches and stops
\* what it shows as loading (introspection/state.ts); a preview of the batch it is shown for,
\* an index operation with a card to undo it on (StructureView.tsx).
WellFormed ==
  /\ IntroTypeOK /\ FetchesShared /\ LoadingHasFetch
  /\ BoardTypeOK
  /\ StructTypeOK /\ PreviewIsOfTheBatch /\ IndexOpsHaveACard
  /\ MapTypeOK
===============================================================================
