-------------------------------- MODULE MCGrid --------------------------------
(* The grid of a table tab: a behaviour drives the pages it fetches, or the  *)
(* rows it stages. Two rows of which a page shows one, both orders, a filter *)
(* that lets nothing through; one cell, two rows staged, two saves in flight. *)
EXTENDS GridPages, GridEdits, TLC
CONSTANTS row1, row2, req1, req2, cell1, value1, save1, save2
MCRow == {row1, row2}
MCOrders == {<<row1, row2>>, <<row2, row1>>}
MCFilters == {MCRow, {}}
MCRequest == {req1, req2}

VARIABLE half
gridVars == <<pagesVars, editsVars, half>>

GridInit ==
  /\ half \in {"pages", "edits"}
  /\ PagesInit /\ EditsInit
  /\ half = "pages" \/ view.filter = MCRow
  /\ half = "edits" \/ ~production

GridNext ==
  \/ half = "pages" /\ PagesNext /\ UNCHANGED <<editsVars, half>>
  \/ half = "edits" /\ EditsNext /\ UNCHANGED <<pagesVars, half>>

GridSpec == GridInit /\ [][GridNext]_gridVars

\* What the pager and the staging area keep of their own state: types, keys of staged rows
\* that differ, no loading line without a load (DataGrid.tsx).
GridWellFormed == PagesTypeOK /\ EditsTypeOK /\ StagedKeysDistinct /\ LoadingEnds

GridSym == Permutations(MCRow) \cup Permutations(MCRequest) \cup Permutations(Saving)
===============================================================================
