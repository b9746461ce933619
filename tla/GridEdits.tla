------------------------------ MODULE GridEdits -------------------------------
(***************************************************************************)
(* What a data grid stages and saves (DataGrid.tsx): edited cells and new  *)
(* rows of one tab, kept by the tab's store while the tab is off screen,   *)
(* written as one batch, on production after a confirmation that shows it. *)
(***************************************************************************)
EXTENDS Integers, Sequences, FiniteSets, SequencesExt

CONSTANTS
  Cell,        \* cells of the rows the table has, by primary key and column
  Value,       \* what a cell can hold, other than Original
  Original,    \* the value read from the database
  NoDraft,     \* no editor is open
  NoBatch,     \* no batch is waiting for the confirmation
  Saving,      \* bound: saves that have not been answered
  MaxStaged,   \* bound: rows staged in a behaviour
  MaxGrids     \* bound: times the tab comes on screen

ASSUME EditsAssumption ==
  /\ Original \notin Value /\ MaxStaged \in Nat /\ MaxGrids \in Nat \ {0}
  /\ NoDraft \notin Cell

VARIABLES
  production,   \* the connection asks before a save
  workspaceReadOnly,
  grid,         \* the instance on screen, 0 when there is none
  grids,        \* instances so far
  pendingEdits, \* staged value by cell; mirrored to the store at each change
  newRows,      \* staged rows: key, content, and which of the rows staged so far it is
  stagedKeySeq, \* the last key this instance gave out
  stagedRows,   \* history: rows staged so far
  editing,      \* the open cell editor: where and what is typed
  saveConfirm,  \* saveConfirmSql: the batch shown for confirmation
  saves,        \* batches sent: what they write, the instance that waits, whether they ran
  committed     \* history: rows whose insert was answered well

editsVars == <<production, workspaceReadOnly, grid, grids, pendingEdits, newRows, stagedKeySeq,
               stagedRows, editing, saveConfirm, saves, committed>>

Clean == [c \in Cell |-> Original]
Unused == [batch |-> NoBatch, grid |-> 0]

NewRowType == [key : 1..MaxStaged, value : Value \cup {Original}, id : 1..MaxStaged]
Batch == [edits : [Cell -> Value \cup {Original}], rows : Seq(NewRowType)]
KeysOf(rows) == {rows[i].key : i \in DOMAIN rows}
IdsOf(rows) == {rows[i].id : i \in DOMAIN rows}

EditsTypeOK ==
  /\ production \in BOOLEAN /\ workspaceReadOnly \in BOOLEAN
  /\ grid \in {0, grids} /\ grids \in 0..MaxGrids
  /\ pendingEdits \in [Cell -> Value \cup {Original}]
  /\ newRows \in Seq(NewRowType)
  /\ stagedKeySeq \in 0..MaxStaged /\ stagedRows \in 0..MaxStaged
  /\ editing = NoDraft \/ editing.value \in Value \cup {Original}
  /\ saveConfirm = NoBatch \/ saveConfirm \in Batch
  /\ \A s \in Saving : saves[s] = Unused \/ (saves[s].batch \in Batch /\ saves[s].grid \in 1..grids)
  /\ committed \subseteq 1..stagedRows

EditsInit ==
  /\ production \in BOOLEAN /\ workspaceReadOnly = FALSE
  /\ grid = 1 /\ grids = 1
  /\ pendingEdits = Clean /\ newRows = <<>> /\ stagedKeySeq = 0 /\ stagedRows = 0
  /\ editing = NoDraft /\ saveConfirm = NoBatch
  /\ saves = [s \in Saving |-> Unused] /\ committed = {}

-----------------------------------------------------------------------------
(* Coming and going.                                                       *)

\* The batch comes back from the store, and keys go on above the highest of it.
ShowGrid ==
  /\ grid = 0 /\ grids < MaxGrids
  /\ grids' = grids + 1 /\ grid' = grids'
  /\ stagedKeySeq' = IF newRows = <<>> THEN 0
                     ELSE CHOOSE k \in KeysOf(newRows) : \A other \in KeysOf(newRows) : other <= k
  /\ UNCHANGED <<production, workspaceReadOnly, pendingEdits, newRows, stagedRows, editing,
                 saveConfirm, saves, committed>>

\* An open editor commits on the way out, as it loses the focus; a parked confirmation
\* holds the screen.
LeaveGrid ==
  /\ grid # 0 /\ grid' = 0 /\ editing = NoDraft /\ saveConfirm = NoBatch
  /\ UNCHANGED <<production, workspaceReadOnly, grids, pendingEdits, newRows, stagedKeySeq,
                 stagedRows, editing, saveConfirm, saves, committed>>

SetReadOnly(on) ==
  /\ workspaceReadOnly' = on
  /\ UNCHANGED <<production, grid, grids, pendingEdits, newRows, stagedKeySeq, stagedRows,
                 editing, saveConfirm, saves, committed>>

-----------------------------------------------------------------------------
(* Staging.                                                                *)

\* Nothing covers the grid. Its keys work all the same.
Idle == grid # 0 /\ saveConfirm = NoBatch

\* startEdit: a cell, or a staged row by its key, and what is typed until it is left.
StartEdit(target, value) ==
  /\ Idle /\ editing = NoDraft
  /\ \/ target \in Cell /\ ~workspaceReadOnly
     \/ target \in KeysOf(newRows)
  /\ editing' = [at |-> target, value |-> value]
  /\ UNCHANGED <<production, workspaceReadOnly, grid, grids, pendingEdits, newRows,
                 stagedKeySeq, stagedRows, saveConfirm, saves, committed>>

\* stageRealValue: typing the original value back takes the cell out.
EditsWith(draft) ==
  IF draft # NoDraft /\ draft.at \in Cell THEN [pendingEdits EXCEPT ![draft.at] = draft.value]
  ELSE pendingEdits

\* stageNewValue
RowsWith(draft) ==
  [i \in DOMAIN newRows |->
     IF draft # NoDraft /\ newRows[i].key = draft.at THEN [newRows[i] EXCEPT !.value = draft.value]
     ELSE newRows[i]]

CommitEdit ==
  /\ grid # 0 /\ editing # NoDraft
  /\ pendingEdits' = EditsWith(editing) /\ newRows' = RowsWith(editing)
  /\ editing' = NoDraft
  /\ UNCHANGED <<production, workspaceReadOnly, grid, grids, stagedKeySeq, stagedRows,
                 saveConfirm, saves, committed>>

\* Escape, and a load of the page under an open editor.
CancelEdit ==
  /\ editing # NoDraft /\ editing' = NoDraft
  /\ UNCHANGED <<production, workspaceReadOnly, grid, grids, pendingEdits, newRows,
                 stagedKeySeq, stagedRows, saveConfirm, saves, committed>>

\* addRow, and duplicateRows, which does not look at the mode: at the top, with a key of
\* its own. The filter and the sort are reset, which reloads the page.
AddRow(duplicated) ==
  /\ IF duplicated THEN Idle ELSE grid # 0 /\ ~workspaceReadOnly
  /\ stagedRows < MaxStaged /\ stagedRows' = stagedRows + 1
  /\ stagedKeySeq' = stagedKeySeq + 1
  /\ newRows' = <<[key |-> stagedKeySeq + 1, value |-> Original, id |-> stagedRows + 1]>> \o newRows
  /\ editing' = NoDraft
  /\ UNCHANGED <<production, workspaceReadOnly, grid, grids, pendingEdits, saveConfirm, saves,
                 committed>>

\* Escape with nothing open: the newest staged row goes.
CancelNewRow ==
  /\ Idle /\ editing = NoDraft /\ newRows # <<>>
  /\ newRows' = Tail(newRows)
  /\ UNCHANGED <<production, workspaceReadOnly, grid, grids, pendingEdits, stagedKeySeq,
                 stagedRows, editing, saveConfirm, saves, committed>>

MyUnanswered == {s \in Saving : saves[s] # Unused /\ saves[s].grid = grid}

\* The save bar's Discard, and the strip's "discard all", which also drops a batch that is
\* parked and reaches a tab off screen.
Discard(everyTab) ==
  /\ everyTab \/ (Idle /\ MyUnanswered = {})
  /\ pendingEdits' = Clean /\ newRows' = <<>> /\ editing' = NoDraft
  /\ saveConfirm' = IF everyTab THEN NoBatch ELSE saveConfirm
  /\ UNCHANGED <<production, workspaceReadOnly, grid, grids, stagedKeySeq, stagedRows, saves,
                 committed>>

-----------------------------------------------------------------------------
(* Saving.                                                                 *)

RunSave(batch) ==
  \E s \in Saving : saves[s] = Unused
                  /\ saves' = [saves EXCEPT ![s] = [batch |-> batch, grid |-> grid]]

\* The staged changes and the editor that is open, whose draft is closed whatever comes of
\* the batch. By key it runs again while an earlier save is not answered.
Save ==
  LET batch == [edits |-> EditsWith(editing), rows |-> RowsWith(editing)]  IN
  /\ grid # 0 /\ ~workspaceReadOnly
  /\ editing' = NoDraft
  /\ IF batch.edits = Clean /\ batch.rows = <<>> THEN UNCHANGED <<saves, saveConfirm>>
     ELSE IF production THEN saveConfirm' = batch /\ UNCHANGED saves
     ELSE RunSave(batch) /\ UNCHANGED saveConfirm
  /\ UNCHANGED <<production, workspaceReadOnly, grid, grids, pendingEdits, newRows,
                 stagedKeySeq, stagedRows, committed>>

\* Bug variant: what is staged by then is what runs.
ConfirmSaveOfNow ==
  /\ saveConfirm # NoBatch /\ saveConfirm' = NoBatch
  /\ RunSave([edits |-> pendingEdits, rows |-> newRows])
  /\ UNCHANGED <<production, workspaceReadOnly, grid, grids, pendingEdits, newRows,
                 stagedKeySeq, stagedRows, editing, committed>>

ConfirmSave ==
  /\ saveConfirm # NoBatch /\ saveConfirm' = NoBatch
  /\ RunSave(saveConfirm)
  /\ UNCHANGED <<production, workspaceReadOnly, grid, grids, pendingEdits, newRows,
                 stagedKeySeq, stagedRows, editing, committed>>

CancelSave ==
  /\ saveConfirm # NoBatch /\ saveConfirm' = NoBatch
  /\ UNCHANGED <<production, workspaceReadOnly, grid, grids, pendingEdits, newRows,
                 stagedKeySeq, stagedRows, editing, saves, committed>>

\* The batch ran: the grid that waited for it, if it is still there, drops all that is
\* staged, and the page is read again.
SaveDone(s) ==
  /\ saves[s] # Unused /\ saves' = [saves EXCEPT ![s] = Unused]
  /\ committed' = committed \cup IdsOf(saves[s].batch.rows)
  /\ IF saves[s].grid = grid THEN pendingEdits' = Clean /\ newRows' = <<>>
     ELSE UNCHANGED <<pendingEdits, newRows>>
  /\ editing' = NoDraft
  /\ UNCHANGED <<production, workspaceReadOnly, grid, grids, stagedKeySeq, stagedRows,
                 saveConfirm>>

\* Bug variant: the grid starts over after a save, however it ended.
SaveFailedClearing(s) ==
  /\ saves[s] # Unused /\ saves' = [saves EXCEPT ![s] = Unused]
  /\ pendingEdits' = Clean /\ newRows' = <<>>
  /\ UNCHANGED <<production, workspaceReadOnly, grid, grids, stagedKeySeq,
                 stagedRows, editing, saveConfirm, committed>>

SaveFailed(s) ==
  /\ saves[s] # Unused /\ saves' = [saves EXCEPT ![s] = Unused]
  /\ UNCHANGED <<production, workspaceReadOnly, grid, grids, pendingEdits, newRows,
                 stagedKeySeq, stagedRows, editing, saveConfirm, committed>>

-----------------------------------------------------------------------------
EditsNext ==
  \/ ShowGrid \/ LeaveGrid \/ CommitEdit \/ CancelEdit \/ CancelNewRow
  \/ \E on \in BOOLEAN : SetReadOnly(on) \/ AddRow(on) \/ Discard(on)
  \/ \E target \in Cell \cup (1..MaxStaged), value \in Value \cup {Original} :
       StartEdit(target, value)
  \/ Save \/ ConfirmSave \/ CancelSave
  \/ \E s \in Saving : SaveDone(s) \/ SaveFailed(s)

EditsSpec == EditsInit /\ [][EditsNext]_editsVars

-----------------------------------------------------------------------------
(* Properties.                                                             *)

\* A key names one staged row, also among rows that were restored: what is typed in one
\* row is not put in another.
StagedKeysDistinct == Cardinality(KeysOf(newRows)) = Len(newRows)

\* On production what runs is the batch that was shown, whatever was staged or discarded
\* while it was on screen.
ProductionRunsWhatWasShown ==
  [][\A s \in Saving :
       production /\ saves[s] = Unused /\ saves'[s] # Unused
          => saves'[s].batch = saveConfirm]_editsVars

\* A staged row goes with a save that was answered well, a discard, or when it is the
\* newest and Escape is pressed: never by leaving the tab, coming back, a save that
\* failed, or an edit of another row.
RowsGoByIntent ==
  \A i \in DOMAIN newRows :
    newRows[i].id \notin IdsOf(newRows') =>
      \/ \E s \in Saving : /\ saves[s] # Unused /\ saves'[s] = Unused
                           /\ IdsOf(saves[s].batch.rows) \subseteq committed'
      \/ i = 1 /\ newRows' = Tail(newRows)
      \/ newRows' = <<>> /\ saves' = saves
StagedRowsAreKept == [][RowsGoByIntent]_editsVars

\* Does not hold: a row that was committed is staged no more (DataGrid.tsx after a save:
\* "Re-fetch so the committed rows replace the staged ones.").
CommittedRowsAreNotStaged == IdsOf(newRows) \cap committed = {}
=============================================================================
