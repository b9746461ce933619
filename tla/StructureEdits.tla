---------------------------- MODULE StructureEdits ----------------------------
(***************************************************************************)
(* The structure editor of one table: changes staged as a list of ops      *)
(* (StructureView.tsx), replayed for the screen and put in order for the   *)
(* engine (structure/ops.ts), and applied by SQLite (sqlite/structure.rs). *)
(* Type, nullability, default and comment of a column are one value;       *)
(* indexes cover one column; columns of the primary key, which most ops    *)
(* refuse, and foreign keys, which go the way of indexes, are left out.    *)
(***************************************************************************)
EXTENDS Integers, FiniteSets, SequencesExt, Selections

CONSTANTS
  Columns,     \* the columns at first, in order
  NewColumn,   \* the name a new column gets
  ColumnName,  \* Columns, NewColumn and what else columns are renamed to
  Setting,     \* what the settings of a column can be
  FirstSetting,
  IndexName,
  Indexes,     \* the indexes at first
  MaxOps,      \* bound: ops staged together
  MaxStagings, \* bound: changes of the staged ops
  MaxApplies   \* bound: batches applied

ASSUME StructAssumption ==
  /\ Columns \in Seq(ColumnName) /\ Columns # <<>> /\ IsInjective(Columns)
  /\ NewColumn \in ColumnName /\ FirstSetting \in Setting
  /\ Indexes \in Seq([name : IndexName, column : ColumnName])
  /\ MaxOps \in Nat /\ MaxStagings \in Nat /\ MaxApplies \in Nat

VARIABLES
  dbTable,     \* the table in the database: [columns, indexes]
  meta,        \* what the editor last read of it
  ops,         \* staged ops of the tab
  stagings,    \* changes of ops so far
  where,       \* the editor is on screen ("view"), or another "tab" or "workspace" is
  busy,        \* the editor on screen is applying
  applies,     \* batches sent: [batch, status, here]; here: by the editor on screen
  leftover,    \* history: a batch was applied and its ops were left staged
  review       \* the Review SQL panel: open, the batches asked for, the one shown

structVars == <<dbTable, meta, ops, stagings, where, busy, applies, leftover, review>>

Column(name, setting) == [name |-> name, setting |-> setting]
NamesOf(seq) == {seq[i].name : i \in DOMAIN seq}
Rejected == [columns |-> <<>>, indexes |-> <<>>]
Closed == [open |-> FALSE, asked |-> {}, shown |-> <<>>]

------------------------------------------------------------------------------
(* structure/ops.ts: what the screen shows.                                *)

\* The first row that passes the test is changed, if there is one.
AtFirst(rows, Test(_), Change(_)) ==
  LET i == SelectInSeq(rows, Test)
  IN  IF i = 0 THEN rows ELSE [rows EXCEPT ![i] = Change(rows[i])]
AtRow(rows, name, Change(_)) == AtFirst(rows, LAMBDA r : r.name = name, Change)

ReplayColumn(rows, op) ==
  CASE op.op = "addColumn" ->
         Append(rows, [name |-> op.name, setting |-> op.setting, origin |-> <<>>,
                       dropped |-> FALSE])
    [] op.op = "renameColumn" -> AtRow(rows, op.from, LAMBDA r : [r EXCEPT !.name = op.to])
    [] op.op = "change" -> AtRow(rows, op.column, LAMBDA r : [r EXCEPT !.setting = op.setting])
    [] op.op = "dropColumn" -> AtRow(rows, op.name, LAMBDA r : [r EXCEPT !.dropped = TRUE])
    [] OTHER -> rows

applyOpsToColumns(columns, staged) ==
  FoldLeft(ReplayColumn,
           [i \in DOMAIN columns |-> [name |-> columns[i].name, setting |-> columns[i].setting,
                                      origin |-> <<columns[i].name>>, dropped |-> FALSE]],
           staged)

\* An edited index goes by its new name; was is the name the database knows.
ReplayIndex(cards, op) ==
  CASE op.op = "addIndex" ->
         Append(cards, [name |-> op.name, column |-> op.column, was |-> <<>>, isNew |-> TRUE,
                        dropped |-> FALSE])
    [] op.op = "dropIndex" -> AtRow(cards, op.name, LAMBDA x : [x EXCEPT !.dropped = TRUE])
    [] op.op = "replaceIndex" ->
         AtFirst(cards, LAMBDA x : x.name = op.from /\ ~x.isNew,
                 LAMBDA x : [x EXCEPT !.name = op.name, !.column = op.column, !.was = <<x.name>>])
    [] OTHER -> cards

applyOpsToIndexes(indexes, staged) ==
  FoldLeft(ReplayIndex,
           [i \in DOMAIN indexes |-> [name |-> indexes[i].name, column |-> indexes[i].column,
                                      was |-> <<>>, isNew |-> FALSE, dropped |-> FALSE]],
           staged)

Rows == applyOpsToColumns(meta.columns, ops)
Cards == applyOpsToIndexes(meta.indexes, ops)

\* Bug variant: one kind of op has no phase.
toWireBatchWithoutChanges(staged) ==
  LET Of(kinds) == OnlyIn(staged, {op \in ToSet(staged) : op.op \in kinds})
  IN  Of({"dropColumn"}) \o Of({"addColumn"}) \o Of({"renameColumn"})
        \o Of({"dropIndex"}) \o Of({"addIndex"})

\* The order the engine gets them in; a replacement is a drop and an add.
toWireBatch(staged) ==
  LET Of(kinds) == OnlyIn(staged, {op \in ToSet(staged) : op.op \in kinds})
      AsDrop(op) == IF op.op = "dropIndex" THEN op ELSE [op |-> "dropIndex", name |-> op.from]
      AsAdd(op) == [op |-> "addIndex", name |-> op.name, column |-> op.column]
      Each(seq, As(_)) == [i \in DOMAIN seq |-> As(seq[i])]
  IN  Of({"dropColumn"}) \o Of({"addColumn"}) \o Of({"change"}) \o Of({"renameColumn"})
        \o Each(Of({"dropIndex", "replaceIndex"}), AsDrop)
        \o Each(Of({"addIndex", "replaceIndex"}), AsAdd)

------------------------------------------------------------------------------
(* sqlite/structure.rs                                                     *)

HasColumn(columns, name) == \E i \in DOMAIN columns : columns[i].name = name

\* One op on the columns; <<>> once an op is refused.
TargetColumns(columns, op) ==
  LET Changed(name, new) ==
        [i \in DOMAIN columns |-> IF columns[i].name = name THEN new ELSE columns[i]]
      Here(name) == columns[SelectInSeq(columns, LAMBDA c : c.name = name)]
  IN  IF columns = <<>> THEN <<>>
      ELSE CASE op.op = "addColumn" /\ ~HasColumn(columns, op.name) ->
             Append(columns, Column(op.name, op.setting))
        [] op.op = "renameColumn" /\ HasColumn(columns, op.from) /\ ~HasColumn(columns, op.to) ->
             Changed(op.from, [Here(op.from) EXCEPT !.name = op.to])
        [] op.op = "change" /\ HasColumn(columns, op.column) ->
             Changed(op.column, [Here(op.column) EXCEPT !.setting = op.setting])
        [] op.op = "dropColumn" /\ HasColumn(columns, op.name) ->
             OnlyIn(columns, {c \in ToSet(columns) : c.name # op.name})
        [] op.op \in {"addIndex", "dropIndex"} -> columns
        [] OTHER -> <<>>

\* The indexes a batch asks for.
TargetIndexes(indexes, op) ==
  CASE op.op = "addIndex" -> Append(indexes, [name |-> op.name, column |-> op.column])
    [] op.op = "dropIndex" -> OnlyIn(indexes, {x \in ToSet(indexes) : x.name # op.name})
    [] OTHER -> indexes

\* One op as a statement of its own: a dropped column must not be covered, a renamed one
\* takes its indexes along.
NativeStep(t, op) ==
  LET columns == TargetColumns(t.columns, op)
      Follow(x) == IF x.column = op.from THEN [x EXCEPT !.column = op.to] ELSE x
      refused == \/ columns = <<>>
                 \/ /\ op.op = "dropColumn"
                    /\ \E i \in DOMAIN t.indexes : t.indexes[i].column = op.name
                 \/ op.op = "addIndex" /\ (\/ op.name \in NamesOf(t.indexes)
                                           \/ ~HasColumn(t.columns, op.column))
                 \/ op.op = "dropIndex" /\ op.name \notin NamesOf(t.indexes)
  IN  IF refused THEN Rejected
      ELSE [columns |-> columns,
            indexes |-> IF op.op = "renameColumn"
                          THEN [i \in DOMAIN t.indexes |-> Follow(t.indexes[i])]
                          ELSE TargetIndexes(t.indexes, op)]

\* The table rebuilt: an index whose column is not among the new ones is skipped.
Rebuilt(t, batch) ==
  LET columns == FoldLeft(TargetColumns, t.columns, batch)
      asked == FoldLeft(TargetIndexes, t.indexes, batch)
      indexes == OnlyIn(asked, {x \in ToSet(asked) : HasColumn(columns, x.column)})
  IN  IF columns = <<>> \/ Cardinality(NamesOf(indexes)) < Len(indexes) THEN Rejected
      ELSE [columns |-> columns, indexes |-> indexes]

\* The columns an index may be over: those there are, with the batch's column ops.
Available(t, batch) ==
  FoldLeft(LAMBDA names, op :
             CASE op.op = "addColumn" -> names \cup {op.name}
               [] op.op = "dropColumn" -> names \ {op.name}
               [] op.op = "renameColumn" /\ op.from \in names -> (names \ {op.from}) \cup {op.to}
               [] OTHER -> names,
           NamesOf(t.columns), batch)

TargetColumn(op) ==
  CASE op.op = "dropColumn" -> {op.name}
    [] op.op = "renameColumn" -> {op.from}
    [] op.op = "change" -> {op.column}
    [] OTHER -> {}

Valid(t, batch) ==
  \A op \in ToSet(batch) :
    /\ TargetColumn(op) \subseteq NamesOf(t.columns)
    /\ op.op = "addIndex" => op.column \in Available(t, batch)

Applied(t, batch) ==
  IF ~Valid(t, batch) THEN Rejected
  ELSE IF \E op \in ToSet(batch) : op.op = "change" THEN Rebuilt(t, batch)
  ELSE FoldLeft(NativeStep, t, batch)

------------------------------------------------------------------------------
StructTypeOK ==
  /\ \A t \in {dbTable, meta} :
       /\ ToSet(t.columns) \subseteq [name : ColumnName, setting : Setting]
       /\ t.columns # <<>>
       /\ ToSet(t.indexes) \subseteq [name : IndexName, column : ColumnName]
  /\ Len(ops) <= MaxOps /\ stagings \in 0..MaxStagings
  /\ where \in {"view", "tab", "workspace"}
  /\ leftover \in BOOLEAN
  /\ busy => where = "view" /\ \E i \in DOMAIN applies : applies[i].status # "answered"
  /\ review # Closed => where = "view"

StructInit ==
  /\ dbTable = [columns |-> [i \in DOMAIN Columns |-> Column(Columns[i], FirstSetting)],
                indexes |-> Indexes]
  /\ meta = dbTable /\ ops = <<>> /\ stagings = 0
  /\ where = "view" /\ busy = FALSE /\ applies = <<>> /\ review = Closed
  /\ leftover = FALSE

\* Bug variant: the statements of the batch before stay shown.
ReviewingStale(staged) ==
  [review EXCEPT !.asked = IF review.open /\ staged # <<>> THEN {toWireBatch(staged)} ELSE {}]

\* A change of the batch clears the statements shown; an open panel asks for the new ones,
\* and the answer to what it asked before is no longer awaited.
Reviewing(staged) ==
  [review EXCEPT !.shown = <<>>,
                 !.asked = IF review.open /\ staged # <<>> THEN {toWireBatch(staged)} ELSE {}]

SetOps(staged) ==
  /\ where = "view" /\ stagings < MaxStagings /\ Len(staged) <= MaxOps
  /\ ops' = staged /\ stagings' = stagings + 1 /\ review' = Reviewing(staged)
  /\ UNCHANGED <<dbTable, meta, where, busy, applies, leftover>>

Staged(op) == SetOps(Append(ops, op))
Without(Drops(_)) == OnlyIn(ops, {op \in ToSet(ops) : ~Drops(op)})
IsAdd(op, row) == op.op = "addColumn" /\ op.name = row.name
\* An added column is changed in the op that adds it.
EditAdded(row, Change(_)) ==
  SetOps([i \in DOMAIN ops |-> IF IsAdd(ops[i], row) THEN Change(ops[i]) ELSE ops[i]])
Introspected(origin) ==
  meta.columns[SelectInSeq(meta.columns, LAMBDA c : c.name = origin)]

------------------------------------------------------------------------------
(* StructureView.tsx: the columns.                                         *)

AddColumn ==
  /\ NewColumn \notin NamesOf(Rows)
  /\ Staged([op |-> "addColumn", name |-> NewColumn, setting |-> FirstSetting])

RenameColumn(i, to) ==
  LET row == Rows[i]
      IsRename(op) == op.op = "renameColumn" /\ op.from = row.origin[1]
  IN  /\ to \notin NamesOf(Rows)
      /\ IF row.origin = <<>> THEN EditAdded(row, LAMBDA op : [op EXCEPT !.name = to])
         ELSE IF to = row.origin[1] THEN SetOps(Without(IsRename))
         ELSE SetOps(Append(Without(IsRename),
                            [op |-> "renameColumn", from |-> row.origin[1], to |-> to]))

\* changeType, toggleNullable, changeDefault, changeComment
ChangeColumn(i, setting) ==
  LET row == Rows[i]
      IsChange(op) == op.op = "change" /\ op.column = row.origin[1]
  IN  /\ setting # row.setting
      /\ IF row.origin = <<>> THEN EditAdded(row, LAMBDA op : [op EXCEPT !.setting = setting])
         ELSE IF setting = Introspected(row.origin[1]).setting THEN SetOps(Without(IsChange))
         ELSE SetOps(Append(Without(IsChange),
                            [op |-> "change", column |-> row.origin[1], setting |-> setting]))

DropColumn(i) ==
  LET row == Rows[i]
  IN  /\ ~row.dropped
      /\ IF row.origin = <<>> THEN SetOps(Without(LAMBDA op : IsAdd(op, row)))
         ELSE Staged([op |-> "dropColumn", name |-> row.origin[1]])

UndropColumn(i) ==
  /\ Rows[i].dropped /\ Rows[i].origin # <<>>
  /\ SetOps(Without(LAMBDA op : op.op = "dropColumn" /\ op.name = Rows[i].origin[1]))

\* Escape: the newest added column goes, with every op that has its name.
CancelNewColumn ==
  LET i == SelectLastInSeq(ops, LAMBDA op : op.op = "addColumn")
  IN  /\ i # 0 /\ ~busy
      /\ SetOps(Without(LAMBDA op : "name" \in DOMAIN op /\ op.name = ops[i].name))

------------------------------------------------------------------------------
(* StructureView.tsx and ops.ts: the indexes.                              *)

AddIndex(column, name) ==
  /\ name \notin NamesOf(Cards)
  /\ \E row \in ToSet(Rows) : row.name = column /\ ~row.dropped
  /\ Staged([op |-> "addIndex", name |-> name, column |-> column])

Identity(card) == IF card.was = <<>> THEN card.name ELSE card.was[1]

\* withoutIndexOps: a staged op is filed under the name the database knows.
OfIndex(op, card) ==
  \/ op.op = "addIndex" /\ op.name = card.name
  \/ op.op = "dropIndex" /\ op.name = Identity(card)
  \/ op.op = "replaceIndex" /\ op.from = Identity(card)

WithoutIndexOps(card) == Without(LAMBDA op : OfIndex(op, card))

\* Any name may be typed, one that is taken too.
StageIndexEdit(card, column, name) ==
  LET rest == WithoutIndexOps(card)
      same == [name |-> name, column |-> column] \in ToSet(meta.indexes) /\ name = Identity(card)
  IN  /\ ~card.dropped
      /\ \E row \in ToSet(Rows) : row.name = column /\ ~row.dropped
      /\ IF card.isNew
           THEN SetOps(Append(rest, [op |-> "addIndex", name |-> name, column |-> column]))
         ELSE IF same THEN SetOps(rest)
         ELSE SetOps(Append(rest, [op |-> "replaceIndex", from |-> Identity(card), name |-> name,
                                   column |-> column]))

StageIndexDrop(card) ==
  /\ ~card.dropped
  /\ IF card.isNew THEN SetOps(WithoutIndexOps(card))
     ELSE SetOps(Append(WithoutIndexOps(card), [op |-> "dropIndex", name |-> Identity(card)]))

StageIndexRestore(card) ==
  /\ card.dropped \/ card.was # <<>>
  /\ SetOps(WithoutIndexOps(card))

------------------------------------------------------------------------------
(* Review, apply, discard; leaving the editor and coming back.             *)

ToggleReview ==
  /\ where = "view" /\ ops # <<>>
  /\ review' = [review EXCEPT !.open = ~@, !.asked = IF review.open THEN {} ELSE {toWireBatch(ops)}]
  /\ UNCHANGED <<dbTable, meta, ops, stagings, where, busy, applies, leftover>>

PreviewArrives(batch) ==
  /\ batch \in review.asked
  /\ review' = [review EXCEPT !.asked = @ \ {batch},
                              !.shown = IF Valid(dbTable, batch) THEN <<batch>> ELSE <<>>]
  /\ UNCHANGED <<dbTable, meta, ops, stagings, where, busy, applies, leftover>>

ApplyPending ==
  /\ where = "view" /\ ops # <<>> /\ ~busy /\ Len(applies) < MaxApplies
  /\ busy' = TRUE
  /\ applies' = Append(applies, [batch |-> toWireBatch(ops), status |-> "sent", here |-> TRUE])
  /\ UNCHANGED <<dbTable, meta, ops, stagings, where, leftover, review>>

\* alter_table_blocking, in one transaction.
Alter(i) ==
  LET altered == Applied(dbTable, applies[i].batch)
  IN  /\ applies[i].status = "sent"
      /\ applies' = [applies EXCEPT ![i].status = IF altered = Rejected THEN "failed" ELSE "done"]
      /\ dbTable' = IF altered = Rejected THEN dbTable ELSE altered
      /\ UNCHANGED <<meta, ops, stagings, where, busy, leftover, review>>

\* The ops of the workspace on screen are cleared, whichever it is; the table is read again.
ApplyAnswered(i) ==
  /\ applies[i].status = "done"
  /\ applies' = [applies EXCEPT ![i].status = "answered"]
  /\ ops' = IF where = "workspace" THEN ops ELSE <<>>
  /\ leftover' = (leftover \/ ops' # <<>>)
  /\ meta' = dbTable
  /\ review' = IF where # "view" \/ applies[i].here THEN Closed ELSE Reviewing(<<>>)
  /\ busy' = (busy /\ ~applies[i].here)
  /\ UNCHANGED <<dbTable, stagings, where>>

\* The batch stays staged.
ApplyFailed(i) ==
  /\ applies[i].status = "failed"
  /\ applies' = [applies EXCEPT ![i].status = "answered"]
  /\ busy' = (busy /\ ~applies[i].here)
  /\ UNCHANGED <<dbTable, meta, ops, stagings, where, leftover, review>>

DiscardPending ==
  /\ where = "view" /\ ops # <<>> /\ ~busy
  /\ ops' = <<>> /\ review' = Closed
  /\ UNCHANGED <<dbTable, meta, stagings, where, busy, applies, leftover>>

\* What the editor holds itself is forgotten; the staged ops are not.
LeaveEditor(to) ==
  /\ where = "view" /\ to # "view"
  /\ where' = to /\ busy' = FALSE /\ review' = Closed
  /\ applies' = [i \in DOMAIN applies |-> [applies[i] EXCEPT !.here = FALSE]]
  /\ UNCHANGED <<dbTable, meta, ops, stagings, leftover>>

ReturnToEditor ==
  /\ where # "view" /\ where' = "view"
  /\ UNCHANGED <<dbTable, meta, ops, stagings, busy, applies, leftover, review>>

StructNext ==
  \/ AddColumn \/ CancelNewColumn
  \/ \E i \in DOMAIN Rows, to \in ColumnName : RenameColumn(i, to)
  \/ \E i \in DOMAIN Rows, setting \in Setting : ChangeColumn(i, setting)
  \/ \E i \in DOMAIN Rows : DropColumn(i) \/ UndropColumn(i)
  \/ \E column \in ColumnName, name \in IndexName : AddIndex(column, name)
  \/ \E card \in ToSet(Cards), column \in ColumnName, name \in IndexName :
       StageIndexEdit(card, column, name)
  \/ \E card \in ToSet(Cards) : StageIndexDrop(card) \/ StageIndexRestore(card)
  \/ ToggleReview \/ \E batch \in review.asked : PreviewArrives(batch)
  \/ ApplyPending \/ \E i \in DOMAIN applies : Alter(i) \/ ApplyAnswered(i) \/ ApplyFailed(i)
  \/ DiscardPending \/ ReturnToEditor \/ \E to \in {"tab", "workspace"} : LeaveEditor(to)

StructSpec == StructInit /\ [][StructNext]_structVars

------------------------------------------------------------------------------
(* Properties.                                                             *)

\* The statements under Review SQL are those of the batch that Apply would send, however
\* late the answers come (StructureView preview effect, 431-451).
PreviewIsOfTheBatch == review.shown # <<>> => review.shown[1] = toWireBatch(ops)

IndexNamesFresh ==
  \A op \in ToSet(ops) :
    op.op \in {"addIndex", "replaceIndex"} =>
      (op.op = "replaceIndex" /\ op.name = op.from) \/ op.name \notin NamesOf(meta.indexes)

\* An index of the table has one staged op at most, and a card on the screen that says so,
\* also after it was given another name (ops.ts withoutIndexOps: "an index can never
\* accumulate two adds or a stale drop"). Ops left behind by a batch that was applied are
\* about a table that is no more; an edit may also give an index the name another one has
\* in the table, and then the ops of one are taken for the other's.
IndexOpsHaveACard ==
  ~leftover /\ IndexNamesFresh => \A i \in DOMAIN ops :
    /\ ops[i].op = "dropIndex" =>
         \E card \in ToSet(Cards) : card.dropped /\ card.name = ops[i].name /\ card.was = <<>>
    /\ ops[i].op = "replaceIndex" =>
         \E card \in ToSet(Cards) : card.was = <<ops[i].from>> /\ card.name = ops[i].name

\* What the screen makes of the table, as the engine would store it.
Shown ==
  LET rows == OnlyIn(Rows, {r \in ToSet(Rows) : ~r.dropped})
  IN  [i \in DOMAIN rows |-> Column(rows[i].name, rows[i].setting)]

Renamed == {ops[i].from : i \in {j \in DOMAIN ops : ops[j].op = "renameColumn"}}
Untangled ==
  \A i, j \in DOMAIN ops :
    /\ i # j /\ ops[i].op = "renameColumn" => ops[i].from \notin TargetColumn(ops[j])
    /\ ops[i].op = "addColumn" => ops[i].name \notin Renamed
    /\ ops[i].op = "renameColumn" => ops[i].to \notin Renamed

\* A batch the engine takes leaves the columns on screen behind: the two replays, in staging
\* order and in phase order, agree as long as no renamed column is changed otherwise and no
\* name it gave up is used again, in a table that is still the one read
\* (ops.ts 7-10, compute_target_columns).
AcceptedIsAsShown ==
  LET altered == Applied(meta, toWireBatch(ops))
  IN  ops # <<>> /\ ~leftover /\ Untangled /\ altered # Rejected => altered.columns = Shown

\* Does not hold: without that condition the screen shows another table.
WorkingSetIsTheResult ==
  LET altered == Applied(meta, toWireBatch(ops))
  IN  ops # <<>> /\ ~leftover /\ altered # Rejected => altered.columns = Shown

\* Does not hold: an index nobody dropped is still there after a batch, unless its column
\* went: "The user-created indexes ... the rebuild should recreate: the introspected user
\* indexes plus any `AddIndex`, minus any `DropIndex` (by name)" (sqlite/structure.rs
\* compute_target_indexes). The rebuild skips an index whose column was renamed.
KeptIndexIsKept ==
  [][\A i \in DOMAIN applies : Alter(i) =>
       \A x \in ToSet(dbTable.indexes) :
         \/ x.name \in NamesOf(dbTable'.indexes)
         \/ \E op \in ToSet(applies[i].batch) :
              op.op \in {"dropIndex", "dropColumn"} /\ op.name \in {x.name, x.column}]_structVars

\* Does not hold: a batch that was applied is no longer staged (StructureView applyPending,
\* "Success: clear the batch").
AppliedBatchIsCleared ==
  [][\A i \in DOMAIN applies : ApplyAnswered(i) => ops' = <<>>]_structVars
===============================================================================
