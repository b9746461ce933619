------------------------------- MODULE MapEdits -------------------------------
(***************************************************************************)
(* Edit mode of the schema map (schema_map/hooks/useSchemaEditor.ts): each *)
(* edit changes an editable copy of the schema and stages one statement    *)
(* with the mutation that goes with it. Un-staging and reordering replay   *)
(* the mutations over a snapshot; a commit runs the statements as one      *)
(* script. Indexes, defaults and card positions are left out.              *)
(***************************************************************************)
EXTENDS Integers, SequencesExt, Selections

CONSTANTS
  Seeds,                  \* schemas the map may find in the database
  TableName, NewTables,   \* names; "new_table", "new_table_2", ... in order
  ColName, NewCols,       \* likewise for columns
  IdCol, TextType, IntType, ColType,
  NoName, NoSchema,
  MaxStaged,              \* bound: statements in the list
  MaxRebuilds,            \* bound: replays between two discards or commits
  MaxReloads              \* bound: reads of the schema without a commit

ASSUME MapAssumption == MaxStaged \in Nat /\ MaxRebuilds \in Nat /\ MaxReloads \in Nat
ASSUME MapNames ==
  /\ NewTables \in Seq(TableName) /\ NewCols \in Seq(ColName)
  /\ IdCol \in ColName /\ TextType \in ColType /\ IntType \in ColType

VARIABLES
  introspected,  \* the metas, NoSchema while they load
  diagram,       \* the editable schema
  snapshot,      \* what discard and replay start from, or NoSchema
  migration,     \* the pending statements
  cells,         \* what each created table's object holds by now
  committing,    \* a script is under way
  reused,        \* history: the last replay began from an object an earlier one wrote to
  rebuilds, reloads

mapVars == <<introspected, diagram, snapshot, migration, cells, committing, reused,
             rebuilds, reloads>>

-----------------------------------------------------------------------------
(* A schema maps its tables to [columns, fks, cell]; cell # 0 while the      *)
(* table IS the object the statement with that number created.               *)

Col(name, type, pk, nullable) == [name |-> name, type |-> type, pk |-> pk, nullable |-> nullable]
NewTable == [columns |-> <<Col(IdCol, IntType, TRUE, FALSE)>>, fks |-> <<>>]
Find(s, name) == SelectInSeq(s, LAMBDA x : x.name = name)
Has(s, name) == Find(s, name) # 0
Names(s) == {s[i].name : i \in DOMAIN s}

\* The first column of the name, if any.
OnColumn(columns, name, F(_)) ==
  IF Has(columns, name) THEN [columns EXCEPT ![Find(columns, name)] = F(@)] ELSE columns

\* What a mutation makes of the columns of a table it is about.
ColumnsAfter(columns, op) ==
  CASE op.kind = "addColumn" -> Append(columns, Col(op.col, TextType, FALSE, TRUE))
    [] op.kind = "renameColumn" -> OnColumn(columns, op.col, LAMBDA c : [c EXCEPT !.name = op.to])
    [] op.kind = "changeType" -> OnColumn(columns, op.col, LAMBDA c : [c EXCEPT !.type = op.to])
    [] op.kind = "setNullable" -> OnColumn(columns, op.col, LAMBDA c : [c EXCEPT !.nullable = TRUE])
    [] op.kind = "setNotNull" -> OnColumn(columns, op.col, LAMBDA c : [c EXCEPT !.nullable = FALSE])
    [] op.kind = "addPk" ->
         OnColumn([i \in DOMAIN columns |-> [columns[i] EXCEPT !.pk = FALSE]], op.col,
                  LAMBDA c : [c EXCEPT !.pk = TRUE, !.nullable = FALSE])
    [] op.kind = "dropPk" -> OnColumn(columns, op.col, LAMBDA c : [c EXCEPT !.pk = FALSE])
    [] op.kind = "dropColumn" -> OnlyIn(columns, {c \in ToSet(columns) : c.name # op.col})
    [] OTHER -> columns

\* Of its links. Renaming a table or dropping it concerns the links of every table: those to
\* it are repointed, or go with it.
FksAfter(fks, op) ==
  CASE op.kind = "renameColumn" ->
         [i \in DOMAIN fks |->
            IF fks[i].col = op.col THEN [fks[i] EXCEPT !.col = op.to] ELSE fks[i]]
    [] op.kind = "dropColumn" -> OnlyIn(fks, {fk \in ToSet(fks) : fk.col # op.col})
    [] op.kind = "addFk" ->
         Append(fks, [name |-> <<op.table, op.col>>, col |-> op.col,
                      refTable |-> op.to, refCol |-> op.ref])
    [] op.kind = "dropFk" -> OnlyIn(fks, {fk \in ToSet(fks) : fk.name # <<op.col, op.ref>>})
    [] op.kind = "renameTable" ->
         [i \in DOMAIN fks |->
            IF fks[i].refTable = op.table THEN [fks[i] EXCEPT !.refTable = op.to] ELSE fks[i]]
    [] op.kind = "dropTable" -> OnlyIn(fks, {fk \in ToSet(fks) : fk.refTable # op.table})
    [] OTHER -> fks

Held(content, cell) == [columns |-> content.columns, fks |-> content.fks, cell |-> cell]

\* The table stays the object it was.
Redrawn(meta, op) ==
  [columns |-> ColumnsAfter(meta.columns, op), fks |-> FksAfter(meta.fks, op), cell |-> meta.cell]

WithTable(schema, op, made) ==
  [t \in DOMAIN schema \cup {op.table} |-> IF t = op.table THEN Held(made, op.id) ELSE schema[t]]

WithTableRenamed(schema, op) ==
  IF op.table \notin DOMAIN schema THEN schema
  ELSE [t \in (DOMAIN schema \ {op.table}) \cup {op.to} |->
          Redrawn(schema[IF t = op.to THEN op.table ELSE t], op)]

WithoutTable(schema, op) == [t \in DOMAIN schema \ {op.table} |-> Redrawn(schema[t], op)]

WithTableRedrawn(schema, op) ==
  [t \in DOMAIN schema |-> IF t = op.table THEN Redrawn(schema[t], op) ELSE schema[t]]

\* The mutation of an op: on names, so that one whose subject is gone does nothing.
Mutated(schema, op, made) ==
  CASE op.kind = "addTable" -> WithTable(schema, op, made)
    [] op.kind = "renameTable" -> WithTableRenamed(schema, op)
    [] op.kind = "dropTable" -> WithoutTable(schema, op)
    [] OTHER -> WithTableRedrawn(schema, op)

AsCell(content) == Held(content, 0)

\* cloneEditSchema: no table is a shared object any more.
Clone(schema) == [t \in DOMAIN schema |-> AsCell(schema[t])]

DrawnColumn == [name : ColName, type : ColType, pk : BOOLEAN, nullable : BOOLEAN]
DrawnLink == [name : TableName \X ColName, col : ColName, refTable : TableName, refCol : ColName]
DrawnTable(objects) == [columns : Seq(DrawnColumn), fks : Seq(DrawnLink), cell : objects]
IsDrawing(schema, objects) == \E names \in SUBSET TableName : schema \in [names -> DrawnTable(objects)]

\* A schema that is read holds no object of a statement.
ASSUME SeedsAssumption == (\A s \in Seeds : IsDrawing(s, {0})) /\ ~IsDrawing(NoSchema, {0})

\* A created table is the object its statement holds, and what later mutations do to the
\* table they do to that object.
WrittenTo(held, schema) ==
  [c \in DOMAIN held |->
     IF \E t \in DOMAIN schema : schema[t].cell = c
     THEN AsCell(schema[CHOOSE t \in DOMAIN schema : schema[t].cell = c]) ELSE held[c]]

\* One step of a replay.
ReplayStep(state, op) ==
  LET schema == Mutated(state.schema, op, state.cells[op.id])
  IN  [schema |-> schema, cells |-> WrittenTo(state.cells, schema)]

Replay(schema, list, from) == FoldLeft(ReplayStep, [schema |-> Clone(schema), cells |-> from], list)

Ids(list) == {list[i].id : i \in DOMAIN list}
FreeId == CHOOSE c \in 1..MaxStaged : c \notin Ids(migration)
FreshCells == [c \in 1..MaxStaged |-> AsCell(NewTable)]

\* The objects of statements that are gone are garbage.
CellsOf(list, from) == [c \in DOMAIN from |-> IF c \in Ids(list) THEN from[c] ELSE FreshCells[c]]

-----------------------------------------------------------------------------
MapTypeOK ==
  /\ introspected \in Seeds \cup {NoSchema}
  /\ IsDrawing(diagram, {0})
  /\ Len(migration) <= MaxStaged /\ rebuilds <= MaxRebuilds /\ reloads <= MaxReloads
  /\ \A c \in DOMAIN cells : c \notin Ids(migration) => cells[c] = FreshCells[c]
  /\ migration # <<>> => snapshot # NoSchema

MapInit ==
  /\ introspected \in Seeds /\ diagram = introspected
  /\ snapshot = NoSchema /\ migration = <<>> /\ cells = FreshCells
  /\ committing = FALSE /\ reused = FALSE /\ rebuilds = 0 /\ reloads = 0

\* stageOp, after ensureSnapshot.
Stage(kind, table, col, to, ref) ==
  LET op == [kind |-> kind, table |-> table, col |-> col, to |-> to, ref |-> ref, id |-> FreeId]
  IN  /\ Len(migration) < MaxStaged
      /\ snapshot' = IF snapshot = NoSchema THEN diagram ELSE snapshot
      /\ diagram' = Clone(Mutated(diagram, op, cells[op.id]))
      /\ migration' = Append(migration, op)
      /\ UNCHANGED <<introspected, cells, committing, reused, rebuilds, reloads>>

FirstFree(names, used) == SelectInSeq(names, LAMBDA n : n \notin used)

EditColumn(t, i) ==
  LET c == diagram[t].columns[i]  IN
  \/ \E to \in ColName \ Names(diagram[t].columns) : Stage("renameColumn", t, c.name, to, NoName)
  \/ \E to \in ColType \ {c.type} : Stage("changeType", t, c.name, to, NoName)
  \/ ~c.pk /\ Stage(IF c.nullable THEN "setNotNull" ELSE "setNullable", t, c.name, NoName, NoName)
  \/ Stage(IF c.pk THEN "dropPk" ELSE "addPk", t, c.name, NoName, NoName)
  \/ Stage("dropColumn", t, c.name, NoName, NoName)

AddColumnTo(t) ==
  LET n == FirstFree(NewCols, Names(diagram[t].columns))
  IN  n # 0 /\ Stage("addColumn", t, NewCols[n], NoName, NoName)

\* The link points to the target's primary key, wherever it was dropped.
AddForeignKey(t, i, to) ==
  LET col == diagram[t].columns[i].name
      pk == SelectInSeq(diagram[to].columns, LAMBDA c : c.pk)
  IN  /\ pk # 0
      /\ \A k \in DOMAIN diagram[t].fks :
           ~(diagram[t].fks[k].col = col /\ diagram[t].fks[k].refTable = to)
      /\ Stage("addFk", t, col, to, diagram[to].columns[pk].name)

AddTable ==
  LET n == FirstFree(NewTables, DOMAIN diagram)
  IN  n # 0 /\ Stage("addTable", NewTables[n], NoName, NoName, NoName)

RenameATable(t, to) == to \notin DOMAIN diagram /\ Stage("renameTable", t, NoName, to, NoName)

-----------------------------------------------------------------------------
\* rebuild: the replay of another list over the snapshot.
Rebuild(list) ==
  /\ LET result == Replay(snapshot, list, cells)
     IN  diagram' = Clone(result.schema) /\ cells' = CellsOf(list, result.cells)
  /\ reused' = (\E c \in Ids(list) : cells[c] # FreshCells[c])
  /\ migration' = list
  /\ rebuilds < MaxRebuilds /\ rebuilds' = rebuilds + 1
  /\ UNCHANGED <<introspected, snapshot, committing, reloads>>

Unstage(i) == Rebuild(RemoveAt(migration, i))

Reorder(i, j) == i # j /\ Rebuild(InsertAt(RemoveAt(migration, i), j, migration[i]))

\* A link staged in this session is un-staged, another one dropped by a statement.
RemoveForeignKey(t, k) ==
  LET name == diagram[t].fks[k].name
      adds == SelectInSeq(migration,
                LAMBDA op : op.kind = "addFk" /\ op.table = t /\ name = <<t, op.col>>)
  IN  IF adds # 0 THEN Unstage(adds) ELSE Stage("dropFk", t, name[1], NoName, name[2])

\* Nothing is staged any more: no statement holds an object.
Unreplayed == cells' = FreshCells /\ reused' = FALSE /\ rebuilds' = 0

Discard ==
  /\ migration # <<>> /\ migration' = <<>> /\ Unreplayed
  /\ diagram' = snapshot /\ snapshot' = NoSchema
  /\ UNCHANGED <<introspected, committing, reloads>>

\* The modal's button is disabled while a commit is under way; the modal can be closed.
Commit ==
  /\ migration # <<>> /\ ~committing /\ committing' = TRUE
  /\ UNCHANGED <<introspected, diagram, snapshot, migration, cells, reused, rebuilds, reloads>>

CommitFails ==
  /\ committing /\ committing' = FALSE
  /\ UNCHANGED <<introspected, diagram, snapshot, migration, cells, reused, rebuilds, reloads>>

\* Bug variant: the snapshot stays for the next session.
CommittedKeepingSnapshot ==
  /\ committing /\ committing' = FALSE
  /\ introspected' = NoSchema /\ diagram' = <<>>
  /\ migration' = <<>> /\ Unreplayed
  /\ UNCHANGED <<snapshot, reloads>>

\* The list is emptied and the map reads the schema again.
Committed ==
  /\ committing /\ committing' = FALSE
  /\ introspected' = NoSchema /\ diagram' = <<>>
  /\ snapshot' = NoSchema /\ migration' = <<>> /\ Unreplayed
  /\ UNCHANGED reloads

\* The metas go and come back: after a commit, or because the language changed.
Reload ==
  /\ introspected # NoSchema /\ reloads < MaxReloads /\ reloads' = reloads + 1
  /\ introspected' = NoSchema /\ diagram' = <<>>
  /\ migration' = <<>> /\ Unreplayed
  /\ UNCHANGED <<snapshot, committing>>

Loaded ==
  /\ introspected = NoSchema
  /\ introspected' \in Seeds /\ diagram' = introspected' /\ migration' = <<>>
  /\ UNCHANGED <<snapshot, cells, committing, reused, rebuilds, reloads>>

Edit ==
  \/ AddTable
  \/ \E t \in DOMAIN diagram :
       \/ AddColumnTo(t) \/ Stage("dropTable", t, NoName, NoName, NoName)
       \/ \E to \in TableName : RenameATable(t, to)
       \/ \E i \in DOMAIN diagram[t].columns :
            EditColumn(t, i) \/ \E to \in DOMAIN diagram : AddForeignKey(t, i, to)
       \/ \E k \in DOMAIN diagram[t].fks : RemoveForeignKey(t, k)
  \/ \E i \in DOMAIN migration : Unstage(i) \/ \E j \in DOMAIN migration : Reorder(i, j)
  \/ Discard \/ Commit

MapNext == (introspected # NoSchema /\ Edit) \/ CommitFails \/ Committed \/ Reload \/ Loaded

MapSpec == MapInit /\ [][MapNext]_mapVars

-----------------------------------------------------------------------------
(* Properties.                                                             *)

ShownIs(base) == diagram = Clone(Replay(base, migration, FreshCells).schema)

\* The diagram is the introspected schema with the staged statements done in their order,
\* after any edits, removals, reorderings, discards and commits (useSchemaEditor.ts rebuild,
\* discard, commit): unless the last replay began from a created table's object that an earlier
\* one had written to, or the metas were read again without a commit, which leaves a snapshot
\* of the schema from before.
DiagramIsTheMigration ==
  introspected # NoSchema /\ ~reused /\ reloads = 0 => ShownIs(introspected)

\* Does not hold: "Replay `nextOps` over the pre-edit snapshot to rebuild the model — correct for
\* both removal (a survivor set) and reordering" (useSchemaEditor.ts 448). What a replay does
\* to a created table stays in the object its statement holds, so the next replay starts
\* from a table that is not new: columns of removed statements stay, others come twice.
RebuildFollowsTheList == reloads = 0 /\ migration # <<>> => ShownIs(snapshot)
===============================================================================
