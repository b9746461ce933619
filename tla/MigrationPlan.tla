---------------------------- MODULE MigrationPlan ----------------------------
(* The differ and the planner of src-tauri/src/features/schema_diff: how two *)
(* snapshots differ, the statements that are to make the target like the     *)
(* source, and what running them on Postgres makes of it. A type stands for  *)
(* its normal form (norm), nullability is written into a CREATE and compared *)
(* nowhere, and so is whether an index is unique: neither is told apart. The *)
(* tables are plain ones, without partitions or inheritance.                 *)
EXTENDS Integers, Sequences, FiniteSets, SequencesExt

CONSTANTS TableName,   \* the tables there may be, numbers: their alphabetical order
          ColumnName,  \* the columns, numbers
          IndexName,   \* the secondary indexes, whose names a schema keeps apart
          Type,        \* declared types
          Absent

ASSUME PlanAssumption ==
  /\ \A names \in {TableName, ColumnName, IndexName} :
       IsFiniteSet(names) /\ names \subseteq Nat \ {0}
  /\ Absent \notin [type : Type, pk : BOOLEAN]
  /\ Absent \notin [table : TableName, on : SUBSET ColumnName]

VARIABLES planSource,  \* the snapshot of the source
          planTarget,  \* the target, as it is
          rounds,      \* how many whole plans were run on it
          refused      \* whether the last one was rolled back

planVars == <<planSource, planTarget, rounds, refused>>

\* A snapshot: the columns of each table, and where each index is, on what.
HasTable(s, t) == \E c \in ColumnName : s.columns[t][c] # Absent
HasColumn(s, t, c) == s.columns[t][c] # Absent
IndexesOf(s, t) == {i \in IndexName : s.index[i] # Absent /\ s.index[i].table = t}

(* diff, diff_table *)

Added(a, b, t) == {c \in ColumnName : HasColumn(a, t, c) /\ ~HasColumn(b, t, c)}
Altered(a, b, t) ==
  {c \in ColumnName : HasColumn(a, t, c) /\ HasColumn(b, t, c) /\ a.columns[t][c].type # b.columns[t][c].type}

\* Indexes are compared by name, the key's left out.
IndexesAdded(a, b, t) == IndexesOf(a, t) \ IndexesOf(b, t)

\* Bug variant of Status: only what the source has is looked at.
StatusOneWay(a, b, t) ==
  IF ~HasTable(b, t) THEN "new"
  ELSE IF ~HasTable(a, t) THEN "only-target"
  ELSE IF Added(a, b, t) \cup Altered(a, b, t) = {} /\ IndexesAdded(a, b, t) = {} THEN "same"
  ELSE "changed"

Status(a, b, t) ==
  IF ~HasTable(b, t) THEN "new"
  ELSE IF ~HasTable(a, t) THEN "only-target"
  ELSE IF Added(a, b, t) \cup Altered(a, b, t) \cup Added(b, a, t) = {}
          /\ IndexesOf(a, t) = IndexesOf(b, t) THEN "same"
  ELSE "changed"

Tables(a, b) == {t \in TableName : HasTable(a, t) \/ HasTable(b, t)}

(* plan *)

Sorted(S) ==
  [k \in 1..Cardinality(S) |-> CHOOSE x \in S : Cardinality({y \in S : y <= x}) = k]

\* What stands for each of some names, in the order of the names.
Over(each) == LET q == Sorted(DOMAIN each) IN [k \in 1..Len(q) |-> each[q[k]]]

\* The statements of one table: columns added or altered, dropped, then the indexes.
ColumnsToAdd(a, b, t) ==
  [c \in Added(a, b, t) |-> [kind |-> "col-add", table |-> t, column |-> c, type |-> a.columns[t][c].type]]
ColumnsToAlter(a, b, t) ==
  [c \in Altered(a, b, t) |-> [kind |-> "col-alter", table |-> t, column |-> c, type |-> a.columns[t][c].type]]
ColumnsToDrop(a, b, t) ==
  [c \in Added(b, a, t) |-> [kind |-> "col-drop", table |-> t, column |-> c]]
IndexesToCreate(a, b, t) ==
  [i \in IndexesAdded(a, b, t) |-> [kind |-> "index", index |-> i, table |-> t, on |-> a.index[i].on]]
IndexesToDrop(a, b, t) == [i \in IndexesAdded(b, a, t) |-> [kind |-> "index-drop", index |-> i]]

TablePlan(a, b, t) ==
  Over(ColumnsToAdd(a, b, t)) \o Over(ColumnsToAlter(a, b, t)) \o Over(ColumnsToDrop(a, b, t))
    \o Over(IndexesToCreate(a, b, t)) \o Over(IndexesToDrop(a, b, t))

\* New tables first, then the changed ones, then those only the target has.
Having(a, b, st) == {t \in Tables(a, b) : Status(a, b, t) = st}
TablesToCreate(a, b) ==
  [t \in Having(a, b, "new") |-> [kind |-> "create", table |-> t, columns |-> a.columns[t]]]
TablesToChange(a, b) == [t \in Having(a, b, "changed") |-> TablePlan(a, b, t)]
TablesToDrop(a, b) == [t \in Having(a, b, "only-target") |-> [kind |-> "drop", table |-> t]]

Plan(a, b) ==
  Over(TablesToCreate(a, b)) \o FlattenSeq(Over(TablesToChange(a, b))) \o Over(TablesToDrop(a, b))

(* execute_script on Postgres: one transaction. An index goes with a column  *)
(* it is on and with its table. Execute is a statement that nothing outside  *)
(* the two snapshots stands in the way of; what may is in Outcomes.          *)

Rejected == [rejected |-> TRUE]

KeyColumns(columns) == {c \in ColumnName : columns[c] # Absent /\ columns[c].pk}

\* Refused for what the snapshots show: two primary keys, a name in use, nothing of that name.
Rejects(s, q) ==
  \/ q.kind = "create" /\ \E c, d \in KeyColumns(q.columns) : c # d
  \/ q.kind = "index" /\ s.index[q.index] # Absent
  \/ q.kind = "index-drop" /\ s.index[q.index] = Absent

WithoutIndexes(s, gone) == [i \in IndexName |-> IF i \in gone THEN Absent ELSE s.index[i]]

Execute(s, q) ==
  IF s = Rejected \/ Rejects(s, q) THEN Rejected
  ELSE CASE q.kind = "create" -> [s EXCEPT !.columns[q.table] = q.columns]
         [] q.kind = "drop" ->
              [columns |-> [s.columns EXCEPT ![q.table] = [c \in ColumnName |-> Absent]],
               index |-> WithoutIndexes(s, IndexesOf(s, q.table))]
         [] q.kind = "col-add" -> [s EXCEPT !.columns[q.table][q.column] = [type |-> q.type, pk |-> FALSE]]
         [] q.kind = "col-alter" -> [s EXCEPT !.columns[q.table][q.column] = [@ EXCEPT !.type = q.type]]
         [] q.kind = "col-drop" ->
              [columns |-> [s.columns EXCEPT ![q.table][q.column] = Absent],
               index |-> WithoutIndexes(s, {i \in IndexesOf(s, q.table) : q.column \in s.index[i].on})]
         [] q.kind = "index" -> [s EXCEPT !.index[q.index] = [table |-> q.table, on |-> q.on]]
         [] q.kind = "index-drop" -> [s EXCEPT !.index[q.index] = Absent]

After(a, b) == FoldLeft(Execute, b, Plan(a, b))

\* Any statement may be refused for more than that: no cast leads to the new type and no USING is
\* written, the index is that of a UNIQUE constraint, something depends on what is dropped, a type
\* is not known to the target. The whole plan is rolled back then.
Outcomes(a, b) == {After(a, b)} \cup {x \in {Rejected} : Plan(a, b) # <<>>}

(* A comparison, and the whole of its plan run on the target. *)

Schema ==
  LET Cols == [ColumnName -> [type : Type, pk : BOOLEAN] \cup {Absent}]
  IN {s \in [columns : [TableName -> Cols], index : [IndexName -> [table : TableName, on : SUBSET ColumnName] \cup {Absent}]] :
        \A i \in IndexName : s.index[i] # Absent =>
          s.index[i].on # {} /\ \A c \in s.index[i].on : HasColumn(s, s.index[i].table, c)}

PlanInit == planSource \in Schema /\ planTarget \in Schema /\ rounds = 0 /\ refused = FALSE

\* A plan of no statement is not sent, and counts as taken.
Migrate ==
  \E after \in Outcomes(planSource, planTarget) :
    /\ rounds < 2
    /\ IF after = Rejected THEN refused' = TRUE /\ UNCHANGED <<planTarget, rounds>>
       ELSE planTarget' = after /\ rounds' = rounds + 1 /\ refused' = FALSE
    /\ UNCHANGED planSource

PlanSpec == PlanInit /\ [][Migrate]_planVars

(* Properties *)

\* Same tables, columns and types, and no index the source's table has none of that name for.
LacksOnlyIndexes(a, b) ==
  \A t \in TableName :
    /\ IndexesOf(b, t) \subseteq IndexesOf(a, t)
    /\ \A c \in ColumnName :
         /\ HasColumn(a, t, c) <=> HasColumn(b, t, c)
         /\ HasColumn(a, t, c) => a.columns[t][c].type = b.columns[t][c].type

\* As far as two schemas are compared: keys are not, and of an index only its name and table.
Matches(a, b) == LacksOnlyIndexes(a, b) /\ \A t \in TableName : IndexesOf(a, t) \subseteq IndexesOf(b, t)

\* Plans whose own statements stand in each other's way: a new table with a key of two columns, an
\* index dropped after a column it is on, an index created while another table of the target still
\* has its name.
DefeatsItself(a, b) ==
  \/ \E t \in Tables(a, b) : ~HasTable(b, t) /\ \E c, d \in KeyColumns(a.columns[t]) : c # d
  \/ \E t \in Tables(a, b) : \E i \in IndexesAdded(b, a, t) : HasTable(a, t) /\ b.index[i].on \cap Added(b, a, t) # {}
  \/ \E t, u \in TableName : \E i \in IndexesOf(a, t) \cap IndexesOf(b, u) :
       HasTable(b, t) /\ t # u /\ (u > t \/ ~HasTable(a, u))

\* Whatever else Postgres may refuse, it never takes a plan that defeats itself. A plan it takes
\* makes the target's tables, columns and types the source's; what the next comparison then finds
\* are indexes to create, those of the new tables and those lost with a column they shared, none
\* under a name in use, and once that plan is taken too it finds nothing (domain/mod.rs 236-520).
PlanConverges ==
  /\ rounds = 0 => (DefeatsItself(planSource, planTarget) => After(planSource, planTarget) = Rejected)
  /\ rounds = 1 => LacksOnlyIndexes(planSource, planTarget) /\ After(planSource, planTarget) # Rejected
  /\ rounds = 2 => Matches(planSource, planTarget)

\* NOT a property of the code: one plan makes the target match the source, as the module's own
\* comment says of it (domain/mod.rs 3).
PlanMatches == rounds = 1 => Matches(planSource, planTarget)
=============================================================================
