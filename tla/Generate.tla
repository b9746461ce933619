------------------------------- MODULE Generate -------------------------------
(***************************************************************************)
(* Filling every table of a schema with generated rows.  The planner orders *)
(* the tables parents first and defers the foreign keys that point back;    *)
(* the run inserts chunk by chunk, takes the keys it points at from pools   *)
(* it reads once per run, can be cancelled between chunks, goes on past a   *)
(* table that fails, and wires the deferred columns last.  A row is told    *)
(* apart by whether a foreign key of it is NULL; the values, the roles that *)
(* scale the counts and the collisions of unique values are the outcome of  *)
(* an insert, which may fail.  Tables are numbered by their names' order.   *)
(***************************************************************************)
EXTENDS Integers, Sequences, SequencesExt, FiniteSetsExt, Selections

CONSTANTS
  TableCount,   \* the schema's tables are 1..TableCount
  Schemas,      \* the foreign keys: for each table the tables its columns refer to
  ChunkCount,   \* chunks per table
  PoolCap,      \* chunks of keys a pool read returns at most (POOL_CAP)
  MaxGenerates, \* how often a generation is started
  MaxUnread     \* how many pool reads fail

ASSUME GenerateAssumption ==
  /\ TableCount \in Nat \ {0} /\ ChunkCount \in Nat \ {0} /\ PoolCap \in Nat \ {0}
  /\ \A s \in Schemas : s \in [1..TableCount -> Seq(1..TableCount)]
  /\ MaxUnread \in Nat

VARIABLES
  fks,          \* the schema
  keyed,        \* the tables that have a primary key
  original,     \* the tables that had rows of the user's
  stored,       \* chunks of rows in each table
  stage,        \* where the run is
  insertOrder,  \* the plan: the tables in the order they are filled
  deferredFk,   \* the plan: the columns of each table the last pass fills
  at,           \* which table of the order
  produced,     \* how many chunks of it
  pools,        \* fk_pools: the tables whose keys were read, and whether there were any
  cancelFlag,   \* the flag generate_cancel flips
  cancelled,    \* the run has seen it
  failedIn,     \* the tables with an error in the summary, 0 for the last pass
  nullFk,       \* history: the columns a row of this run has NULL in
  rewritten,    \* history: the columns that were changed in rows of the user's
  unread,       \* history: the tables of which a pool read failed
  generates     \* runs begun
planVars == <<insertOrder, deferredFk>>
schemaVars == <<fks, keyed, original>>
generateVars == <<schemaVars, planVars, stored, stage, at, produced, pools, cancelFlag, cancelled,
                  failedIn, nullFk, rewritten, unread, generates>>

GenTable == 1..TableCount

\* Tables in the order of their names.
Ascending(S) == OnlyIn([t \in GenTable |-> t], S)

-----------------------------------------------------------------------------
(* The planner.                                                            *)

\* The tables a table refers to, but itself: each is to be filled before it.
Targets(t) == ToSet(fks[t]) \ {t}

\* The depth-first walk over the parents, with the path to where it is as a stack and how
\* many parents of each table it has looked at.
WalkStart ==
  [white |-> GenTable, path |-> <<>>, seen |-> [t \in GenTable |-> 0], back |-> {}]

Enter(w, t) == [w EXCEPT !.white = @ \ {t}, !.path = Append(@, t)]

\* The next parent of the table the path ends in: one that is on the path closes a cycle.
LookAt(w, t) ==
  LET p == Ascending(Targets(t))[w.seen[t] + 1]
      v == [w EXCEPT !.seen[t] = @ + 1]
  IN  IF p \in w.white THEN Enter(v, p)
      ELSE IF p \in ToSet(w.path) THEN [v EXCEPT !.back = @ \cup {<<t, p>>}]
      ELSE v

\* A pass of the loop. A table is left when all its parents were looked at, and the walk
\* goes on from the first that it has not come to.
WalkStep(w, pass) ==
  IF w.path = <<>>
  THEN IF w.white = {} THEN w ELSE Enter(w, Min(w.white))
  ELSE LET t == Last(w.path)
       IN  IF w.seen[t] < Len(Ascending(Targets(t))) THEN LookAt(w, t)
           ELSE [w EXCEPT !.path = Front(@)]

\* A table is entered and left once and each of its parents looked at once.
WalkPasses == TableCount * (TableCount + 2)
Walked == FoldLeft(WalkStep, WalkStart, [pass \in 1..WalkPasses |-> pass])
BackEdges == Walked.back

Parents(t) == {p \in Targets(t) : <<t, p>> \notin BackEdges}

\* Of the columns that refer to one parent the map of columns knows the last.
Defer(t) ==
  {i \in DOMAIN fks[t] : \/ fks[t][i] = t
                         \/ <<t, fks[t][i]>> \in BackEdges /\ \A j \in DOMAIN fks[t] : fks[t][j] = fks[t][i] => j <= i}

\* Kahn's order: a table is ready when the last of its parents is out, and the tables
\* that get ready together queue by name.
OrderStart == [ready |-> Ascending({t \in GenTable : Parents(t) = {}}), out |-> <<>>]

OrderStep(w, pass) ==
  IF w.ready = <<>> THEN w
  ELSE LET out == Append(w.out, Head(w.ready))
           newly == {c \in GenTable : Head(w.ready) \in Parents(c) /\ Parents(c) \subseteq ToSet(out)}
       IN  [ready |-> Tail(w.ready) \o Ascending(newly), out |-> out]

Ordered == FoldLeft(OrderStep, OrderStart, [pass \in GenTable |-> pass])
Order == Ordered.out

-----------------------------------------------------------------------------
(* The run.                                                                *)

GenerateTypeOK ==
  /\ fks \in Schemas /\ keyed \subseteq GenTable /\ original \subseteq GenTable
  /\ stored \in [GenTable -> Nat]
  /\ stage \in {"idle", "table", "chunk", "wire", "done"}
  /\ \A t \in GenTable : deferredFk[t] \subseteq DOMAIN fks[t]
  /\ DOMAIN pools \subseteq GenTable
  /\ failedIn \subseteq GenTable \cup {0}

GenerateInit ==
  /\ fks \in Schemas
  /\ keyed \in SUBSET GenTable
  /\ original \in SUBSET GenTable
  /\ stored = [t \in GenTable |-> IF t \in original THEN 1 ELSE 0]
  /\ stage = "idle" /\ insertOrder = <<>> /\ deferredFk = [t \in GenTable |-> {}]
  /\ at = 1 /\ produced = 0 /\ pools = <<>>
  /\ cancelFlag = FALSE /\ cancelled = FALSE
  /\ failedIn = {} /\ nullFk = {} /\ rewritten = {} /\ unread = {} /\ generates = 0

\* generate_run: the plan is made from the schema as it is now.
GenerateRun ==
  /\ stage \in {"idle", "done"} /\ generates < MaxGenerates
  /\ generates' = generates + 1
  /\ insertOrder' = Order /\ deferredFk' = [t \in GenTable |-> Defer(t)]
  /\ stage' = "table" /\ at' = 1 /\ produced' = 0 /\ pools' = <<>>
  /\ cancelFlag' = FALSE /\ cancelled' = FALSE
  /\ failedIn' = {} /\ nullFk' = {}
  /\ UNCHANGED <<schemaVars, stored, rewritten, unread>>

\* A flag is known from the registration to the end of the run.
CancelRun ==
  /\ stage \in {"table", "chunk", "wire"} /\ ~cancelFlag
  /\ cancelFlag' = TRUE
  /\ UNCHANGED <<schemaVars, planVars, stored, stage, at, produced, pools, cancelled, failedIn, nullFk,
                 rewritten, unread, generates>>

Filling == insertOrder[at]
Keys(t) == Min({stored[t], PoolCap})
Pointing(t) == DOMAIN fks[t] \ deferredFk[t]

\* What reading a pool gives: an error counts as no keys.
HasKeys(t, failed) == Keys(t) > 0 /\ t \notin failed

\* Before a table: the flag, then the pools of the tables its columns point at, each
\* read when it is first asked for.
BeginTable ==
  /\ stage = "table" /\ at <= Len(insertOrder)
  /\ IF cancelFlag
     THEN cancelled' = TRUE /\ stage' = "done" /\ UNCHANGED <<pools, unread>>
     ELSE LET wanted == {fks[Filling][i] : i \in Pointing(Filling)} \ DOMAIN pools
          IN  \E failed \in SUBSET wanted :
                /\ Cardinality(unread \cup failed) <= MaxUnread
                /\ pools' = [t \in DOMAIN pools \cup wanted |->
                               IF t \in wanted THEN HasKeys(t, failed) ELSE pools[t]]
                /\ unread' = unread \cup failed
                /\ stage' = "chunk" /\ UNCHANGED cancelled
  /\ produced' = 0
  /\ UNCHANGED <<schemaVars, planVars, stored, at, cancelFlag, failedIn, nullFk, rewritten, generates>>

\* After the last table the deferred columns are wired, unless the run was cancelled.
LeaveTable(stopped) ==
  IF stopped THEN stage' = "done" /\ at' = at
  ELSE IF at = Len(insertOrder) THEN stage' = "wire" /\ at' = 1
  ELSE stage' = "table" /\ at' = at + 1

\* One chunk, inserted whole or not at all; a failure ends the table, not the run.
InsertChunk ==
  /\ stage = "chunk"
  /\ cancelled' = (cancelled \/ cancelFlag)
  /\ \/ /\ stored' = [stored EXCEPT ![Filling] = @ + 1]
        /\ nullFk' = nullFk \cup {<<Filling, i>> : i \in deferredFk[Filling]}
                            \cup {<<Filling, i>> : i \in {j \in Pointing(Filling) : ~pools[fks[Filling][j]]}}
        /\ produced' = produced + 1
        /\ IF cancelled' \/ produced' = ChunkCount THEN LeaveTable(cancelled') ELSE UNCHANGED <<stage, at>>
        /\ UNCHANGED failedIn
     \/ /\ failedIn' = failedIn \cup {Filling}
        /\ LeaveTable(cancelled' /\ at = Len(insertOrder))
        /\ UNCHANGED <<stored, nullFk, produced>>
  /\ UNCHANGED <<schemaVars, planVars, pools, cancelFlag, rewritten, unread, generates>>

\* Bug variant: the pass takes the keys from the pools the tables were filled from.
WiredFromPools(t, i, failed) == t \in keyed /\ Keys(t) > 0 /\ fks[t][i] \in DOMAIN pools /\ pools[fks[t][i]]

\* wire_deferred, a column of a table: every row whose key was read, of this run or not,
\* is pointed at some key of the target.
Wired(t, i, failed) == t \in keyed /\ Keys(t) > 0 /\ HasKeys(fks[t][i], failed)

WireTable ==
  /\ stage = "wire"
  /\ \/ \E failed \in SUBSET {fks[Filling][i] : i \in deferredFk[Filling]} :
          LET wired == {<<Filling, i>> : i \in {j \in deferredFk[Filling] : Wired(Filling, j, failed)}}
          IN  /\ Cardinality(unread \cup failed) <= MaxUnread
              /\ unread' = unread \cup failed
              /\ nullFk' = IF stored[Filling] <= PoolCap THEN nullFk \ wired ELSE nullFk
              /\ rewritten' = IF Filling \in original THEN rewritten \cup wired ELSE rewritten
              /\ IF at = Len(insertOrder) THEN stage' = "done" /\ at' = at ELSE stage' = stage /\ at' = at + 1
              /\ UNCHANGED failedIn
     \/ \* The keys of the table cannot be read, or an update fails: the pass is over.
        /\ deferredFk[Filling] # {} /\ Filling \in keyed
        /\ failedIn' = failedIn \cup {0} /\ stage' = "done"
        /\ \E some \in SUBSET {<<Filling, i>> : i \in deferredFk[Filling]} :
             rewritten' = IF Filling \in original THEN rewritten \cup some ELSE rewritten
        /\ UNCHANGED <<unread, nullFk, at>>
  /\ UNCHANGED <<schemaVars, planVars, stored, produced, pools, cancelFlag, cancelled, generates>>

GenerateNext == GenerateRun \/ CancelRun \/ BeginTable \/ InsertChunk \/ WireTable
GenerateSpec == GenerateInit /\ [][GenerateNext]_generateVars

-----------------------------------------------------------------------------
(* Properties.                                                             *)

\* A table with two columns that refer to one table, of which a cycle defers one.
Twice(t, p) ==
  \E i, j \in DOMAIN fks[t] : fks[t][i] = p /\ fks[t][j] = p /\ i \in deferredFk[t] /\ j \notin deferredFk[t]

\* "all tables ordered" (planner.rs): each once, and none before one it takes keys from.
OrderIsWhole ==
  stage # "idle" =>
    /\ IsInjective(insertOrder) /\ ToSet(insertOrder) = GenTable
    /\ \A a, b \in DOMAIN insertOrder :
         LET t == insertOrder[a] p == insertOrder[b]
         IN  (a < b /\ p \in {fks[t][i] : i \in Pointing(t)}) => Twice(t, p)

\* A run that reports no error leaves no foreign key of its rows empty, however the tables
\* refer to each other: "FK columns draw from the parent's key pool; self-ref / cycle FK
\* columns are wired in a final UPDATE pass" (application.rs).  It is so where the pools
\* could be read and hold all keys, where tables with deferred columns have a primary
\* key, and where no cycle goes through one of two columns to one table.
ForeignKeysAreFilled ==
  (stage = "done" /\ ~cancelled /\ failedIn = {}) =>
    \A c \in nullFk :
      LET p == fks[c[1]][c[2]]
      IN  \/ p \in unread
          \/ c[2] \in deferredFk[c[1]] /\ (c[1] \notin keyed \/ stored[c[1]] > PoolCap)
          \/ \E t \in GenTable : Twice(t, p)

\* Does not hold: "append leaves existing rows intact" (docs/M16-generate-data.md).
ExistingRowsAreIntact == rewritten = {}
===============================================================================
