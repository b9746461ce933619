---------------------------- MODULE Introspection ----------------------------
(***************************************************************************)
(* The renderer's cache of one handle's schema, introspection/state.ts:    *)
(* table lists, column lists, table structures, object lists and object    *)
(* definitions, loaded cache-first with one fetch in flight per key unless *)
(* a reload is forced. A cached value is the version of the schema the     *)
(* database had when it was read; statements run anywhere move it on.      *)
(***************************************************************************)
EXTENDS Integers, FiniteSets

CONSTANTS
  Schema, Table,
  ObjKind,    \* views, routines, triggers ...; one object of each
  Fetch,      \* bound: fetches in flight at a time
  NoFetch,
  MaxDdl,     \* bound: schema changes
  Uses        \* bound: the sets of kinds of key one behaviour loads

ASSUME IntroAssumption ==
  /\ NoFetch \notin Fetch
  /\ Uses \subseteq SUBSET {"tables", "columns", "meta", "objects", "def"}
  /\ MaxDdl \in Nat

VARIABLES
  uses,       \* the kinds of key this behaviour loads
  ddl,        \* the version of each schema at the database
  entries,    \* the version cached for each key, or Absent
  loading,    \* keys shown as loading; the error texts are left out
  inflight,   \* the fetch a load that is not forced joins, by key
  fetches,    \* the fetches that have not been answered
  floor       \* history: the version at the database when a key was last dropped

introVars == <<uses, ddl, entries, loading, inflight, fetches, floor>>

-----------------------------------------------------------------------------
\* Keys. Every key of a schema starts with the schema's own, so dropping by prefix
\* drops by schema; "loading" is shared by all the kinds.
TablesKey(s) == <<"tables", s>>
ColumnsKey(s, t) == <<"columns", s, t>>
TableMetaKey(s, t) == <<"meta", s, t>>
ObjectsKey(s, o) == <<"objects", s, o>>
ObjectDefKey(s, o) == <<"def", s, o>>

Key == {TablesKey(s) : s \in Schema}
       \cup {<<what, s, t>> : what \in {"columns", "meta"}, s \in Schema, t \in Table}
       \cup {<<what, s, o>> : what \in {"objects", "def"}, s \in Schema, o \in ObjKind}

OfSchema(s, what) == {k \in Key : k[2] = s /\ k[1] \in what}
Every == {"tables", "columns", "meta", "objects", "def"}

Absent == -1
Cached(k) == entries[k] # Absent

NoCall == [key |-> <<>>, force |-> FALSE, keep |-> FALSE, ver |-> Absent,
           raced |-> FALSE]
Answered(f) == fetches[f].ver # Absent
Running(k) == {f \in Fetch : fetches[f].key = k}

-----------------------------------------------------------------------------
IntroTypeOK ==
  /\ uses \in Uses
  /\ ddl \in [Schema -> 0..MaxDdl]
  /\ entries \in [Key -> Absent..MaxDdl]
  /\ loading \subseteq Key
  /\ inflight \in [Key -> Fetch \cup {NoFetch}]
  /\ \A f \in Fetch :
       /\ fetches[f].key \in Key \cup {<<>>}
       /\ fetches[f].ver \in Absent..MaxDdl
       /\ fetches[f].key = <<>> => fetches[f] = NoCall
       /\ fetches[f].force => fetches[f].key[1] \in {"tables", "objects"}
       /\ fetches[f].keep => fetches[f].force
  /\ floor \in [Key -> 0..MaxDdl]

IntroInit ==
  /\ uses \in Uses
  /\ ddl = [s \in Schema |-> 0]
  /\ entries = [k \in Key |-> Absent]
  /\ loading = {}
  /\ inflight = [k \in Key |-> NoFetch]
  /\ fetches = [f \in Fetch |-> NoCall]
  /\ floor = [k \in Key |-> 0]

-----------------------------------------------------------------------------
\* What a fetch writes: one round trip for a structure also warms the columns.
Warms(k) == IF k[1] = "meta" THEN {k, ColumnsKey(k[2], k[3])} ELSE {k}

\* History: the fetches under way for a key that is dropped have been raced.
Race(calls, ks) ==
  [f \in Fetch |->
     IF calls[f].key # <<>> /\ Warms(calls[f].key) \cap ks # {}
     THEN [calls[f] EXCEPT !.raced = TRUE] ELSE calls[f]]

\* Bug variant: definitions survive.
ForgetLists(ks) ==
  /\ entries' = [k \in Key |-> IF k \in ks /\ k[1] # "def" THEN Absent ELSE entries[k]]
  /\ floor' = [k \in Key |-> IF k \in ks /\ k[1] \in uses THEN ddl[k[2]] ELSE floor[k]]
  /\ fetches' = Race(fetches, ks)

\* The store actions that drop by key prefix, omitPrefixed.
Forget(ks) ==
  /\ entries' = [k \in Key |-> IF k \in ks THEN Absent ELSE entries[k]]
  /\ floor' = [k \in Key |-> IF k \in ks /\ k[1] \in uses THEN ddl[k[2]] ELSE floor[k]]
  /\ fetches' = Race(fetches, ks)

\* Nothing to fetch: the value is cached, or a fetch under way is joined.
Served(k, force) == ~force /\ (Cached(k) \/ inflight[k] # NoFetch)

Forceable(k) == k[1] \in {"tables", "objects"}

\* loadTables, loadColumns, loadTableMeta, loadObjects, loadObjectDefinition, up to
\* the call: a forced load neither looks at the cache nor joins, and takes the place
\* later loads join.
Load(k, force, keep) ==
  /\ k[1] \in uses
  /\ force => Forceable(k)
  /\ keep => force /\ k[1] = "tables"
  /\ ~Served(k, force)
  /\ \E f \in Fetch :
       /\ fetches[f] = NoCall
       /\ fetches' = [fetches EXCEPT ![f] =
            [NoCall EXCEPT !.key = k, !.force = force, !.keep = keep]]
       /\ inflight' = [inflight EXCEPT ![k] = f]
  /\ loading' = loading \cup {k}
  /\ UNCHANGED <<uses, ddl, entries, floor>>

\* The database answers with the schema as it is then.
Execute(f) ==
  /\ fetches[f] # NoCall /\ ~Answered(f)
  /\ fetches' = [fetches EXCEPT ![f].ver = ddl[fetches[f].key[2]]]
  /\ UNCHANGED <<uses, ddl, entries, loading, inflight, floor>>

\* Only the fetch that loads would join gives up its place.
Vacated(f) ==
  [k \in Key |-> IF k = fetches[f].key /\ inflight[k] = f THEN NoFetch ELSE inflight[k]]

\* A refresh of the table list takes the schema's columns and structures with it.
Refreshed(c) ==
  IF c.force /\ ~c.keep /\ c.key[1] = "tables"
  THEN OfSchema(c.key[2], {"columns", "meta"}) ELSE {}

\* The answer arrives: the value is cached and the key no longer loading.
Land(f) ==
  LET c == fetches[f]  IN
  /\ Answered(f)
  /\ entries' = [k \in Key |->
       IF k \in Warms(c.key) THEN c.ver
       ELSE IF k \in Refreshed(c) THEN Absent ELSE entries[k]]
  /\ floor' = [k \in Key |->
       IF k \in Warms(c.key) /\ c.raced THEN 0
       ELSE IF k \in Refreshed(c) /\ c.ver > floor[k] THEN c.ver ELSE floor[k]]
  /\ fetches' = Race([fetches EXCEPT ![f] = NoCall], Refreshed(c))
  /\ inflight' = Vacated(f)
  /\ loading' = loading \ {c.key}
  /\ UNCHANGED <<uses, ddl>>

\* The fetch fails: the cache keeps what it has.
Fail(f) ==
  LET c == fetches[f]  IN
  /\ c # NoCall /\ ~Answered(f)
  /\ fetches' = [fetches EXCEPT ![f] = NoCall]
  /\ inflight' = Vacated(f)
  /\ loading' = loading \ {c.key}
  /\ UNCHANGED <<uses, ddl, entries, floor>>

\* invalidateObjects: the lists of a kind, or of all, and every definition.
InvalidateObjects(s, kinds) ==
  /\ Forget({ObjectsKey(s, o) : o \in kinds} \cup OfSchema(s, {"def"}))
  /\ UNCHANGED <<uses, ddl, loading, inflight>>

\* invalidateObjectLists: the lists alone.
InvalidateObjectLists(s) ==
  /\ Forget(OfSchema(s, {"objects"}))
  /\ UNCHANGED <<uses, ddl, loading, inflight>>

\* invalidate: all there is of a schema, or of the handle.
Invalidate(schemas) ==
  /\ Forget(UNION {OfSchema(s, Every) : s \in schemas})
  /\ UNCHANGED <<uses, ddl, loading, inflight>>

\* A statement run from anywhere changes the schema.
Ddl(s) ==
  /\ ddl[s] < MaxDdl
  /\ ddl' = [ddl EXCEPT ![s] = @ + 1]
  /\ UNCHANGED <<uses, entries, loading, inflight, fetches, floor>>

-----------------------------------------------------------------------------
IntroNext ==
  \/ \E k \in Key, force, keep \in BOOLEAN : Load(k, force, keep)
  \/ \E f \in Fetch : Execute(f) \/ Land(f) \/ Fail(f)
  \/ \E s \in Schema :
       \/ \E kinds \in {ObjKind} \cup {{o} : o \in ObjKind} : InvalidateObjects(s, kinds)
       \/ InvalidateObjectLists(s)
       \/ Ddl(s)
  \/ \E schemas \in {Schema} \cup {{s} : s \in Schema} : Invalidate(schemas)

IntroSpec == IntroInit /\ [][IntroNext]_introVars

-----------------------------------------------------------------------------
(* Properties.                                                             *)

\* Concurrent readers share one fetch (inflightTables and its siblings), and a place
\* is never left to a fetch that has ended, which every later load would join in vain.
FetchesShared ==
  \A k \in Key :
    /\ inflight[k] # NoFetch => inflight[k] \in Running(k)
    /\ ~Forceable(k) => Cardinality(Running(k)) <= 1

\* Dropping a key works: a value cached since is at least as new as the drop. A fetch
\* that was already under way at the drop may bring an older one: it lifts the floor.
NewerThanDrop ==
  \A k \in Key : Cached(k) => entries[k] >= floor[k]

\* A key shown as loading has a fetch under way that will stop it, whichever of its
\* fetches overlap or fail and whatever is dropped meanwhile.
LoadingHasFetch == \A k \in loading : Running(k) # {}

\* Does not hold: "so a refetch shows the new truth" (state.ts invalidateObjects). A fetch
\* under way when the objects are invalidated is joined by the refetch, or lands after it.
RefetchShowsTruth ==
  [][\A k \in Key :
       k[1] \in {"objects", "def"} /\ ~Cached(k) /\ Cached(k)' => entries'[k] >= floor[k]]_introVars
=============================================================================
