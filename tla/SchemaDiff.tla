----------------------------- MODULE SchemaDiff -----------------------------
(* The comparison of two schemas, src/features/schema_diff: the two sides    *)
(* with their pickers, the handles the comparison borrows from workspaces or *)
(* opens itself, the snapshots it reads through them and the diff it shows.  *)
(* An effect of the component runs in the step of the change it depends on,  *)
(* and so does what resolves without a call. The structure that is read and  *)
(* what a comparison of it says are MigrationPlan's; here a snapshot is its  *)
(* key and a comparison its pair. Every use of the component compares only   *)
(* (WorkspaceContent.tsx, CompareSchemasModal.tsx): the plan is read and     *)
(* copied, and applied nowhere.                                              *)
EXTENDS Integers, FiniteSets

CONSTANTS Conn,        \* saved connections that can be compared
          SchemaName,  \* the schemas each of them lists
          HomeSchema,  \* where a connection opened here starts
          Nothing,     \* null
          MaxHandles,  \* bound: connections opened, here or by workspaces
          MaxLent,     \* bound: connections with a workspace
          MaxLate      \* bound: reads in flight for a pair no longer on the cards

VARIABLES
  side,      \* the two cards: a connection and a schema each, or null
  waiting,   \* cards whose effect awaits the handle of its connection
  handles,   \* the cache: connection -> handle
  opening,   \* connections being opened
  lent,      \* connection -> the handle of a workspace on it
  connected, \* handles open in the backend
  minted,    \* how many were ever opened
  snapshots, \* the keys that have been read
  reads,     \* reads in flight, and whether the current comparison asked
  run,       \* the comparison under way
  shown,     \* the pair of the comparison in state
  busy, error, mounted

diffVars == <<side, waiting, handles, opening, lent, connected, minted, snapshots, reads, run, shown, busy, error, mounted>>

Card == {"src", "tgt"}
Key == [conn : Conn, schema : SchemaName]
Handle == [id : 1..MaxHandles, owned : BOOLEAN, schema : SchemaName]
Loan == [id : 1..MaxHandles, schema : SchemaName]
NoRun == [pair |-> Nothing, needs |-> {}]
Empty == [conn |-> Nothing, schema |-> Nothing]

ASSUME DiffAssumption ==
  /\ HomeSchema \in SchemaName /\ MaxHandles \in Nat
  /\ Nothing \notin Conn \cup SchemaName \cup Handle \cup Loan \cup {"open", "read"}

Other(x) == IF x = "src" THEN "tgt" ELSE "src"

\* A pair that can be compared: both sides known, and not the same place.
Ready(s) == (\A x \in Card : s[x] \in Key) /\ s["src"] # s["tgt"]

\* Whether a card's connection has still to be opened for its schema to be known.
Unresolved(s, x) == s[x].conn # Nothing /\ s[x].schema = Nothing

Lends(c) == [id |-> lent[c].id, owned |-> FALSE, schema |-> lent[c].schema]

(* acquireHandle *)

\* The handles after the effects of the cards `rerun` asked for theirs: a cached one stays, one that
\* is being opened is awaited, a workspace lends its own, anything else is opened.
Acquired(s, rerun) ==
  [c \in Conn |-> IF handles[c] = Nothing /\ c \notin opening /\ lent[c] # Nothing
                       /\ \E x \in rerun : Unresolved(s, x) /\ s[x].conn = c
                  THEN Lends(c) ELSE handles[c]]

\* The cards once the handles that are known have told where their sides start.
Resolved(s, rerun, hs) ==
  [x \in Card |-> IF x \in rerun /\ Unresolved(s, x) /\ hs[s[x].conn] # Nothing
                  THEN [s[x] EXCEPT !.schema = hs[s[x].conn].schema] ELSE s[x]]

(* The effects *)

\* Bug variant of Compare: a pair that cannot be compared leaves the pane busy.
CompareLeavesBusy(s) ==
  LET missing == {s[x] : x \in Card} \ snapshots
      abandoned == {[r EXCEPT !.mine = FALSE] : r \in reads}
  IN IF Ready(s)
     THEN /\ run' = [pair |-> s, needs |-> missing]
          /\ reads' = abandoned \cup {[key |-> k, mine |-> TRUE] : k \in missing}
          /\ busy' = TRUE
     ELSE run' = NoRun /\ reads' = abandoned /\ UNCHANGED busy

\* The effect of the pair: what is under way is abandoned; a pair that cannot be compared clears
\* the pane, another one is read as far as it is not cached, and compared.
Compare(s) ==
  LET missing == {s[x] : x \in Card} \ snapshots
      abandoned == {[r EXCEPT !.mine = FALSE] : r \in reads}
  IN IF Ready(s)
     THEN /\ run' = [pair |-> s, needs |-> missing]
          /\ reads' = abandoned \cup {[key |-> k, mine |-> TRUE] : k \in missing}
          /\ busy' = TRUE
     ELSE run' = NoRun /\ reads' = abandoned /\ busy' = FALSE

\* What a change of the cards to s sets off. The effects rerun on the cards in rerun; the diff is
\* cleared by a render in which the pair could not be compared.
Effects(s, rerun) ==
  LET hs == Acquired(s, rerun)
      t == Resolved(s, rerun, hs)
      asks == {x \in rerun : Unresolved(t, x)}
  IN /\ handles' = hs
     /\ side' = t
     /\ waiting' = (waiting \ rerun) \cup asks
     /\ opening' = opening \cup {t[x].conn : x \in asks}
     /\ IF rerun = {} THEN UNCHANGED <<run, reads, busy, shown>>
        ELSE Compare(t) /\ shown' = IF Ready(s) /\ Ready(t) THEN shown ELSE Nothing
     /\ Cardinality({r \in reads' : ~r.mine}) <= MaxLate

(* What the user does *)

PickConnection ==
  \E x \in Card : \E c \in Conn \ {side[x].conn} :
    LET s == [side EXCEPT ![x] = [conn |-> c, schema |-> Nothing]]
    IN mounted /\ error' = Nothing /\ Effects(s, {x})
       /\ UNCHANGED <<lent, connected, minted, snapshots, mounted>>

\* The list of schemas is there once the connection has been opened.
PickSchema ==
  \E x \in Card : \E n \in SchemaName \ {side[x].schema} :
    /\ mounted /\ side[x].conn # Nothing /\ handles[side[x].conn] # Nothing
    /\ error' = Nothing /\ Effects([side EXCEPT ![x].schema = n], {x})
    /\ UNCHANGED <<lent, connected, minted, snapshots, mounted>>

Swap ==
  LET s == [x \in Card |-> side[Other(x)]]
  IN mounted /\ side["src"].conn # Nothing /\ error' = Nothing /\ Effects(s, {x \in Card : s[x] # side[x]})
     /\ UNCHANGED <<lent, connected, minted, snapshots, mounted>>

Retry ==
  /\ mounted /\ error # Nothing /\ error' = Nothing /\ Effects(side, Card)
  /\ UNCHANGED <<lent, connected, minted, snapshots, mounted>>

\* The comparison is closed: what it opened is released, what is still opening as it arrives.
Unmount ==
  /\ mounted /\ mounted' = FALSE
  /\ connected' = connected \ {h.id : h \in {h \in {handles[c] : c \in Conn} \ {Nothing} : h.owned}}
  /\ handles' = [c \in Conn |-> Nothing]
  /\ side' = [x \in Card |-> Empty] /\ waiting' = {} /\ run' = NoRun /\ reads' = {} /\ snapshots' = {}
  /\ shown' = Nothing /\ busy' = FALSE /\ error' = Nothing
  /\ UNCHANGED <<opening, lent, minted>>

(* What is answered *)

\* Bug variant of OpenSucceeds: a handle that arrives after the comparison was closed is kept.
OpenSucceedsLeaks ==
  \E c \in opening :
    LET h == [id |-> minted + 1, owned |-> TRUE, schema |-> HomeSchema]
        here == {x \in waiting : side[x].conn = c}
        s == [x \in Card |-> IF x \in here THEN [side[x] EXCEPT !.schema = HomeSchema] ELSE side[x]]
    IN /\ minted < MaxHandles /\ minted' = minted + 1
       /\ opening' = opening \ {c}
       /\ IF mounted
          THEN /\ handles' = [handles EXCEPT ![c] = h] /\ connected' = connected \cup {h.id}
               /\ side' = s /\ waiting' = waiting \ here
               /\ IF here = {} THEN UNCHANGED <<run, reads, busy, shown, error>>
                  ELSE /\ Compare(s) /\ shown' = Nothing
                       /\ error' = IF Ready(s) THEN Nothing ELSE error
          ELSE /\ connected' = connected \cup {h.id}
               /\ UNCHANGED <<handles, side, waiting, run, reads, busy, shown, error>>
       /\ UNCHANGED <<lent, snapshots, mounted>>

\* A handle that arrives after the comparison was closed is closed at once.
OpenSucceeds ==
  \E c \in opening :
    LET h == [id |-> minted + 1, owned |-> TRUE, schema |-> HomeSchema]
        here == {x \in waiting : side[x].conn = c}
        s == [x \in Card |-> IF x \in here THEN [side[x] EXCEPT !.schema = HomeSchema] ELSE side[x]]
    IN /\ minted < MaxHandles /\ minted' = minted + 1
       /\ opening' = opening \ {c}
       /\ IF mounted
          THEN /\ handles' = [handles EXCEPT ![c] = h] /\ connected' = connected \cup {h.id}
               /\ side' = s /\ waiting' = waiting \ here
               /\ IF here = {} THEN UNCHANGED <<run, reads, busy, shown, error>>
                  ELSE /\ Compare(s) /\ shown' = Nothing
                       /\ error' = IF Ready(s) THEN Nothing ELSE error
          ELSE UNCHANGED <<handles, connected, side, waiting, run, reads, busy, shown, error>>
       /\ UNCHANGED <<lent, snapshots, mounted>>

OpenFails ==
  \E c \in opening :
    LET here == {x \in waiting : side[x].conn = c}
    IN /\ opening' = opening \ {c} /\ waiting' = waiting \ here
       /\ error' = IF here = {} THEN error ELSE "open"
       /\ UNCHANGED <<side, handles, lent, connected, minted, snapshots, reads, run, shown, busy, mounted>>

\* A snapshot arrives: cached even if the comparison that asked for it is gone.
SnapshotRead ==
  \E r \in reads :
    /\ handles[r.key.conn].id \in connected
    /\ reads' = reads \ {r} /\ snapshots' = snapshots \cup {r.key}
    /\ run' = IF r.mine THEN [run EXCEPT !.needs = @ \ {r.key}] ELSE run
    /\ UNCHANGED <<side, waiting, handles, opening, lent, connected, minted, shown, busy, error, mounted>>

SnapshotFails ==
  \E r \in reads :
    /\ IF r.mine
       THEN /\ reads' = {[q EXCEPT !.mine = FALSE] : q \in reads \ {r}}
            /\ run' = NoRun /\ shown' = Nothing /\ busy' = FALSE /\ error' = "read"
       ELSE reads' = reads \ {r} /\ UNCHANGED <<run, shown, busy, error>>
    /\ UNCHANGED <<side, waiting, handles, opening, lent, connected, minted, snapshots, mounted>>

\* Both snapshots are there and the backend has compared them.
Compared ==
  /\ run # NoRun /\ run.needs = {}
  /\ shown' = run.pair /\ run' = NoRun /\ busy' = FALSE
  /\ UNCHANGED <<side, waiting, handles, opening, lent, connected, minted, snapshots, reads, error, mounted>>

(* The workspaces the comparison borrows from, workspaces/state.ts *)

WorkspaceOpens ==
  \E c \in Conn, n \in SchemaName :
    /\ lent[c] = Nothing /\ minted < MaxHandles /\ Cardinality({d \in Conn : lent[d] # Nothing}) < MaxLent
    /\ minted' = minted + 1 /\ lent' = [lent EXCEPT ![c] = [id |-> minted + 1, schema |-> n]]
    /\ connected' = connected \cup {minted + 1}
    /\ UNCHANGED <<side, waiting, handles, opening, snapshots, reads, run, shown, busy, error, mounted>>

WorkspaceCloses ==
  \E c \in Conn :
    /\ lent[c] # Nothing /\ connected' = connected \ {lent[c].id} /\ lent' = [lent EXCEPT ![c] = Nothing]
    /\ UNCHANGED <<side, waiting, handles, opening, minted, snapshots, reads, run, shown, busy, error, mounted>>

DiffInit ==
  /\ side = [x \in Card |-> Empty] /\ waiting = {} /\ opening = {} /\ connected = {} /\ minted = 0
  /\ handles = [c \in Conn |-> Nothing] /\ lent = [c \in Conn |-> Nothing]
  /\ snapshots = {} /\ reads = {} /\ run = NoRun /\ shown = Nothing /\ busy = FALSE /\ error = Nothing
  /\ mounted = TRUE

DiffNext ==
  \/ PickConnection \/ PickSchema \/ Swap \/ Retry \/ Unmount
  \/ OpenSucceeds \/ OpenFails \/ SnapshotRead \/ SnapshotFails \/ Compared
  \/ WorkspaceOpens \/ WorkspaceCloses

DiffSpec == DiffInit /\ [][DiffNext]_diffVars

(* Properties *)

Pairs == [Card -> Key]

DiffTypeOK ==
  /\ side \in [Card -> [conn : Conn \cup {Nothing}, schema : SchemaName \cup {Nothing}]]
  /\ waiting \subseteq Card /\ opening \subseteq Conn /\ mounted \in BOOLEAN /\ busy \in BOOLEAN
  /\ handles \in [Conn -> Handle \cup {Nothing}]
  /\ lent \in [Conn -> Loan \cup {Nothing}]
  /\ connected \subseteq 1..minted /\ minted \in 0..MaxHandles
  /\ snapshots \subseteq Key /\ reads \subseteq [key : Key, mine : BOOLEAN]
  /\ run = NoRun \/ run \in [pair : Pairs, needs : SUBSET Key]
  /\ shown \in Pairs \cup {Nothing} /\ error \in {Nothing, "open", "read"}

\* What the comparison opened is open as long as it is mounted and then released, however late
\* the open is answered; what it borrowed it leaves to the workspace (SchemaDiff.tsx 423-452,
\* handles.ts).
Lent == {l.id : l \in {lent[c] : c \in Conn} \ {Nothing}}
Owned == {h.id : h \in {h \in {handles[c] : c \in Conn} \ {Nothing} : h.owned}}
HandlesReleased == connected = Lent \cup Owned /\ Lent \cap Owned = {}

\* A pane that is neither busy nor failed shows the comparison of the two schemas its cards name,
\* and a busy one is at work on it: never the rows of a pair picked before, never an empty list
\* that reads as no differences, never a spinner that nothing will stop (SchemaDiff.tsx 580-624).
PaneIsOfThePair ==
  mounted =>
    /\ busy => /\ run.pair = side
               /\ \A k \in run.needs : [key |-> k, mine |-> TRUE] \in reads
    /\ Ready(side) /\ ~busy /\ error = Nothing => shown = side

\* NOT a property of the code, although the comment at 808 says so: the chips, and the statements
\* behind Change DDL, are those of the pair on the cards. After a swap they are the old pair's
\* until the new one is read.
ChipsAreOfThePair == shown # Nothing => shown = side

\* NOT a property of the code, although the comment at 528 asks for it: a card that is opening is
\* being opened. Picking on one card clears the failure of the other, which nobody retries.
SpinnerIsAtWork ==
  error = Nothing => \A x \in Card : Unresolved(side, x) => x \in waiting /\ side[x].conn \in opening
=============================================================================
