----------------------------- MODULE MCQueryTabs ------------------------------
(* What the tabs of the workspaces hold: each behaviour drives one of the    *)
(* three components, from its initial states; the others do not move.       *)
EXTENDS Tabs, SqlRuns, SavedQueries, TLC
CONSTANTS w1, w2, h1, h2, a1, a2, t1, t2, t3, a, b, r1, r2, x1, v1, q1, q2, c1, c2

\* Two workspaces, two subjects; three tabs opened, of the kinds that interact.
MCStrip == {w1, w2}
MCSubject == {a1, a2}
Opens(kinds, slots, opens) == [kinds |-> kinds, slots |-> slots, opens |-> opens]
MCScopes == {Opens({"table"}, Slot, 2), Opens({"table"}, {"gridEdits"}, 3),
             Opens({"sql", "processes", "board"}, {}, 3), Opens({"object", "map"}, {}, 3),
             Opens({"objexplorer", "tableoverview"}, {}, 3), Opens({"privileges", "diff"}, {}, 3)}

\* Three query tabs in two workspaces; one text of two statements, one with a parameter.
MCHomeOf == [t \in SqlTab |-> IF t = t3 THEN h2 ELSE h1]
MCStatements == [sql \in Sql |-> IF sql = a THEN 2 ELSE 1]

VARIABLE driven
vars == <<tabsVars, runsVars, queriesVars, driven>>

\* One representative of the initial states that differ by a name only.
OneOfEach == activeStrip = w1 /\ editor # t2 /\ shownTab = t1 /\ calls[c1] # NoCall
TabsPinned == scope = Opens({"table"}, Slot, 2)
RunsPinned == editor = t1 /\ texts = [t \in SqlTab |-> a]
QueriesPinned == storedQueries = NoQueries

Init ==
  /\ driven \in {"tabs", "runs", "queries"}
  /\ TabsInit /\ RunsInit /\ QueriesInit /\ OneOfEach
  /\ driven = "tabs" \/ TabsPinned
  /\ driven = "runs" \/ RunsPinned
  /\ driven = "queries" \/ QueriesPinned

\* A table is dropped in the behaviours of two tabs only.
TablesStay == scope.opens > 2 => tables' = MCSubject

Next ==
  \/ driven = "tabs" /\ TabsNext /\ TablesStay /\ UNCHANGED <<runsVars, queriesVars, driven>>
  \/ driven = "runs" /\ RunsNext /\ UNCHANGED <<tabsVars, queriesVars, driven>>
  \/ driven = "queries" /\ QueriesNext /\ UNCHANGED <<tabsVars, runsVars, driven>>

Spec == Init /\ [][Next]_vars

\* What each component keeps of its own state: types, the focus on something that is open,
\* one tab per subject, numbered titles that differ, nothing held for a tab that is gone, no text
\* twice in a history (state.ts, SqlEditorTab.tsx).
WellFormed ==
  /\ TabsTypeOK /\ ActiveTabIsOpen /\ OnePerSubject /\ QueryTitlesDistinct /\ HeldByOpenTabs
  /\ RunsTypeOK /\ HistoryHasEachOnce /\ AResultHasTheFocus
  /\ QueriesTypeOK

Sym == Permutations(MCStrip) \cup Permutations(MCSubject)
===============================================================================
