------------------------------- MODULE SqlRuns --------------------------------
(***************************************************************************)
(* Running query tabs (SqlEditorTab.tsx, the query actions of              *)
(* workspaces/state.ts): what asks for its parameters, where results and   *)
(* history go when a run ends after its tab or its workspace was left, and *)
(* which result has the focus.                                             *)
(***************************************************************************)
EXTENDS Selections, SequencesExt

CONSTANTS
  SqlTab,      \* query tabs
  HomeOf,      \* the workspace of each
  Sql,         \* what a buffer can hold
  Statements,  \* how many statements each splits into
  Parametric,  \* those with a parameter to fill in
  RunSlot,     \* bound: runs in flight
  HistoryMax,  \* sqlHistoryCap
  MaxRuns      \* bound: runs in a behaviour

ASSUME RunsAssumption ==
  /\ Statements \in [Sql -> Nat \ {0}] /\ Parametric \subseteq Sql
  /\ HistoryMax \in Nat \ {0} /\ MaxRuns \in Nat

VARIABLES
  editor,      \* the query tab on screen
  texts,       \* by tab
  filled,      \* tabs whose parameter has a value
  outdated,    \* history: those whose value was given for a text that was replaced
  prompt,      \* the run that waits for its parameters, <<>> when none
  results,     \* by tab: the result tabs and the focused one
  runHistory,  \* by workspace, newest first
  runs,        \* runs in flight; here: the editor that started it is still mounted
  started      \* runs so far

runsVars == <<editor, texts, filled, outdated, prompt, results, runHistory, runs, started>>

NoFocus == <<>>
NoResults == [tabs |-> <<>>, active |-> NoFocus]
NotRunning == [tab |-> 0]

RunsTypeOK ==
  /\ editor \in SqlTab /\ texts \in [SqlTab -> Sql] /\ filled \subseteq SqlTab
  /\ outdated \subseteq filled
  /\ prompt = <<>> \/ prompt[1] \in Parametric
  /\ \A t \in SqlTab :
       /\ results[t].active \in ToSet(results[t].tabs) \cup {NoFocus}
       /\ \A tab \in ToSet(results[t].tabs) : tab[1] \in Sql /\ tab[2] \in 1..Statements[tab[1]]
  /\ \A w \in DOMAIN runHistory : ToSet(runHistory[w]) \subseteq Sql
  /\ started \in 0..MaxRuns

RunsInit ==
  /\ editor \in SqlTab /\ texts \in [SqlTab -> Sql] /\ filled = {} /\ outdated = {} /\ prompt = <<>>
  /\ results = [t \in SqlTab |-> NoResults]
  /\ runHistory = [w \in {HomeOf[t] : t \in SqlTab} |-> <<>>]
  /\ runs = [r \in RunSlot |-> NotRunning] /\ started = 0

-----------------------------------------------------------------------------
Running == \E r \in RunSlot : runs[r] # NotRunning /\ runs[r].here

\* setSqlText
Edit(sql) ==
  /\ prompt = <<>> /\ texts' = [texts EXCEPT ![editor] = sql]
  /\ UNCHANGED <<editor, filled, outdated, prompt, results, runHistory, runs, started>>

\* Bug variant: the values stay for a text that asks for the same name.
LoadTextKeepingValues(sql) ==
  /\ prompt = <<>> /\ texts' = [texts EXCEPT ![editor] = sql]
  /\ outdated' = outdated \cup ({editor} \cap filled)
  /\ UNCHANGED <<editor, filled, prompt, results, runHistory, runs, started>>

\* A history entry, a snippet or a file: what was filled in was for the old text.
LoadText(sql) ==
  /\ prompt = <<>> /\ texts' = [texts EXCEPT ![editor] = sql]
  /\ filled' = filled \ {editor} /\ outdated' = outdated \ {editor}
  /\ UNCHANGED <<editor, prompt, results, runHistory, runs, started>>

\* Another tab comes on screen, of this workspace or of another: what the editor kept to
\* itself is gone, the run goes on.
ShowTab(t) ==
  /\ t # editor /\ editor' = t /\ prompt' = <<>>
  /\ runs' = [r \in RunSlot |->
       IF runs[r] = NotRunning THEN NotRunning ELSE [runs[r] EXCEPT !.here = FALSE]]
  /\ UNCHANGED <<texts, filled, outdated, results, runHistory, started>>

StartRun(sql) ==
  /\ started < MaxRuns /\ started' = started + 1
  /\ \E r \in RunSlot :
       runs[r] = NotRunning
          /\ runs' = [runs EXCEPT ![r] = [tab |-> editor, sql |-> sql, here |-> TRUE]]
  /\ UNCHANGED <<editor, texts, results, runHistory>>

\* run: a parameter without a value asks for it first.
Run ==
  /\ ~Running /\ prompt = <<>>
  /\ IF texts[editor] \in Parametric /\ editor \notin filled
     THEN prompt' = <<texts[editor]>>
          /\ UNCHANGED <<editor, texts, filled, outdated, results, runHistory, runs, started>>
     ELSE StartRun(texts[editor]) /\ UNCHANGED <<filled, outdated, prompt>>

\* promptForRun: asks although the values are there.
PromptForRun ==
  /\ prompt = <<>> /\ texts[editor] \in Parametric /\ prompt' = <<texts[editor]>>
  /\ UNCHANGED <<editor, texts, filled, outdated, results, runHistory, runs, started>>

\* The prompt goes on with the run it was opened for.
FillPrompt ==
  /\ prompt # <<>> /\ prompt' = <<>>
  /\ IF Running THEN UNCHANGED <<editor, texts, filled, outdated, results, runHistory, runs,
                                 started>>
     ELSE /\ filled' = filled \cup {editor} /\ outdated' = outdated \ {editor}
          /\ StartRun(prompt[1])

CancelPrompt ==
  /\ prompt # <<>> /\ prompt' = <<>>
  /\ UNCHANGED <<editor, texts, filled, outdated, results, runHistory, runs, started>>

\* withHistoryEntry
WithHistoryEntry(history, sql) ==
  LET entries == <<sql>> \o OnlyIn(history, ToSet(history) \ {sql})  IN
  SubSeq(entries, 1, IF Len(entries) < HistoryMax THEN Len(entries) ELSE HistoryMax)

ResultTabs(sql) == [i \in 1..Statements[sql] |-> <<sql, i>>]

\* Bug variant: the results go to the editor that is on screen.
WithResultsOnScreen(run) ==
  [results EXCEPT ![editor] = [tabs |-> ResultTabs(run.sql), active |-> <<run.sql, 1>>]]

\* setSqlRuns, which looks for the tab in the active workspace only.
WithResults(run) ==
  IF HomeOf[run.tab] = HomeOf[editor]
  THEN [results EXCEPT ![run.tab] = [tabs |-> ResultTabs(run.sql), active |-> <<run.sql, 1>>]]
  ELSE results

\* Each statement's outcome is a history entry of the workspace and a result tab.
RunEnds(r) ==
  LET run == runs[r]
      home == HomeOf[run.tab]
  IN
  /\ run # NotRunning /\ runs' = [runs EXCEPT ![r] = NotRunning]
  /\ runHistory' = [runHistory EXCEPT ![home] = WithHistoryEntry(@, run.sql)]
  /\ results' = WithResults(run)
  /\ UNCHANGED <<editor, texts, filled, outdated, prompt, started>>

\* closeRun and closeRuns: the focus stays, or goes to the nearest to the right, else left.
FocusAfterClose(tabs, active, closed) ==
  IF active \notin closed THEN active
  ELSE LET i == CHOOSE i \in DOMAIN tabs : tabs[i] = active
           left == {j \in DOMAIN tabs : tabs[j] \notin closed}
           right == {j \in left : j > i}
       IN  IF right # {} THEN tabs[CHOOSE j \in right : \A k \in right : j <= k]
           ELSE IF left # {} THEN tabs[CHOOSE j \in left : \A k \in left : k <= j] ELSE NoFocus

CloseRuns(closed) ==
  LET shown == results[editor]  IN
  /\ closed # {} /\ closed \subseteq ToSet(shown.tabs)
  /\ results' = [results EXCEPT ![editor] =
       [tabs |-> OnlyIn(shown.tabs, ToSet(shown.tabs) \ closed),
        active |-> FocusAfterClose(shown.tabs, shown.active, closed)]]
  /\ UNCHANGED <<editor, texts, filled, outdated, prompt, runHistory, runs, started>>

SetActiveRun(tab) ==
  /\ tab \in ToSet(results[editor].tabs)
  /\ results' = [results EXCEPT ![editor].active = tab]
  /\ UNCHANGED <<editor, texts, filled, outdated, prompt, runHistory, runs, started>>

-----------------------------------------------------------------------------
RunsNext ==
  \/ \E sql \in Sql : Edit(sql) \/ LoadText(sql)
  \/ \E t \in SqlTab : ShowTab(t)
  \/ Run \/ PromptForRun \/ FillPrompt \/ CancelPrompt
  \/ \E r \in RunSlot : RunEnds(r)
  \/ \E closed \in SUBSET ToSet(results[editor].tabs) : CloseRuns(closed)
  \/ \E tab \in ToSet(results[editor].tabs) : SetActiveRun(tab)

RunsSpec == RunsInit /\ [][RunsNext]_runsVars

-----------------------------------------------------------------------------
(* Properties.                                                             *)

\* The history of a workspace has a statement once, whichever of its tabs ran it and in
\* whatever order the runs end, and is no longer than the setting allows.
HistoryHasEachOnce ==
  \A w \in DOMAIN runHistory :
    /\ Len(runHistory[w]) <= HistoryMax
    /\ Cardinality(ToSet(runHistory[w])) = Len(runHistory[w])

\* Results are put where their run was started, however the tabs changed meanwhile.
ResultsOfOwnRun ==
  [][\A t \in SqlTab :
       ~(ToSet(results'[t].tabs) \subseteq ToSet(results[t].tabs)) =>
         \E r \in RunSlot : runs[r] # NotRunning /\ runs[r].tab = t
                            /\ runs'[r] = NotRunning]_runsVars

\* While there are result tabs one of them has the focus.
AResultHasTheFocus == \A t \in SqlTab : (results[t].active = NoFocus) <=> (results[t].tabs = <<>>)

\* SQL with a parameter runs only with a value for it, given since the buffer was last
\* replaced: neither the prompt nor a value of other SQL is passed over.
ParametersAreFilled ==
  [][\A r \in RunSlot :
       runs[r] = NotRunning /\ runs'[r] # NotRunning /\ runs'[r].sql \in Parametric
         => editor \in filled' \ outdated']_runsVars

\* Does not hold: runs and history "go to the store (survive switches)" (SqlEditorTab.tsx);
\* a run that outlives its editor's mount leaves no result.
ResultsSurviveSwitches ==
  [][\A r \in RunSlot :
       runs[r] # NotRunning /\ runs'[r] = NotRunning
          => <<runs[r].sql, 1>> \in ToSet(results'[runs[r].tab].tabs)]_runsVars
=============================================================================
