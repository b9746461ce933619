------------------------------ MODULE BrowseProofs ------------------------------
(***************************************************************************)
(* Proofs about what a workspace shows while its database is browsed. The  *)
(* tab strip and what query tabs hold: the saved queries, the runs with    *)
(* their results, parameters and history, and the tabs with what is staged *)
(* on them, for any tabs, texts, entries, workspaces and calls in flight.  *)
(* The data grid, for any rows, sorts, filters, page size, cells, values,  *)
(* fetches and saves: the page it shows and what it stages. One theorem    *)
(* each is of the runs that drive these in turn, as MCQueryTabs and MCGrid *)
(* compose them.                                                           *)
(*                                                                         *)
(* Each component has its own inductive invariant, preserved action by     *)
(* action. Closing several tabs is closing one after another: what holds   *)
(* of a strip before the next one is closed is shown by least              *)
(* counterexample (ClosedInTurn), not assumed of the whole.                *)
(***************************************************************************)
EXTENDS MCQueryTabs, MCGrid, SequenceFacts, SequenceTheorems, FiniteSetTheorems, TLAPS

-----------------------------------------------------------------------------
(* Saved queries.                                                          *)

Kind == {"list", "save", "remember", "remove"}

\* A call in flight: what it carries, and what the backend answered.
CallRecord ==
  [kind : Kind, id : Query \cup {None},
   entry : Entry \cup {None} \cup [Query -> Entry \cup {None}],
   from : QueryTab, kept : BOOLEAN, done : BOOLEAN]

\* A list is answered with the file; only a new entry has no id, until it is saved.
CallTyped(call) ==
  /\ call \in CallRecord
  /\ call.kind = "list" /\ call.done => call.entry \in [Query -> Entry \cup {None}]
  /\ call.kind # "list" => call.entry \in Entry \cup {None}
  /\ call.kind = "remove" => call.entry = None
  /\ call.kind \in {"remember", "remove"} \/ (call.kind = "save" /\ call.done) => call.id \in Query

BuffersTyped ==
  buffer \in [QueryTab -> [text : Text, saved : Query \cup {None}, value : Filled \cup {None}]]

CallsTyped ==
  /\ DOMAIN calls = Call
  /\ \A c \in Call : calls[c] # NoCall => CallTyped(calls[c])

InFlight(c) == calls[c] # NoCall

\* Calls that never overlapped and never failed leave the list as the file is, or one
\* answer away from it; and the list that was asked for first is still to come, or came.
OneAnswerAway ==
  alone =>
    /\ \A c, d \in Call : InFlight(c) /\ InFlight(d) => c = d
    /\ loaded \/ \E c \in Call : InFlight(c) /\ calls[c].kind = "list"
    /\ loaded /\ (\A c \in Call : InFlight(c) => ~calls[c].done) => savedQueries = storedQueries
    /\ \A c \in Call : InFlight(c) /\ calls[c].done => ListAfter(calls[c]) = storedQueries

QueriesInv == QueriesTypeOK /\ BuffersTyped /\ CallsTyped /\ OneAnswerAway

-----------------------------------------------------------------------------
\* A call is not the absence of one.
LEMMA CallIsSent == ASSUME NEW call, CallTyped(call) PROVE call # NoCall
  BY DEF CallTyped, CallRecord, NoCall, Kind

\* What is sent is a call.
LEMMA SentTyped ==
  ASSUME NEW kind \in Kind, NEW id \in Query \cup {None}, NEW entry \in Entry \cup {None},
         NEW from \in QueryTab, kind \in {"remember", "remove"} => id \in Query,
         kind = "remove" => entry = None
  PROVE  CallTyped(Sent(kind, id, entry, from)) /\ ~Sent(kind, id, entry, from).done
  BY DEF CallTyped, CallRecord, Sent, Kind

LEMMA QueriesInitTyped == ASSUME QueriesInit PROVE QueriesInv
<1> USE QueriesAssumption
<1>1. PICK c \in Call :
        calls = [d \in Call |-> IF d = c THEN Sent("list", None, None, shownTab) ELSE NoCall]
  BY DEF QueriesInit
<1>2. CallTyped(calls[c]) /\ ~calls[c].done /\ calls[c].kind = "list"
  BY <1>1, SentTyped DEF QueriesInit, Kind, Sent
<1>3. \A d \in Call : InFlight(d) => d = c
  BY <1>1 DEF InFlight
<1>4. CallsTyped
  BY <1>1, <1>2, <1>3 DEF CallsTyped, InFlight
<1>5. OneAnswerAway
  BY <1>1, <1>2, <1>3, CallIsSent DEF OneAnswerAway, InFlight, QueriesInit
<1>6. BuffersTyped
  BY DEF QueriesInit, BuffersTyped
<1>7. QueriesTypeOK
  <2>1. storedQueries \in [Query -> Entry \cup {None}] /\ savedQueries \in [Query -> Entry \cup {None}]
    BY DEF QueriesInit, NoQueries, Entry
  <2>2. called \in 0..MaxCalls
    BY DEF QueriesInit
  <2>3. QED
    BY <2>1, <2>2, <1>6 DEF QueriesTypeOK, QueriesInit, BuffersTyped, Entry, NoQueries
<1>8. QED
  BY <1>4, <1>5, <1>6, <1>7 DEF QueriesInv

\* A buffer that changes stays a buffer, and leaves the rest of the invariant alone.
LEMMA BufferChanges ==
  ASSUME QueriesInv,
         buffer' \in [QueryTab -> [text : Text, saved : Query \cup {None}, value : Filled \cup {None}]],
         shownTab' \in QueryTab, source' \in [QueryTab -> Query \cup {None}],
         UNCHANGED <<savedQueries, loaded, storedQueries, calls, called, alone>>
  PROVE  QueriesInv'
<1>1. QueriesTypeOK'
  BY DEF QueriesInv, QueriesTypeOK, Entry
<1>2. BuffersTyped' /\ CallsTyped' /\ OneAnswerAway'
  BY DEF QueriesInv, BuffersTyped, CallsTyped, OneAnswerAway, InFlight, ListAfter
<1>3. QED
  BY <1>1, <1>2 DEF QueriesInv

\* A call that is sent is the only one, or the calls do not go one at a time any more.
LEMMA SendKeeps ==
  ASSUME QueriesInv,
         NEW kind \in Kind, NEW id \in Query \cup {None}, NEW entry \in Entry \cup {None},
         kind \in {"remember", "remove"} => id \in Query, kind = "remove" => entry = None,
         Send(kind, id, entry)
  PROVE  QueriesInv'
<1> USE QueriesAssumption DEF QueriesInv
<1>1. PICK c \in Call : calls[c] = NoCall /\ calls' = [calls EXCEPT ![c] = Sent(kind, id, entry, shownTab)]
  BY DEF Send
<1>2. CallTyped(calls'[c]) /\ ~calls'[c].done /\ \A d \in Call \ {c} : calls'[d] = calls[d]
  BY <1>1, SentTyped DEF CallsTyped, QueriesTypeOK
<1>3. CallsTyped'
  BY <1>1, <1>2 DEF CallsTyped
<1>4. OneAnswerAway'
  <2> SUFFICES ASSUME alone' PROVE OneAnswerAway'
    BY DEF OneAnswerAway
  <2>1. alone /\ \A d \in Call : calls[d] = NoCall
    BY DEF Send
  <2>2. loaded /\ savedQueries = storedQueries
    BY <2>1 DEF OneAnswerAway, InFlight
  <2>3. UNCHANGED <<savedQueries, storedQueries, loaded>>
    BY DEF Send
  <2>4. \A d \in Call : InFlight(d)' => d = c
    BY <1>2, <2>1 DEF InFlight
  <2>5. QED
    BY <1>2, <2>2, <2>3, <2>4 DEF OneAnswerAway
<1>5. BuffersTyped' /\ QueriesTypeOK'
  <2>1. alone' \in BOOLEAN
    BY DEF Send, QueriesTypeOK
  <2>2. called' \in 0..MaxCalls
    BY DEF Send, QueriesTypeOK
  <2>3. QED
    BY <2>1, <2>2 DEF Send, QueriesTypeOK, BuffersTyped
<1>6. QED
  BY <1>3, <1>4, <1>5

\* A load into a buffer marks the calls sent from it, which stay the calls they were.
LEMMA ReplaceKeeps ==
  ASSUME QueriesInv, NEW text \in Text, NEW saved \in Query \cup {None},
         NEW value \in Filled \cup {None}, Replace(text, saved, value)
  PROVE  QueriesInv'
<1> USE DEF QueriesInv
<1>1. \A c \in Call : InFlight(c)' <=> InFlight(c)
  BY CallIsSent DEF Replace, InFlight, CallsTyped, CallTyped, CallRecord, NoCall, Kind
<1>2. ASSUME NEW c \in Call, InFlight(c)
      PROVE  /\ CallTyped(calls'[c])
             /\ calls'[c].kind = calls[c].kind /\ calls'[c].id = calls[c].id
             /\ calls'[c].done = calls[c].done /\ calls'[c].entry = calls[c].entry
  BY <1>2 DEF Replace, InFlight, CallsTyped, CallTyped, CallRecord
<1>3. CallsTyped'
  BY <1>1, <1>2 DEF CallsTyped, InFlight, Replace
<1>4. OneAnswerAway'
  <2>1. UNCHANGED <<alone, loaded, savedQueries, storedQueries>>
    BY DEF Replace
  <2>2. \A c \in Call : InFlight(c) => ListAfter(calls[c])' = ListAfter(calls[c])
    BY <1>2, <2>1 DEF ListAfter
  <2>3. QED
    BY <1>1, <1>2, <2>1, <2>2 DEF OneAnswerAway
<1>5. BuffersTyped'
  BY DEF BuffersTyped, Replace, QueriesTypeOK
<1>6. QueriesTypeOK'
  <2>1. source' \in [QueryTab -> Query \cup {None}]
    BY DEF QueriesTypeOK, Replace
  <2>2. QED
    BY <1>5, <2>1 DEF QueriesTypeOK, Replace, BuffersTyped, Entry
<1>7. QED
  BY <1>3, <1>4, <1>5, <1>6

\* What is served is one answer away from the list.
LEMMA ReachKeeps == ASSUME QueriesInv, NEW c \in Call, Reach(c) PROVE QueriesInv'
<1> USE QueriesAssumption DEF QueriesInv
<1> DEFINE call == calls[c]
<1>1. CallTyped(call) /\ call # NoCall /\ ~call.done
  BY DEF Reach, CallsTyped
<1>2. PICK id \in Query \cup {None} :
        /\ call.kind # "list" => id \in Query
        /\ storedQueries' = IF call.kind = "list" THEN storedQueries
                            ELSE [storedQueries EXCEPT ![id] = call.entry]
        /\ calls' = [calls EXCEPT ![c] = [call EXCEPT !.done = TRUE, !.id = id,
                       !.entry = IF call.kind = "list" THEN storedQueries ELSE call.entry]]
  <2>1. ASSUME NEW id \in IF call.id = None /\ call.kind = "save" THEN {q \in Query : Fresh(q)} ELSE {call.id}
        PROVE  id \in Query \cup {None} /\ (call.kind # "list" => id \in Query)
    BY <1>1 DEF CallTyped, CallRecord, Kind
  <2>2. QED
    BY <2>1 DEF Reach
<1>3. /\ storedQueries' \in [Query -> Entry \cup {None}]
      /\ storedQueries \in [Query -> Entry \cup {None}]
  BY <1>1, <1>2 DEF QueriesTypeOK, CallTyped
<1>4. /\ CallTyped(calls'[c]) /\ calls'[c].done /\ calls'[c].kind = call.kind
      /\ calls'[c].id = id
      /\ calls'[c].entry = IF call.kind = "list" THEN storedQueries ELSE call.entry
      /\ \A d \in Call \ {c} : calls'[d] = calls[d]
  BY <1>1, <1>2, <1>3 DEF CallTyped, CallRecord, CallsTyped
<1>5. CallsTyped' /\ \A d \in Call : InFlight(d)' <=> InFlight(d)
  BY <1>1, <1>2, <1>4, CallIsSent DEF CallsTyped, InFlight
<1>6. UNCHANGED <<shownTab, buffer, source, savedQueries, loaded, called, alone>>
  BY DEF Reach
<1>7. OneAnswerAway'
  <2> SUFFICES ASSUME alone PROVE OneAnswerAway'
    BY <1>6 DEF OneAnswerAway
  <2>1. \A d \in Call : InFlight(d) => d = c
    BY <1>1 DEF OneAnswerAway, InFlight
  <2>2. loaded \/ call.kind = "list"
    BY <2>1 DEF OneAnswerAway
  <2>3. loaded => savedQueries = storedQueries
    BY <1>1, <2>1 DEF OneAnswerAway
  <2>4. ListAfter(calls[c])' = storedQueries'
    BY <1>2, <1>4, <1>6, <2>2, <2>3 DEF ListAfter
  <2>5. QED
    BY <1>1, <1>4, <1>5, <1>6, <2>1, <2>2, <2>4 DEF OneAnswerAway, InFlight
<1>8. QED
  BY <1>3, <1>5, <1>6, <1>7 DEF QueriesTypeOK, BuffersTyped

\* The answer makes the list what the file is.
LEMMA ReplyKeeps == ASSUME QueriesInv, NEW c \in Call, Reply(c) PROVE QueriesInv'
<1> USE QueriesAssumption DEF QueriesInv
<1> DEFINE call == calls[c]
<1>1. CallTyped(call) /\ call # NoCall /\ call.done /\ call.from \in QueryTab
  BY DEF Reply, CallsTyped, CallTyped, CallRecord
<1>2. savedQueries' = ListAfter(call) /\ loaded' = LoadedAfter(call)
      /\ calls' = [calls EXCEPT ![c] = NoCall] /\ UNCHANGED <<shownTab, storedQueries, called, alone>>
  BY DEF Reply
<1>3. CallsTyped' /\ \A d \in Call : InFlight(d)' <=> InFlight(d) /\ d # c
  BY <1>2 DEF CallsTyped, InFlight
<1>4. OneAnswerAway'
  <2> SUFFICES ASSUME alone PROVE OneAnswerAway'
    BY <1>2 DEF OneAnswerAway
  <2>1. \A d \in Call : InFlight(d) => d = c
    BY <1>1 DEF OneAnswerAway, InFlight
  <2>2. ListAfter(call) = storedQueries /\ (loaded \/ call.kind = "list")
    BY <1>1, <2>1 DEF OneAnswerAway, InFlight
  <2>3. QED
    BY <1>2, <1>3, <2>1, <2>2 DEF OneAnswerAway, LoadedAfter
<1>5. BuffersTyped' /\ source' \in [QueryTab -> Query \cup {None}]
  BY <1>1 DEF Reply, CallTyped, CallRecord, BuffersTyped, QueriesTypeOK, Kind
<1>6. savedQueries' \in [Query -> Entry \cup {None}] /\ loaded' \in BOOLEAN
  BY <1>1, <1>2 DEF ListAfter, LoadedAfter, CallTyped, CallRecord, Kind, QueriesTypeOK
<1>7. \A q \in Query : savedQueries'[q] # None => loaded'
  BY <1>1, <1>2 DEF ListAfter, LoadedAfter, CallTyped, QueriesTypeOK
<1>8. QueriesTypeOK'
  BY <1>2, <1>5, <1>6, <1>7 DEF QueriesTypeOK, BuffersTyped, Entry
<1>9. QED
  BY <1>3, <1>4, <1>5, <1>8

LEMMA FailureKeeps == ASSUME QueriesInv, NEW c \in Call, CallFails(c) PROVE QueriesInv'
<1> USE QueriesAssumption DEF QueriesInv
<1>1. CallsTyped' /\ OneAnswerAway' /\ BuffersTyped'
  BY DEF CallFails, CallsTyped, OneAnswerAway, BuffersTyped
<1>2. /\ savedQueries' \in [Query -> Entry \cup {None}] /\ loaded' \in BOOLEAN
      /\ \A q \in Query : savedQueries'[q] # None => loaded'
  BY DEF CallFails, QueriesTypeOK, NoQueries
<1>3. QueriesTypeOK'
  BY <1>2 DEF CallFails, QueriesTypeOK
<1>4. QED
  BY <1>1, <1>3

LEMMA QueriesStep == ASSUME QueriesInv, [QueriesNext]_queriesVars PROVE QueriesInv'
<1> USE QueriesAssumption
<1>1. ASSUME NEW x \in Text, EditText(x) PROVE QueriesInv'
  <2>1. buffer' \in [QueryTab -> [text : Text, saved : Query \cup {None}, value : Filled \cup {None}]]
    BY <1>1 DEF EditText, QueriesInv, BuffersTyped
  <2>2. QED
    BY <1>1, <2>1, BufferChanges DEF EditText, QueriesInv, QueriesTypeOK
<1>2. ASSUME NEW x \in Text, LoadOther(x) PROVE QueriesInv'
  BY <1>2, ReplaceKeeps DEF LoadOther
<1>3. ASSUME NEW v \in Filled, FillIn(v) PROVE QueriesInv'
  <2>1. buffer' \in [QueryTab -> [text : Text, saved : Query \cup {None}, value : Filled \cup {None}]]
    BY <1>3 DEF FillIn, QueriesInv, BuffersTyped
  <2>2. QED
    BY <1>3, <2>1, BufferChanges DEF FillIn, QueriesInv, QueriesTypeOK
<1>4. ASSUME NEW q \in Query, LoadSavedQuery(q) PROVE QueriesInv'
  <2>1. savedQueries[q] \in Entry
    BY <1>4 DEF LoadSavedQuery, QueriesInv, QueriesTypeOK
  <2>2. QED
    BY <1>4, <2>1, ReplaceKeeps DEF LoadSavedQuery, Entry
<1>5. ASSUME NEW q \in Query, RemoveQuery(q) PROVE QueriesInv'
  BY <1>5, SendKeeps DEF RemoveQuery, Kind
<1>6. ASSUME NEW t \in QueryTab, ShowQueryTab(t) PROVE QueriesInv'
  BY <1>6, BufferChanges DEF ShowQueryTab, QueriesInv, QueriesTypeOK, BuffersTyped
<1>7. CASE LoadList
  BY <1>7, SendKeeps DEF LoadList, Kind
<1>8. CASE RememberParamValues
  <2>1. Linked \in Query /\ savedQueries[Linked] \in Entry /\ buffer[shownTab].value \in Filled \cup {None}
    BY <1>8 DEF RememberParamValues, Linked, QueriesInv, QueriesTypeOK, BuffersTyped
  <2>2. [savedQueries[Linked] EXCEPT !.value = buffer[shownTab].value] \in Entry
    BY <2>1 DEF Entry
  <2>3. QED
    BY <1>8, <2>1, <2>2, SendKeeps DEF RememberParamValues, Kind
<1>9. ASSUME NEW asNew \in BOOLEAN, DoSave(asNew) PROVE QueriesInv'
  <2>1. UpdatedId(asNew) \in Query \cup {None}
    BY DEF UpdatedId, Linked, QueriesInv, QueriesTypeOK, BuffersTyped
  <2>2. [text |-> buffer[shownTab].text, value |-> buffer[shownTab].value] \in Entry
    BY DEF QueriesInv, QueriesTypeOK, BuffersTyped, Entry
  <2>3. QED
    BY <1>9, <2>1, <2>2, SendKeeps DEF DoSave, Kind
<1>10. ASSUME NEW c \in Call, Reach(c) \/ Reply(c) \/ CallFails(c) PROVE QueriesInv'
  BY <1>10, ReachKeeps, ReplyKeeps, FailureKeeps
<1>11. CASE UNCHANGED queriesVars
  BY <1>11 DEF queriesVars, QueriesInv, QueriesTypeOK, BuffersTyped, CallsTyped, OneAnswerAway,
               InFlight, ListAfter
<1>12. QED
  BY <1>1, <1>2, <1>3, <1>4, <1>5, <1>6, <1>7, <1>8, <1>9, <1>10, <1>11 DEF QueriesNext

\* The buffers, the list, the file and the calls keep their types, and while calls go one at a
\* time the list is at most one answer away from the file (saved_queries/state.ts).
THEOREM QueriesInvariant == QueriesSpec => []QueriesInv
<1>1. QueriesInit => QueriesInv
  BY QueriesInitTyped
<1>2. QueriesInv /\ [QueriesNext]_queriesVars => QueriesInv'
  BY QueriesStep
<1>3. QED
  BY <1>1, <1>2, PTL DEF QueriesSpec

\* "The JSON store is the source of truth" (saved_queries/state.ts): for any number of tabs,
\* entries and calls, the list that is shown is the file whenever calls went one at a time,
\* were answered, and none is in flight.
THEOREM ListShowsTheFile == QueriesSpec => []ListIsTheFile
<1>1. QueriesInv => ListIsTheFile
  BY DEF QueriesInv, OneAnswerAway, ListIsTheFile, InFlight
<1>2. QED
  BY <1>1, QueriesInvariant, PTL

-----------------------------------------------------------------------------
(* Runs.                                                                   *)

\* A run in flight, or none.
RunTyped(run) == run = NotRunning \/ run \in [tab : SqlTab, sql : Sql, here : BOOLEAN]

RunsTyped ==
  /\ editor \in SqlTab /\ texts \in [SqlTab -> Sql]
  /\ prompt = <<>> \/ (Len(prompt) = 1 /\ prompt[1] \in Parametric)
  /\ DOMAIN runs = RunSlot /\ \A r \in RunSlot : RunTyped(runs[r])

\* A value goes with the text it was given for.
ParametersInv == RunsTyped /\ outdated = {}

LEMMA RunsInitParameters == ASSUME RunsInit PROVE ParametersInv
  BY DEF RunsInit, ParametersInv, RunsTyped, RunTyped

LEMMA RunIsNotNone ==
  ASSUME NEW run \in [tab : SqlTab, sql : Sql, here : BOOLEAN]
  PROVE  run # NotRunning
  BY DEF NotRunning

\* A run starts with the values of the tab that is on screen.
LEMMA StartKeeps ==
  ASSUME ParametersInv, NEW sql \in Sql, StartRun(sql), outdated' = {},
         prompt' = <<>>
  PROVE  /\ ParametersInv'
         /\ \A r \in RunSlot : runs[r] = NotRunning /\ runs'[r] # NotRunning => runs'[r].sql = sql
  BY DEF ParametersInv, RunsTyped, RunTyped, StartRun

LEMMA RunsStep ==
  ASSUME ParametersInv, [RunsNext]_runsVars
  PROVE  /\ ParametersInv'
         /\ \A r \in RunSlot :
              runs[r] = NotRunning /\ runs'[r] # NotRunning /\ runs'[r].sql \in Parametric
                => editor \in filled' \ outdated'
<1> USE RunsAssumption
<1> DEFINE Asked == \A r \in RunSlot :
                      runs[r] = NotRunning /\ runs'[r] # NotRunning /\ runs'[r].sql \in Parametric
                        => editor \in filled' \ outdated'
<1>1. ASSUME NEW sql \in Sql, Edit(sql) \/ LoadText(sql) PROVE ParametersInv' /\ Asked
  BY <1>1 DEF Edit, LoadText, ParametersInv, RunsTyped
<1>2. ASSUME NEW t \in SqlTab, ShowTab(t) PROVE ParametersInv' /\ Asked
  <2>1. \A r \in RunSlot : RunTyped(runs'[r]) /\ (runs[r] = NotRunning => runs'[r] = NotRunning)
    BY <1>2 DEF ShowTab, ParametersInv, RunsTyped, RunTyped
  <2>2. QED
    BY <1>2, <2>1 DEF ShowTab, ParametersInv, RunsTyped
<1>3. CASE Run
  <2>1. CASE texts[editor] \in Parametric /\ editor \notin filled
    BY <1>3, <2>1 DEF Run, ParametersInv, RunsTyped
  <2>2. CASE ~(texts[editor] \in Parametric /\ editor \notin filled)
    <3>1. StartRun(texts[editor]) /\ UNCHANGED <<filled, outdated, prompt>> /\ prompt = <<>>
      BY <1>3, <2>2 DEF Run
    <3>2. texts[editor] \in Sql /\ outdated' = {} /\ prompt' = <<>>
      BY <3>1 DEF ParametersInv, RunsTyped
    <3>3. QED
      BY <2>2, <3>1, <3>2, StartKeeps
  <2>3. QED
    BY <2>1, <2>2
<1>4. CASE PromptForRun \/ CancelPrompt
  BY <1>4 DEF PromptForRun, CancelPrompt, ParametersInv, RunsTyped
<1>5. CASE FillPrompt
  <2>1. CASE Running
    BY <1>5, <2>1 DEF FillPrompt, ParametersInv, RunsTyped
  <2>2. CASE ~Running
    <3>1. /\ StartRun(prompt[1]) /\ filled' = filled \cup {editor} /\ outdated' = outdated \ {editor}
          /\ prompt' = <<>>
      BY <1>5, <2>2 DEF FillPrompt
    <3>2. prompt[1] \in Sql /\ outdated' = {}
      BY <1>5, <3>1 DEF ParametersInv, RunsTyped, FillPrompt
    <3>3. QED
      BY <3>1, <3>2, StartKeeps
  <2>3. QED
    BY <2>1, <2>2
<1>6. ASSUME NEW r \in RunSlot, RunEnds(r) PROVE ParametersInv' /\ Asked
  BY <1>6 DEF RunEnds, ParametersInv, RunsTyped, RunTyped
<1>7. ASSUME NEW closed, CloseRuns(closed) PROVE ParametersInv' /\ Asked
  BY <1>7 DEF CloseRuns, ParametersInv, RunsTyped
<1>8. ASSUME NEW tab, SetActiveRun(tab) PROVE ParametersInv' /\ Asked
  BY <1>8 DEF SetActiveRun, ParametersInv, RunsTyped
<1>9. CASE UNCHANGED runsVars
  BY <1>9 DEF runsVars, ParametersInv, RunsTyped
<1>10. QED
  BY <1>1, <1>2, <1>3, <1>4, <1>5, <1>6, <1>7, <1>8, <1>9 DEF RunsNext

\* No value of a parameter outlives the text it was given for (SqlEditorTab.tsx load and run).
THEOREM ParametersInvariant == RunsSpec => []ParametersInv
<1>1. RunsInit => ParametersInv
  BY RunsInitParameters
<1>2. ParametersInv /\ [RunsNext]_runsVars => ParametersInv'
  BY RunsStep
<1>3. QED
  BY <1>1, <1>2, PTL DEF RunsSpec

\* SQL with a parameter runs only with a value given since the text was last replaced: for any
\* tabs and runs in flight, neither the prompt nor other SQL's value is passed over.
THEOREM NothingRunsUnfilled == RunsSpec => ParametersAreFilled
<1>1. ParametersInv /\ [RunsNext]_runsVars =>
        [\A r \in RunSlot :
           runs[r] = NotRunning /\ runs'[r] # NotRunning /\ runs'[r].sql \in Parametric
             => editor \in filled' \ outdated']_runsVars
  BY RunsStep
<1>2. QED
  BY <1>1, ParametersInvariant, PTL DEF RunsSpec, ParametersAreFilled

-----------------------------------------------------------------------------
(* Results and history.                                                    *)

ResultTab == {tab \in Sql \X Nat : tab[2] \in 1..Statements[tab[1]]}

ResultsRecord == [tabs : Seq(ResultTab), active : ResultTab \cup {NoFocus}]

\* The result tabs of a query tab: while there are some, one of them has the focus.
ResultsSound(shown) ==
  /\ shown \in ResultsRecord
  /\ IF shown.tabs = <<>> THEN shown.active = NoFocus ELSE shown.active \in ToSet(shown.tabs)

\* A history: every text is there once, and it is no longer than the setting allows.
HistorySound(history) ==
  /\ history \in Seq(Sql) /\ Len(history) <= HistoryMax
  /\ \A i, j \in DOMAIN history : history[i] = history[j] => i = j

Homes == {HomeOf[t] : t \in SqlTab}

RunsInv ==
  /\ ParametersInv /\ filled \subseteq SqlTab /\ started \in 0..MaxRuns
  /\ DOMAIN results = SqlTab /\ \A t \in SqlTab : ResultsSound(results[t])
  /\ DOMAIN runHistory = Homes /\ \A w \in Homes : HistorySound(runHistory[w])

\* Of a step: results only come where a run that was started there ends.
ComeHome ==
  \A t \in SqlTab :
    ~(ToSet(results'[t].tabs) \subseteq ToSet(results[t].tabs)) =>
      \E r \in RunSlot : runs[r] # NotRunning /\ runs[r].tab = t /\ runs'[r] = NotRunning

\* The text that ran goes to the front, and is nowhere else.
LEMMA EntryKeepsHistory ==
  ASSUME NEW history, HistorySound(history), NEW sql \in Sql
  PROVE  HistorySound(WithHistoryEntry(history, sql))
<1> DEFINE T == ToSet(history) \ {sql}
           rest == OnlyIn(history, T)
           entries == <<sql>> \o rest
           n == IF Len(entries) < HistoryMax THEN Len(entries) ELSE HistoryMax
<1>1. /\ history \in Seq(Sql) /\ Len(history) \in Nat /\ DOMAIN history = 1..Len(history)
      /\ \A i, j \in DOMAIN history : history[i] = history[j] => i = j
  BY DEF HistorySound
<1>2. HistoryMax \in Nat \ {0}
  BY RunsAssumption
<1>3. rest \in Seq(Sql \cap T) /\ \E at : SelectedAt(at, history, T)
  BY <1>1, OnlyInPlaces
<1>4. PICK at : SelectedAt(at, history, T)
  BY <1>3
<1>5. rest \in Seq(Sql) /\ Len(rest) \in Nat /\ DOMAIN rest = 1..Len(rest)
  <2>1. ASSUME NEW A, NEW B, NEW s \in Seq(A \cap B)
        PROVE  s \in Seq(A) /\ Len(s) \in Nat /\ DOMAIN s = 1..Len(s)
    OBVIOUS
  <2>2. QED
    BY <1>3, <2>1
<1>6. /\ at \in [1..Len(rest) -> 1..Len(history)]
      /\ \A k \in 1..Len(rest) : history[at[k]] \in T /\ rest[k] = history[at[k]]
      /\ \A k, m \in 1..Len(rest) : k < m => at[k] < at[m]
  BY <1>4 DEF SelectedAt
<1>7. WithHistoryEntry(history, sql) = SubSeq(entries, 1, n)
  BY DEF WithHistoryEntry
<1> HIDE DEF T, rest
<1>8. \A k \in 1..Len(rest) : rest[k] # sql
  BY <1>6 DEF T
<1>9. ASSUME NEW k \in 1..Len(rest), NEW m \in 1..Len(rest), rest[k] = rest[m] PROVE k = m
  <2>1. at[k] \in 1..Len(history) /\ at[m] \in 1..Len(history) /\ history[at[k]] = history[at[m]]
    BY <1>6, <1>9
  <2>2. at[k] = at[m] /\ at[k] \in Int
    BY <1>1, <2>1
  <2>3. ~(k < m) /\ ~(m < k)
    BY <1>6, <2>2
  <2>4. QED
    BY <1>5, <2>3
<1>10. /\ entries \in Seq(Sql) /\ Len(entries) = Len(rest) + 1
       /\ entries[1] = sql /\ \A k \in 2..(Len(rest) + 1) : entries[k] = rest[k - 1]
  <2>1. <<sql>> \in Seq(Sql) /\ Len(<<sql>>) = 1
    OBVIOUS
  <2>2. entries \in Seq(Sql) /\ Len(entries) = Len(rest) + 1
    BY <1>5, <2>1
  <2>3. \A k \in 1..(Len(rest) + 1) : entries[k] = IF k <= 1 THEN <<sql>>[k] ELSE rest[k - 1]
    BY <1>5, <2>1
  <2>4. QED
    BY <1>5, <2>2, <2>3
<1> HIDE DEF entries
<1>11. ASSUME NEW k \in 1..(Len(rest) + 1), NEW m \in 1..(Len(rest) + 1), entries[k] = entries[m]
       PROVE  k = m
  <2>1. \A j \in 2..(Len(rest) + 1) : j - 1 \in 1..Len(rest) /\ entries[j] # sql
    BY <1>5, <1>8, <1>10
  <2>2. k = 1 \/ k \in 2..(Len(rest) + 1)
    BY <1>5
  <2>3. m = 1 \/ m \in 2..(Len(rest) + 1)
    BY <1>5
  <2>4. CASE k = 1 \/ m = 1
    BY <1>10, <1>11, <2>1, <2>2, <2>3, <2>4
  <2>5. CASE k \in 2..(Len(rest) + 1) /\ m \in 2..(Len(rest) + 1)
    <3>1. rest[k - 1] = rest[m - 1] /\ k - 1 \in 1..Len(rest) /\ m - 1 \in 1..Len(rest)
      BY <1>10, <1>11, <2>1, <2>5
    <3>2. k - 1 = m - 1
      BY <1>9, <3>1
    <3>3. QED
      BY <1>5, <3>2
  <2>6. QED
    BY <2>2, <2>3, <2>4, <2>5
<1>12. n \in 0..Len(entries) /\ n <= HistoryMax
  BY <1>2, <1>5, <1>10
<1> HIDE DEF n
<1>13. /\ SubSeq(entries, 1, n) \in Seq(Sql) /\ Len(SubSeq(entries, 1, n)) = n
       /\ DOMAIN SubSeq(entries, 1, n) = 1..n
       /\ \A k \in 1..n : SubSeq(entries, 1, n)[k] = entries[k]
  <2>1. ASSUME NEW S, NEW s \in Seq(S), NEW k \in 0..Len(s)
        PROVE  /\ SubSeq(s, 1, k) \in Seq(S) /\ Len(SubSeq(s, 1, k)) = k
               /\ DOMAIN SubSeq(s, 1, k) = 1..k
               /\ \A j \in 1..k : SubSeq(s, 1, k)[j] = s[j]
    OBVIOUS
  <2>2. QED
    BY <1>10, <1>12, <2>1
<1>14. HistorySound(SubSeq(entries, 1, n))
  <2>1. \A k \in 1..n : k \in 1..(Len(rest) + 1)
    BY <1>5, <1>10, <1>12
  <2>2. QED
    BY <1>11, <1>12, <1>13, <2>1 DEF HistorySound
<1>15. QED
  BY <1>7, <1>14

\* What is left of the result tabs has the focus, while something is left.
LEMMA CloseKeepsFocus ==
  ASSUME NEW shown, ResultsSound(shown), NEW closed, closed \subseteq ToSet(shown.tabs),
         NEW left, left = [tabs |-> OnlyIn(shown.tabs, ToSet(shown.tabs) \ closed),
                           active |-> FocusAfterClose(shown.tabs, shown.active, closed)]
  PROVE  ResultsSound(left) /\ ToSet(left.tabs) = ToSet(shown.tabs) \ closed
<1> DEFINE T == ToSet(shown.tabs) \ closed
           stay == {j \in DOMAIN shown.tabs : shown.tabs[j] \notin closed}
           i == CHOOSE i \in DOMAIN shown.tabs : shown.tabs[i] = shown.active
           right == {j \in stay : j > i}
<1>1. /\ shown \in ResultsRecord /\ shown.tabs \in Seq(ResultTab) /\ Len(shown.tabs) \in Nat
      /\ DOMAIN shown.tabs = 1..Len(shown.tabs) /\ shown.active \in ResultTab \cup {NoFocus}
      /\ IF shown.tabs = <<>> THEN shown.active = NoFocus ELSE shown.active \in ToSet(shown.tabs)
  BY DEF ResultsSound, ResultsRecord
<1>2. OnlyIn(shown.tabs, T) \in Seq(ResultTab \cap T) /\ \E at : SelectedAt(at, shown.tabs, T)
  BY <1>1, OnlyInPlaces
<1>3. PICK at : SelectedAt(at, shown.tabs, T)
  BY <1>2
<1>4. left.tabs = OnlyIn(shown.tabs, T)
      /\ left.active = FocusAfterClose(shown.tabs, shown.active, closed)
      /\ left = [tabs |-> left.tabs, active |-> left.active]
  OBVIOUS
<1>5. /\ at \in [1..Len(left.tabs) -> 1..Len(shown.tabs)]
      /\ \A n \in 1..Len(left.tabs) : shown.tabs[at[n]] \in T /\ left.tabs[n] = shown.tabs[at[n]]
      /\ \A k \in 1..Len(shown.tabs) : shown.tabs[k] \in T => \E n \in 1..Len(left.tabs) : at[n] = k
  BY <1>3, <1>4 DEF SelectedAt
<1>6. left.tabs \in Seq(ResultTab) /\ Len(left.tabs) \in Nat /\ DOMAIN left.tabs = 1..Len(left.tabs)
  <2>1. ASSUME NEW A, NEW B, NEW s \in Seq(A \cap B)
        PROVE  s \in Seq(A) /\ Len(s) \in Nat /\ DOMAIN s = 1..Len(s)
    OBVIOUS
  <2>2. QED
    BY <1>2, <1>4, <2>1
<1>7. ToSet(left.tabs) = T
  <2>1. \A n \in DOMAIN left.tabs : left.tabs[n] \in T
    BY <1>5, <1>6
  <2>2. ASSUME NEW k \in DOMAIN shown.tabs, shown.tabs[k] \in T
        PROVE  \E n \in DOMAIN left.tabs : left.tabs[n] = shown.tabs[k]
    <3>1. PICK n \in 1..Len(left.tabs) : at[n] = k
      BY <1>1, <1>5, <2>2
    <3>2. n \in DOMAIN left.tabs /\ left.tabs[n] = shown.tabs[k]
      BY <1>5, <1>6, <3>1
    <3>3. QED
      BY <3>2
  <2>3. \A tab \in T : \E k \in DOMAIN shown.tabs : tab = shown.tabs[k]
    BY DEF ToSet
  <2> HIDE DEF T
  <2>4. QED
    BY <2>1, <2>2, <2>3 DEF ToSet
<1>8. IF T = {} THEN left.active = NoFocus ELSE left.active \in T
  <2>1. CASE shown.active \notin closed
    <3>1. left.active = shown.active
      BY <1>4, <2>1 DEF FocusAfterClose
    <3>2. shown.tabs = <<>> => ToSet(shown.tabs) = {}
      BY DEF ToSet
    <3>3. QED
      BY <1>1, <2>1, <3>1, <3>2
  <2>2. CASE shown.active \in closed
    <3>1. left.active = IF right # {} THEN shown.tabs[CHOOSE j \in right : \A k \in right : j <= k]
                        ELSE IF stay # {} THEN shown.tabs[CHOOSE j \in stay : \A k \in stay : k <= j]
                        ELSE NoFocus
      BY <1>4, <2>2 DEF FocusAfterClose
    <3>2. stay \in SUBSET Nat /\ right \in SUBSET Nat /\ \A k \in stay : k <= Len(shown.tabs)
      BY <1>1
    <3>3. right \subseteq stay
      OBVIOUS
    <3>4. \A j \in stay : shown.tabs[j] \in T
      BY DEF ToSet
    <3>5. stay = {} => T = {}
      BY DEF ToSet
    <3>6. stay # {} => T # {}
      BY <3>4
    <3> HIDE DEF stay, right, T
    <3>7. right # {} => \E j \in right : \A k \in right : j <= k
      BY <3>2, LeastExists
    <3>8. stay # {} => \E j \in stay : \A k \in stay : k <= j
      BY <1>1, <3>2, GreatestExists
    <3>9. right # {} => (CHOOSE j \in right : \A k \in right : j <= k) \in stay
      BY <3>3, <3>7
    <3>10. stay # {} => (CHOOSE j \in stay : \A k \in stay : k <= j) \in stay
      BY <3>8
    <3>11. QED
      BY <3>1, <3>3, <3>4, <3>5, <3>6, <3>9, <3>10
  <2>3. QED
    BY <2>1, <2>2
<1>9. left.tabs = <<>> <=> T = {}
  <2>1. left.tabs = <<>> => ToSet(left.tabs) = {}
    BY DEF ToSet
  <2>2. left.tabs # <<>> => left.tabs[1] \in ToSet(left.tabs)
    <3>1. left.tabs # <<>> => 1 \in DOMAIN left.tabs
      BY <1>6
    <3>2. QED
      BY <3>1 DEF ToSet
  <2>3. QED
    BY <1>7, <2>1, <2>2
<1>10. left.active \in ResultTab \cup {NoFocus}
  <2>1. \A n \in DOMAIN left.tabs : left.tabs[n] \in ResultTab
    BY <1>6
  <2>2. T \subseteq ResultTab
    BY <1>7, <2>1 DEF ToSet
  <2>3. QED
    BY <1>8, <2>2
<1> HIDE DEF T
<1>11. left \in ResultsRecord
  BY <1>4, <1>6, <1>10 DEF ResultsRecord
<1>12. QED
  BY <1>7, <1>8, <1>9, <1>11 DEF ResultsSound, T

\* The results of a run are those of the statements of its text.
LEMMA ResultsArrive ==
  ASSUME NEW sql \in Sql
  PROVE  ResultsSound([tabs |-> ResultTabs(sql), active |-> <<sql, 1>>])
<1>1. Statements[sql] \in Nat /\ 1 \in 1..Statements[sql]
  BY RunsAssumption
<1>2. \A i \in 1..Statements[sql] : <<sql, i>> \in ResultTab
  BY <1>1 DEF ResultTab
<1>3. ResultTabs(sql) \in Seq(ResultTab) /\ DOMAIN ResultTabs(sql) = 1..Statements[sql]
  BY <1>1, <1>2 DEF ResultTabs
<1>4. ResultTabs(sql)[1] = <<sql, 1>> /\ 1 \in DOMAIN ResultTabs(sql)
  BY <1>1, <1>3 DEF ResultTabs
<1>5. <<sql, 1>> \in ToSet(ResultTabs(sql)) /\ ResultTabs(sql) # <<>>
  BY <1>4 DEF ToSet
<1>6. QED
  BY <1>1, <1>2, <1>3, <1>5 DEF ResultsSound, ResultsRecord

\* A step that leaves results and history keeps what is said of them.
LEMMA ResultsUntouched ==
  ASSUME RunsInv, ParametersInv', filled' \subseteq SqlTab, started' \in 0..MaxRuns,
         UNCHANGED <<results, runHistory>>
  PROVE  RunsInv' /\ ComeHome
  BY DEF RunsInv, ComeHome

LEMMA RunsInvInit == ASSUME RunsInit PROVE RunsInv
<1>1. ParametersInv
  BY RunsInitParameters
<1>2. ResultsSound(NoResults)
  BY DEF ResultsSound, ResultsRecord, NoResults
<1>3. HistorySound(<<>>)
  BY RunsAssumption DEF HistorySound
<1>4. filled = {} /\ started = 0 /\ results = [t \in SqlTab |-> NoResults]
      /\ runHistory = [w \in Homes |-> <<>>]
  BY DEF RunsInit, Homes
<1>5. 0 \in 0..MaxRuns
  BY RunsAssumption
<1>6. QED
  BY <1>1, <1>2, <1>3, <1>4, <1>5 DEF RunsInv

LEMMA RunEndsKeeps ==
  ASSUME RunsInv, ParametersInv', NEW r \in RunSlot, RunEnds(r)
  PROVE  RunsInv' /\ ComeHome
<1> DEFINE run == runs[r]
           new == [tabs |-> ResultTabs(run.sql), active |-> <<run.sql, 1>>]
<1>1. /\ run.tab \in SqlTab /\ run.sql \in Sql /\ run # NotRunning /\ runs'[r] = NotRunning
  BY DEF RunsInv, ParametersInv, RunsTyped, RunTyped, RunEnds
<1>2. /\ runHistory' = [runHistory EXCEPT ![HomeOf[run.tab]] = WithHistoryEntry(@, run.sql)]
      /\ results' = WithResults(run)
      /\ UNCHANGED <<editor, texts, filled, outdated, prompt, started>>
  BY DEF RunEnds
<1>3. HomeOf[run.tab] \in Homes
  BY <1>1 DEF Homes
<1> HIDE DEF run
<1>4. DOMAIN runHistory' = Homes /\ \A w \in Homes : HistorySound(runHistory'[w])
  <2>1. HistorySound(WithHistoryEntry(runHistory[HomeOf[run.tab]], run.sql))
    BY <1>1, <1>3, EntryKeepsHistory DEF RunsInv
  <2>2. QED
    BY <1>2, <1>3, <2>1 DEF RunsInv
<1>5. ResultsSound(new)
  BY <1>1, ResultsArrive
<1>6. results' = results \/ results' = [results EXCEPT ![run.tab] = new]
  BY <1>2 DEF WithResults
<1> HIDE DEF new
<1>7. DOMAIN results' = SqlTab /\ \A t \in SqlTab : ResultsSound(results'[t])
  BY <1>1, <1>5, <1>6 DEF RunsInv
<1>8. RunsInv'
  BY <1>2, <1>4, <1>7 DEF RunsInv
<1>9. \A t \in SqlTab : t # run.tab => results'[t] = results[t]
  BY <1>6 DEF RunsInv
<1>10. ComeHome
  BY <1>1, <1>9 DEF ComeHome, run
<1>11. QED
  BY <1>8, <1>10

LEMMA ResultsStep ==
  ASSUME RunsInv, [RunsNext]_runsVars
  PROVE  RunsInv' /\ ComeHome
<1>1. ParametersInv'
  BY RunsStep DEF RunsInv
<1>2. editor \in SqlTab /\ filled \subseteq SqlTab /\ started \in 0..MaxRuns /\ MaxRuns \in Nat
  BY RunsAssumption DEF RunsInv, ParametersInv, RunsTyped
<1>3. ASSUME \/ \E sql \in Sql : Edit(sql) \/ LoadText(sql)
             \/ \E t \in SqlTab : ShowTab(t)
             \/ Run \/ PromptForRun \/ FillPrompt \/ CancelPrompt
             \/ UNCHANGED runsVars
      PROVE  RunsInv' /\ ComeHome
  <2>1. ASSUME NEW sql, StartRun(sql)
        PROVE  started' \in 0..MaxRuns /\ UNCHANGED <<results, runHistory>>
    BY <1>2, <2>1 DEF StartRun
  <2>2. UNCHANGED <<results, runHistory>> /\ filled' \subseteq SqlTab /\ started' \in 0..MaxRuns
    BY <1>2, <1>3, <2>1
       DEF Edit, LoadText, ShowTab, Run, PromptForRun, FillPrompt, CancelPrompt, runsVars
  <2>3. QED
    BY <1>1, <2>2, ResultsUntouched
<1>4. ASSUME NEW r \in RunSlot, RunEnds(r) PROVE RunsInv' /\ ComeHome
  BY <1>1, <1>4, RunEndsKeeps
<1>5. ASSUME NEW left, ResultsSound(left), ToSet(left.tabs) \subseteq ToSet(results[editor].tabs),
             results' = [results EXCEPT ![editor] = left],
             UNCHANGED <<filled, started, runHistory>>
      PROVE  RunsInv' /\ ComeHome
  <2>1. \A t \in SqlTab : results'[t] = IF t = editor THEN left ELSE results[t]
    BY <1>2, <1>5 DEF RunsInv
  <2>2. DOMAIN results' = SqlTab
    BY <1>5 DEF RunsInv
  <2>3. RunsInv'
    BY <1>1, <1>5, <2>1, <2>2 DEF RunsInv
  <2>4. ComeHome
    BY <1>5, <2>1 DEF ComeHome
  <2>5. QED
    BY <2>3, <2>4
<1>6. ASSUME NEW closed \in SUBSET ToSet(results[editor].tabs), CloseRuns(closed) PROVE RunsInv' /\ ComeHome
  <2> DEFINE shown == results[editor]
             left == [tabs |-> OnlyIn(shown.tabs, ToSet(shown.tabs) \ closed),
                      active |-> FocusAfterClose(shown.tabs, shown.active, closed)]
  <2>1. results' = [results EXCEPT ![editor] = left] /\ UNCHANGED <<filled, started, runHistory>>
    BY <1>6 DEF CloseRuns
  <2>2. ResultsSound(shown)
    BY <1>2 DEF RunsInv
  <2>3. ResultsSound(left) /\ ToSet(left.tabs) = ToSet(shown.tabs) \ closed
    BY <2>2, CloseKeepsFocus
  <2> HIDE DEF left
  <2>4. QED
    BY <1>5, <2>1, <2>3
<1>7. ASSUME NEW tab \in ToSet(results[editor].tabs), SetActiveRun(tab) PROVE RunsInv' /\ ComeHome
  <2> DEFINE shown == results[editor]
             left == [shown EXCEPT !.active = tab]
  <2>1. results' = [results EXCEPT ![editor].active = tab] /\ UNCHANGED <<filled, started, runHistory>>
    BY <1>7 DEF SetActiveRun
  <2>2. ResultsSound(shown)
    BY <1>2 DEF RunsInv
  <2>3. results' = [results EXCEPT ![editor] = left]
    BY <2>1
  <2>4. left.tabs = shown.tabs /\ left.active = tab /\ left \in ResultsRecord /\ shown.tabs # <<>>
    <3>1. shown.tabs \in Seq(ResultTab)
      BY <2>2 DEF ResultsSound, ResultsRecord
    <3>2. tab \in ResultTab
      BY <1>7, <3>1 DEF ToSet
    <3>3. shown.tabs = <<>> => ToSet(shown.tabs) = {}
      BY DEF ToSet
    <3>4. QED
      BY <1>7, <2>2, <3>2, <3>3 DEF ResultsSound, ResultsRecord
  <2> HIDE DEF left
  <2>5. ResultsSound(left)
    BY <1>7, <2>4 DEF ResultsSound
  <2>6. QED
    BY <1>5, <2>1, <2>3, <2>4, <2>5
<1>8. QED
  BY <1>3, <1>4, <1>6, <1>7 DEF RunsNext

\* Results and histories stay well formed, whatever order the runs end in.
THEOREM RunsInvariant == RunsSpec => []RunsInv
<1>1. RunsInit => RunsInv
  BY RunsInvInit
<1>2. RunsInv /\ [RunsNext]_runsVars => RunsInv'
  BY ResultsStep
<1>3. QED
  BY <1>1, <1>2, PTL DEF RunsSpec

\* What the invariant says of types.
LEMMA RunsInvTyped == ASSUME RunsInv PROVE RunsTypeOK
<1>1. ASSUME NEW S, NEW s \in Seq(S) PROVE ToSet(s) \subseteq S
  BY DEF ToSet
<1>2. ASSUME NEW t \in SqlTab
      PROVE  /\ results[t].active \in ToSet(results[t].tabs) \cup {NoFocus}
             /\ \A tab \in ToSet(results[t].tabs) : tab[1] \in Sql /\ tab[2] \in 1..Statements[tab[1]]
  <2>1. ResultsSound(results[t])
    BY DEF RunsInv
  <2>2. ToSet(results[t].tabs) \subseteq ResultTab
    BY <1>1, <2>1 DEF ResultsSound, ResultsRecord
  <2>3. QED
    BY <2>1, <2>2 DEF ResultsSound, ResultTab
<1>3. ASSUME NEW w \in DOMAIN runHistory PROVE ToSet(runHistory[w]) \subseteq Sql
  BY <1>1 DEF RunsInv, HistorySound
<1>4. QED
  BY <1>2, <1>3 DEF RunsInv, ParametersInv, RunsTyped, RunsTypeOK

\* Every variable keeps its type.
THEOREM RunsTypeCorrect == RunsSpec => []RunsTypeOK
  BY RunsInvTyped, RunsInvariant, PTL

\* What the invariant says of histories and of the focus.
LEMMA RunsInvFocus == RunsInv => HistoryHasEachOnce /\ AResultHasTheFocus
<1>1. RunsInv => HistoryHasEachOnce
  <2> SUFFICES ASSUME RunsInv, NEW w \in DOMAIN runHistory
               PROVE  /\ Len(runHistory[w]) <= HistoryMax
                      /\ Cardinality(ToSet(runHistory[w])) = Len(runHistory[w])
    BY DEF HistoryHasEachOnce
  <2>1. HistorySound(runHistory[w])
    BY DEF RunsInv
  <2>2. ASSUME NEW s \in Seq(Sql), \A i, j \in DOMAIN s : s[i] = s[j] => i = j
        PROVE  Cardinality(ToSet(s)) = Len(s)
    <3>1. Len(s) \in Nat /\ DOMAIN s = 1..Len(s)
      OBVIOUS
    <3>2. s \in [1..Len(s) -> ToSet(s)] /\ \A e \in ToSet(s) : \E i \in 1..Len(s) : s[i] = e
      BY <3>1 DEF ToSet
    <3>3. s \in Surjection(1..Len(s), ToSet(s)) /\ s \in Injection(1..Len(s), ToSet(s))
      <4>1. s \in Surjection(1..Len(s), ToSet(s))
        BY <3>2 DEF Surjection
      <4>2. \A i, j \in 1..Len(s) : s[i] = s[j] => i = j
        BY <2>2, <3>1
      <4>3. IsInjective(s)
        BY <3>1, <4>2 DEF IsInjective
      <4>4. s \in Injection(1..Len(s), ToSet(s))
        BY <3>2, <4>3 DEF Injection
      <4>5. QED
        BY <4>1, <4>4
    <3>4. IsFiniteSet(1..Len(s)) /\ Cardinality(1..Len(s)) = Len(s)
      <4>1. ASSUME NEW n \in Nat PROVE IsFiniteSet(1..n) /\ Cardinality(1..n) = n
        BY FS_Interval
      <4>2. QED
        BY <3>1, <4>1
    <3>5. QED
      BY <3>3, <3>4, FS_Surjection
  <2>3. QED
    BY <2>1, <2>2 DEF HistorySound
<1>2. RunsInv => AResultHasTheFocus
  <2> SUFFICES ASSUME RunsInv, NEW t \in SqlTab
               PROVE  (results[t].active = NoFocus) <=> (results[t].tabs = <<>>)
    BY DEF AResultHasTheFocus
  <2>1. ResultsSound(results[t]) /\ results[t].tabs \in Seq(ResultTab)
    BY DEF RunsInv, ResultsSound, ResultsRecord
  <2>2. ASSUME results[t].tabs # <<>> PROVE results[t].active # NoFocus
    <3>1. results[t].active \in ToSet(results[t].tabs)
      BY <2>1, <2>2 DEF ResultsSound
    <3>2. ToSet(results[t].tabs) \subseteq ResultTab
      BY <2>1 DEF ToSet
    <3>3. \A tab \in ResultTab : tab # <<>>
      BY DEF ResultTab
    <3>4. QED
      BY <3>1, <3>2, <3>3 DEF NoFocus
  <2>3. QED
    BY <2>1, <2>2 DEF ResultsSound
<1>3. QED
  BY <1>1, <1>2

\* Every history has a text once and is no longer than the setting, and a result tab has the
\* focus while there is one.
THEOREM HistoryAndFocus == RunsSpec => [](HistoryHasEachOnce /\ AResultHasTheFocus)
  BY RunsInvFocus, RunsInvariant, PTL

\* Results are put where their run was started, however the tabs changed meanwhile.
THEOREM ResultsComeHome == RunsSpec => ResultsOfOwnRun
<1>1. RunsInv /\ [RunsNext]_runsVars =>
        [\A t \in SqlTab :
           ~(ToSet(results'[t].tabs) \subseteq ToSet(results[t].tabs)) =>
             \E r \in RunSlot : runs[r] # NotRunning /\ runs[r].tab = t
                                /\ runs'[r] = NotRunning]_runsVars
  BY ResultsStep DEF ComeHome
<1>2. QED
  BY <1>1, RunsInvariant, PTL DEF RunsSpec, ResultsOfOwnRun

-----------------------------------------------------------------------------
(* Tabs.                                                                   *)

Ui == [tabs : Seq(Tab), active : {NoTab} \cup (1..MaxOpened), held : [Slot -> SUBSET (1..MaxOpened)]]

\* A strip: every id is there once, the focus is on a tab of it, what is kept by id is kept for
\* one of its tabs, and only tables hold staged work.
Sound(u) ==
  /\ u \in Ui
  /\ \A i, j \in DOMAIN u.tabs : u.tabs[i].id = u.tabs[j].id => i = j
  /\ IF u.tabs = <<>> THEN u.active = NoTab ELSE u.active \in TabIds(u.tabs)
  /\ \A x \in Slot : u.held[x] \subseteq TabIds(u.tabs)
  /\ \A tab \in ToSet(u.tabs) :
       tab.id \in u.held["gridEdits"] \cup u.held["structureEdits"] => tab.kind = "table"

-----------------------------------------------------------------------------
\* Closing one after another is a function of how many are closed.
LEMMA ClosedInTurn ==
  ASSUME NEW u, NEW ids, Len(ids) \in Nat
  PROVE  \E f : /\ f = [n \in 0..Len(ids) |-> IF n = 0 THEN u ELSE CloseTab(f[n - 1], ids[n])]
                /\ CloseTabs(u, ids) = f[Len(ids)]
<1> DEFINE IsIt(f, m) == f = [n \in 0..m |-> IF n = 0 THEN u ELSE CloseTab(f[n - 1], ids[n])]
           G == {m \in 0..Len(ids) : \E f : IsIt(f, m)}
<1>1. 0 \in G
  <2>1. IsIt([n \in 0..0 |-> u], 0)
    OBVIOUS
  <2> HIDE DEF IsIt
  <2>2. \E f : IsIt(f, 0)
    BY <2>1
  <2> QED  BY <2>2
<1>2. ASSUME NEW m \in 0..(Len(ids) - 1), m \in G PROVE m + 1 \in G
  <2>1. PICK part : IsIt(part, m)
    BY <1>2
  <2> DEFINE g == [n \in 0..(m + 1) |-> IF n <= m THEN part[n] ELSE CloseTab(part[m], ids[m + 1])]
  <2>2. ASSUME NEW n \in 0..(m + 1) PROVE g[n] = IF n = 0 THEN u ELSE CloseTab(g[n - 1], ids[n])
    <3>1. CASE n = 0
      BY <2>1, <3>1
    <3>2. CASE n \in 1..m
      <4>1. g[n] = part[n] /\ part[n] = CloseTab(part[n - 1], ids[n]) /\ n - 1 \in 0..m
        BY <2>1, <3>2
      <4>2. g[n - 1] = part[n - 1]
        BY <4>1
      <4> QED  BY <3>2, <4>1, <4>2
    <3>3. CASE n = m + 1
      <4>1. g[n] = CloseTab(part[m], ids[m + 1]) /\ g[m] = part[m] /\ n - 1 = m
        BY <3>3
      <4> QED  BY <3>3, <4>1
    <3> QED  BY <3>1, <3>2, <3>3
  <2>3. IsIt(g, m + 1)
    BY <2>2
  <2> HIDE DEF IsIt, g
  <2>4. \E f : IsIt(f, m + 1)
    BY <2>3
  <2> QED  BY <2>4
<1>3. 0..Len(ids) \subseteq G
  <2> HIDE DEF G
  <2> QED  BY <1>1, <1>2, CountingUp
<1>4. \E f : IsIt(f, Len(ids))
  BY <1>3
<1>5. IsIt(CHOOSE f : IsIt(f, Len(ids)), Len(ids))
  BY <1>4, Zenon
<1>6. CloseTabs(u, ids) = (CHOOSE f : IsIt(f, Len(ids)))[Len(ids)]
  BY DEF CloseTabs
<1> QED  BY <1>5, <1>6

\* The tab that is closed, and what is left.
LEMMA CloseTabEffect ==
  ASSUME NEW u, Sound(u), NEW id
  PROVE  /\ Sound(CloseTab(u, id))
         /\ ToSet(CloseTab(u, id).tabs) = {tab \in ToSet(u.tabs) : tab.id # id}
         /\ \A x \in Slot : CloseTab(u, id).held[x] = u.held[x] \ {id}
<1> DEFINE v == CloseTab(u, id)
<1>1. /\ u \in Ui /\ u.tabs \in Seq(Tab) /\ Len(u.tabs) \in Nat /\ DOMAIN u.tabs = 1..Len(u.tabs)
      /\ \A i, j \in DOMAIN u.tabs : u.tabs[i].id = u.tabs[j].id => i = j
      /\ \A k \in DOMAIN u.tabs : u.tabs[k] \in Tab
      /\ u.held \in [Slot -> SUBSET (1..MaxOpened)]
  BY DEF Sound, Ui
<1>2. /\ IF u.tabs = <<>> THEN u.active = NoTab ELSE u.active \in TabIds(u.tabs)
      /\ \A x \in Slot : u.held[x] \subseteq TabIds(u.tabs)
      /\ \A tab \in ToSet(u.tabs) :
           tab.id \in u.held["gridEdits"] \cup u.held["structureEdits"] => tab.kind = "table"
  BY DEF Sound
<1>3. CASE id \notin TabIds(u.tabs)
  <2>1. v = u
    BY <1>3 DEF CloseTab
  <2>2. \A tab \in ToSet(u.tabs) : tab.id # id
    BY <1>1, <1>3 DEF TabIds, ToSet
  <2>3. \A x \in Slot : u.held[x] \ {id} = u.held[x]
    BY <1>2, <1>3
  <2> QED  BY <2>1, <2>2, <2>3
<1>4. CASE id \in TabIds(u.tabs)
  <2> DEFINE i == CHOOSE i \in DOMAIN u.tabs : u.tabs[i].id = id
             left == RemoveAt(u.tabs, i)
             active == IF u.active = id THEN FocusAfter(u.tabs, left, i) ELSE u.active
             held == [x \in Slot |-> u.held[x] \ {id}]
  <2>1. v = [tabs |-> left, active |-> active, held |-> held]
    BY <1>4 DEF CloseTab
  <2>2. i \in 1..Len(u.tabs) /\ u.tabs[i].id = id
    BY <1>1, <1>4 DEF TabIds
  <2> HIDE DEF i
  <2>3. /\ left \in Seq(Tab) /\ Len(left) = Len(u.tabs) - 1
        /\ \A k \in 1..(Len(u.tabs) - 1) : left[k] = IF k < i THEN u.tabs[k] ELSE u.tabs[k + 1]
    <3>1. ASSUME NEW s \in Seq(Tab), NEW n \in 1..Len(s)
          PROVE  /\ RemoveAt(s, n) \in Seq(Tab) /\ Len(RemoveAt(s, n)) = Len(s) - 1
                 /\ \A k \in 1..(Len(s) - 1) : RemoveAt(s, n)[k] = IF k < n THEN s[k] ELSE s[k + 1]
      BY RemoveAtPlaces
    <3> QED  BY <1>1, <2>2, <3>1
  <2> HIDE DEF left
  <2>4. DOMAIN left = 1..(Len(u.tabs) - 1)
    BY <2>3
  <2> DEFINE old(k) == IF k < i THEN k ELSE k + 1
  <2>5. \A k \in DOMAIN left : old(k) \in DOMAIN u.tabs /\ old(k) # i /\ left[k] = u.tabs[old(k)]
    BY <1>1, <2>2, <2>3, <2>4
  <2>6. \A k, m \in DOMAIN left : old(k) = old(m) => k = m
    BY <1>1, <2>2, <2>4
  <2>7. \A m \in DOMAIN u.tabs : m # i => \E k \in DOMAIN left : old(k) = m
    <3>1. ASSUME NEW m \in 1..Len(u.tabs), m # i PROVE \E k \in 1..(Len(u.tabs) - 1) : old(k) = m
      <4>1. CASE m < i
        <5>1. m \in 1..(Len(u.tabs) - 1) /\ old(m) = m
          BY <1>1, <2>2, <4>1
        <5> QED  BY <5>1
      <4>2. CASE i < m
        <5>1. m - 1 \in 1..(Len(u.tabs) - 1) /\ old(m - 1) = m
          BY <1>1, <2>2, <4>2
        <5> QED  BY <5>1
      <4> QED  BY <1>1, <2>2, <3>1, <4>1, <4>2
    <3> QED  BY <1>1, <2>4, <3>1
  <2> HIDE DEF old
  <2>8. ToSet(left) = {tab \in ToSet(u.tabs) : tab.id # id}
    <3>1. \A k \in DOMAIN left : left[k] \in ToSet(u.tabs) /\ left[k].id # id
      BY <1>1, <2>2, <2>5 DEF ToSet
    <3>2. \A m \in DOMAIN u.tabs : u.tabs[m].id # id => \E k \in DOMAIN left : left[k] = u.tabs[m]
      BY <1>1, <2>2, <2>5, <2>7
    <3> QED  BY <3>1, <3>2 DEF ToSet
  <2>9. \A k, m \in DOMAIN left : left[k].id = left[m].id => k = m
    BY <1>1, <2>5, <2>6
  <2>10. \A tab \in ToSet(left) : tab.id \in TabIds(left)
    BY DEF ToSet, TabIds
  <2>11. TabIds(left) = TabIds(u.tabs) \ {id}
    <3>1. \A s : TabIds(s) = {tab.id : tab \in ToSet(s)}
      BY DEF TabIds, ToSet
    <3> QED  BY <2>8, <3>1
  <2>12. IF left = <<>> THEN active = NoTab ELSE active \in TabIds(left)
    <3>1. CASE u.active = id
      <4>1. left # <<>> => (IF i = 1 THEN 1 ELSE i - 1) \in DOMAIN left
        BY <1>1, <2>2, <2>3, <2>4
      <4> QED  BY <3>1, <4>1 DEF FocusAfter, TabIds
    <3>2. CASE u.active # id
      <4>1. u.tabs # <<>> /\ u.active \in TabIds(u.tabs)
        BY <1>2, <1>4 DEF TabIds
      <4>2. u.active \in TabIds(left)
        BY <2>11, <3>2, <4>1
      <4> QED  BY <3>2, <4>2 DEF TabIds
    <3> QED  BY <3>1, <3>2
  <2>13. active \in {NoTab} \cup (1..MaxOpened)
    <3>1. \A tab \in Tab : tab.id \in 1..MaxOpened
      BY DEF Tab
    <3>2. \A k \in DOMAIN left : left[k].id \in 1..MaxOpened
      BY <1>1, <2>5, <3>1
    <3> QED  BY <2>12, <3>2 DEF TabIds
  <2> HIDE DEF active
  <2>14. held \in [Slot -> SUBSET (1..MaxOpened)] /\ \A x \in Slot : held[x] = u.held[x] \ {id}
    BY <1>1
  <2> HIDE DEF held
  <2>15. v \in Ui /\ v.tabs = left /\ v.active = active /\ v.held = held
    BY <2>1, <2>3, <2>13, <2>14 DEF Ui
  <2> HIDE DEF v
  <2>16. \A x \in Slot : held[x] \subseteq TabIds(left)
    BY <1>2, <2>11, <2>14
  <2>17. \A tab \in ToSet(left) :
           tab.id \in held["gridEdits"] \cup held["structureEdits"] => tab.kind = "table"
    BY <1>2, <2>8, <2>14 DEF Slot
  <2>18. Sound(v)
    BY <2>9, <2>12, <2>15, <2>16, <2>17 DEF Sound
  <2> QED  BY <2>8, <2>14, <2>15, <2>18 DEF v
<1> QED  BY <1>3, <1>4

\* Closing some tabs leaves the others, and what is kept for them.
LEMMA CloseTabsEffect ==
  ASSUME NEW u, Sound(u), NEW S, NEW ids \in Seq(S)
  PROVE  /\ Sound(CloseTabs(u, ids))
         /\ ToSet(CloseTabs(u, ids).tabs) = {tab \in ToSet(u.tabs) : tab.id \notin ToSet(ids)}
         /\ \A x \in Slot : CloseTabs(u, ids).held[x] = u.held[x] \ ToSet(ids)
<1> DEFINE N == Len(ids)
           upTo(n) == {ids[k] : k \in 1..n}
<1>1. N \in Nat /\ DOMAIN ids = 1..N /\ upTo(N) = ToSet(ids)
  BY DEF ToSet
<1>2. PICK f : /\ f = [n \in 0..N |-> IF n = 0 THEN u ELSE CloseTab(f[n - 1], ids[n])]
               /\ CloseTabs(u, ids) = f[N]
  BY <1>1, ClosedInTurn
<1>3. f[0] = u /\ \A n \in 0..(N - 1) : f[n + 1] = CloseTab(f[n], ids[n + 1])
  <2>1. 0 \in 0..N /\ \A n \in 0..(N - 1) : n + 1 \in 0..N /\ n + 1 # 0 /\ n + 1 - 1 = n
    BY <1>1
  <2> QED  BY <1>2, <2>1
<1> DEFINE Q(n) == /\ Sound(f[n])
                   /\ ToSet(f[n].tabs) = {tab \in ToSet(u.tabs) : tab.id \notin upTo(n)}
                   /\ \A x \in Slot : f[n].held[x] = u.held[x] \ upTo(n)
           G == {n \in 0..N : Q(n)}
<1>4. 0 \in G
  <2>1. upTo(0) = {}
    OBVIOUS
  <2> QED  BY <1>1, <1>3, <2>1
<1>5. ASSUME NEW n \in 0..(N - 1), n \in G PROVE n + 1 \in G
  <2>1. Q(n) /\ n + 1 \in 0..N
    BY <1>1, <1>5
  <2>2. upTo(n + 1) = upTo(n) \cup {ids[n + 1]}
    <3>1. 1..(n + 1) = (1..n) \cup {n + 1}
      BY <1>1
    <3> QED  BY <3>1
  <2> HIDE DEF upTo
  <2>3. /\ Sound(f[n + 1])
        /\ ToSet(f[n + 1].tabs) = {tab \in ToSet(f[n].tabs) : tab.id # ids[n + 1]}
        /\ \A x \in Slot : f[n + 1].held[x] = f[n].held[x] \ {ids[n + 1]}
    <3>1. Sound(f[n]) /\ f[n + 1] = CloseTab(f[n], ids[n + 1])
      BY <1>3, <2>1
    <3> QED  BY <3>1, CloseTabEffect
  <2>4. ToSet(f[n + 1].tabs) = {tab \in ToSet(u.tabs) : tab.id \notin upTo(n + 1)}
    BY <2>1, <2>2, <2>3
  <2>5. \A x \in Slot : f[n + 1].held[x] = u.held[x] \ upTo(n + 1)
    BY <2>1, <2>2, <2>3
  <2>6. Q(n + 1)
    BY <2>3, <2>4, <2>5
  <2> QED  BY <2>1, <2>6
<1>6. 0..N \subseteq G
  <2> HIDE DEF G
  <2> QED  BY <1>1, <1>4, <1>5, CountingUp
<1>7. Q(N)
  BY <1>1, <1>6
<1> QED  BY <1>1, <1>2, <1>7

-----------------------------------------------------------------------------
\* Two tabs of a strip show different things, where that is promised.
Apart(tab, other) ==
  /\ tab.kind = other.kind => tab.kind \notin SingletonKind
  /\ tab.kind = other.kind /\ tab.kind \in SubjectKind => tab.of # other.of
  /\ tab.kind = "sql" /\ other.kind = "sql" /\ tab.of # 0 => tab.of # other.of

\* The numbers of the query tabs were handed out, up to n.
Fits(u, n) ==
  /\ \A tab \in ToSet(u.tabs) : tab.kind = "sql" => tab.of \in 0..n
  /\ \A tab, other \in ToSet(u.tabs) : tab.id # other.id => Apart(tab, other)

RestTyped ==
  /\ closeRequest \in Seq(1..MaxOpened)
  /\ tables \subseteq Subject /\ applying \subseteq 1..MaxOpened
  /\ savingTab \in {NoTab} \cup (1..MaxOpened)

TabsInv ==
  /\ scope \in Scopes /\ activeStrip \in Strip /\ opened \in 0..MaxOpened
  /\ sqlCounters \in [Strip -> 0..opened]
  /\ RestTyped
  /\ DOMAIN ui = Strip
  /\ \A s \in Strip :
       Sound(ui[s]) /\ Fits(ui[s], sqlCounters[s]) /\ TabIds(ui[s].tabs) \subseteq 1..opened

\* Of a step: staged work goes only as it may.
LeavesAsked ==
  \A s \in Strip : \A id \in Unsaved(s) :
    HasTab(s, id) /\ ~HasTab(s, id)' =>
      \/ id \in ToSet(closeRequest) /\ closeRequest' = <<>>
      \/ TabOf(s, id).of \in tables \ tables'

\* The ids of a strip are those of its tabs.
LEMMA IdsOfTabs == \A s : TabIds(s) = {tab.id : tab \in ToSet(s)}
  BY DEF TabIds, ToSet

\* An action that changes the active strip, or no strip, keeps the others.
LEMMA PatchKeeps ==
  ASSUME TabsInv, NEW new, PatchActiveUi(new),
         Sound(new), Fits(new, sqlCounters'[activeStrip]), TabIds(new.tabs) \subseteq 1..opened',
         opened' \in 0..MaxOpened, opened <= opened', sqlCounters' \in [Strip -> 0..opened'],
         \A s \in Strip \ {activeStrip} : sqlCounters'[s] = sqlCounters[s],
         UNCHANGED <<scope, activeStrip>>, RestTyped'
  PROVE  TabsInv'
<1>1. \A s \in Strip : ui'[s] = IF s = activeStrip THEN new ELSE ui[s]
  BY DEF TabsInv, PatchActiveUi
<1>2. DOMAIN ui' = Strip
  BY DEF TabsInv, PatchActiveUi
<1>3. 1..opened \subseteq 1..opened'
  BY DEF TabsInv
<1>4. ASSUME NEW s \in Strip
      PROVE  Sound(ui'[s]) /\ Fits(ui'[s], sqlCounters'[s]) /\ TabIds(ui'[s].tabs) \subseteq 1..opened'
  BY <1>1, <1>3 DEF TabsInv
<1> QED  BY <1>2, <1>4 DEF TabsInv

LEMMA StillKeeps ==
  ASSUME TabsInv, UNCHANGED <<scope, ui, sqlCounters, opened>>, activeStrip' \in Strip, RestTyped'
  PROVE  TabsInv' /\ LeavesAsked
<1>1. TabsInv'
  BY DEF TabsInv
<1>2. LeavesAsked
  BY DEF LeavesAsked, HasTab
<1> QED  BY <1>1, <1>2

\* A strip whose tabs stay, but for their modes, with another focus or other entries.
Remade(u, v) ==
  /\ v \in Ui /\ DOMAIN v.tabs = DOMAIN u.tabs
  /\ \A i \in DOMAIN u.tabs : /\ v.tabs[i].id = u.tabs[i].id /\ v.tabs[i].kind = u.tabs[i].kind
                              /\ v.tabs[i].of = u.tabs[i].of
  /\ v.active = u.active \/ v.active \in TabIds(u.tabs)
  /\ \A x \in Slot : v.held[x] \subseteq TabIds(u.tabs)
  /\ \A x \in {"gridEdits", "structureEdits"} : \A i \in DOMAIN u.tabs :
       u.tabs[i].id \in v.held[x] \ u.held[x] => u.tabs[i].kind = "table"

LEMMA RemadeEffect ==
  ASSUME NEW u, Sound(u), NEW v, Remade(u, v)
  PROVE  Sound(v) /\ TabIds(v.tabs) = TabIds(u.tabs) /\ \A n : Fits(u, n) => Fits(v, n)
<1>1. /\ u \in Ui /\ v \in Ui /\ DOMAIN v.tabs = DOMAIN u.tabs /\ u.tabs \in Seq(Tab) /\ v.tabs \in Seq(Tab)
      /\ \A i \in DOMAIN u.tabs : /\ v.tabs[i].id = u.tabs[i].id /\ v.tabs[i].kind = u.tabs[i].kind
                                  /\ v.tabs[i].of = u.tabs[i].of
  BY DEF Sound, Remade, Ui
<1>2. TabIds(v.tabs) = TabIds(u.tabs)
  BY <1>1 DEF TabIds
<1>3. v.tabs = <<>> <=> u.tabs = <<>>
  BY <1>1
<1>4. Sound(v)
  <2>1. \A i, j \in DOMAIN v.tabs : v.tabs[i].id = v.tabs[j].id => i = j
    BY <1>1 DEF Sound
  <2>2. IF v.tabs = <<>> THEN v.active = NoTab ELSE v.active \in TabIds(v.tabs)
    <3>1. u.tabs = <<>> => TabIds(u.tabs) = {}
      BY DEF TabIds
    <3> QED  BY <1>2, <1>3, <3>1 DEF Sound, Remade
  <2>3. \A x \in Slot : v.held[x] \subseteq TabIds(v.tabs)
    BY <1>2 DEF Remade
  <2>4. \A i \in DOMAIN v.tabs :
          v.tabs[i].id \in v.held["gridEdits"] \cup v.held["structureEdits"] => v.tabs[i].kind = "table"
    BY <1>1 DEF Sound, Remade, ToSet
  <2> QED  BY <1>1, <2>1, <2>2, <2>3, <2>4 DEF Sound, ToSet
<1>5. ASSUME NEW n, Fits(u, n) PROVE Fits(v, n)
  <2>1. \A i \in DOMAIN u.tabs : u.tabs[i] \in ToSet(u.tabs)
    BY DEF ToSet
  <2>2. \A i, j \in DOMAIN u.tabs : u.tabs[i].id # u.tabs[j].id => Apart(v.tabs[i], v.tabs[j])
    BY <1>1, <1>5, <2>1 DEF Fits, Apart
  <2>3. \A i \in DOMAIN u.tabs : v.tabs[i].kind = "sql" => v.tabs[i].of \in 0..n
    BY <1>1, <1>5, <2>1 DEF Fits
  <2> QED  BY <1>1, <2>2, <2>3 DEF Fits, ToSet
<1> QED  BY <1>2, <1>4, <1>5

LEMMA RemadeKeeps ==
  ASSUME TabsInv, NEW v, Remade(Active, v), PatchActiveUi(v),
         UNCHANGED <<scope, activeStrip, sqlCounters, opened>>, RestTyped'
  PROVE  TabsInv' /\ LeavesAsked
<1>1. /\ Sound(Active) /\ Fits(Active, sqlCounters[activeStrip]) /\ TabIds(Active.tabs) \subseteq 1..opened
      /\ activeStrip \in Strip /\ opened \in 0..MaxOpened /\ sqlCounters \in [Strip -> 0..opened]
  BY DEF TabsInv, Active
<1>2. Sound(v) /\ TabIds(v.tabs) = TabIds(Active.tabs) /\ Fits(v, sqlCounters[activeStrip])
  BY <1>1, RemadeEffect
<1>3. TabsInv'
  BY <1>1, <1>2, PatchKeeps
<1>4. \A s \in Strip : TabIds(ui'[s].tabs) = TabIds(ui[s].tabs)
  BY <1>2 DEF TabsInv, PatchActiveUi, Active
<1> QED  BY <1>3, <1>4 DEF LeavesAsked, HasTab

\* A tab is put at the end of a strip and is focused; only its view may be kept with it.
Adds(u, tab, held) ==
  /\ tab \in Tab /\ tab.id \notin TabIds(u.tabs)
  /\ held \in [Slot -> SUBSET (1..MaxOpened)]
  /\ held["gridEdits"] = u.held["gridEdits"] /\ held["structureEdits"] = u.held["structureEdits"]
  /\ held["views"] \subseteq u.held["views"] \cup {tab.id}

Grown(u, tab, v) ==
  /\ Sound(v) /\ TabIds(v.tabs) = TabIds(u.tabs) \cup {tab.id}
  /\ ToSet(v.tabs) = ToSet(u.tabs) \cup {tab}

LEMMA AppendEffect ==
  ASSUME NEW u, Sound(u), NEW tab, NEW held, Adds(u, tab, held),
         NEW v, v = [tabs |-> Append(u.tabs, tab), active |-> tab.id, held |-> held]
  PROVE  Grown(u, tab, v)
<1>1. /\ u \in Ui /\ u.tabs \in Seq(Tab) /\ Len(u.tabs) \in Nat /\ DOMAIN u.tabs = 1..Len(u.tabs)
      /\ tab \in Tab /\ tab.id \in 1..MaxOpened
      /\ v.tabs = Append(u.tabs, tab) /\ v.active = tab.id /\ v.held = held
  BY DEF Sound, Ui, Adds, Tab
<1>2. v \in Ui
  BY <1>1 DEF Ui, Adds
<1>3. /\ Len(v.tabs) = Len(u.tabs) + 1 /\ DOMAIN v.tabs = 1..(Len(u.tabs) + 1)
      /\ v.tabs[Len(u.tabs) + 1] = tab /\ \A i \in 1..Len(u.tabs) : v.tabs[i] = u.tabs[i]
  BY <1>1
<1>4. ToSet(v.tabs) = ToSet(u.tabs) \cup {tab}
  <2>1. 1..(Len(u.tabs) + 1) = (1..Len(u.tabs)) \cup {Len(u.tabs) + 1}
    BY <1>1
  <2> QED  BY <1>1, <1>3, <2>1 DEF ToSet
<1>5. TabIds(v.tabs) = TabIds(u.tabs) \cup {tab.id}
  BY <1>4, IdsOfTabs
<1>6. \A i, j \in DOMAIN v.tabs : v.tabs[i].id = v.tabs[j].id => i = j
  <2>1. \A i \in 1..Len(u.tabs) : u.tabs[i].id # tab.id
    BY <1>1 DEF Adds, TabIds
  <2>2. \A i, j \in 1..Len(u.tabs) : u.tabs[i].id = u.tabs[j].id => i = j
    BY <1>1 DEF Sound
  <2>3. \A i \in DOMAIN v.tabs : i \in 1..Len(u.tabs) \/ i = Len(u.tabs) + 1
    BY <1>1, <1>3
  <2> QED  BY <1>3, <2>1, <2>2, <2>3
<1>7. v.tabs # <<>> /\ v.active \in TabIds(v.tabs)
  BY <1>1, <1>3, <1>5
<1>8. \A x \in Slot : v.held[x] \subseteq TabIds(v.tabs)
  <2>1. \A x \in Slot : u.held[x] \subseteq TabIds(u.tabs)
    BY DEF Sound
  <2> QED  BY <1>1, <1>5, <2>1 DEF Adds, Slot
<1>9. \A t \in ToSet(v.tabs) :
        t.id \in v.held["gridEdits"] \cup v.held["structureEdits"] => t.kind = "table"
  <2>1. \A x \in {"gridEdits", "structureEdits"} : v.held[x] \subseteq TabIds(u.tabs) /\ v.held[x] = u.held[x]
    BY <1>1 DEF Sound, Adds, Slot
  <2>2. tab.id \notin v.held["gridEdits"] \cup v.held["structureEdits"]
    BY <2>1 DEF Adds
  <2> QED  BY <1>4, <2>1, <2>2 DEF Sound
<1>10. Sound(v)
  BY <1>2, <1>6, <1>7, <1>8, <1>9 DEF Sound
<1> QED  BY <1>4, <1>5, <1>10 DEF Grown

\* What is opened shows what no tab of the strip shows.
LEMMA OpenNewKeeps ==
  ASSUME TabsInv, NEW kind, NEW of, NEW mode, NEW held, OpenNew(kind, of, mode, held),
         Adds(Active, NewTab(kind, of, mode), held),
         \A tab \in ToSet(Active.tabs) :
           Apart(tab, NewTab(kind, of, mode)) /\ Apart(NewTab(kind, of, mode), tab),
         sqlCounters' \in [Strip -> 0..(opened + 1)],
         \A s \in Strip \ {activeStrip} : sqlCounters'[s] = sqlCounters[s],
         sqlCounters[activeStrip] <= sqlCounters'[activeStrip],
         kind = "sql" => of \in 0..sqlCounters'[activeStrip]
  PROVE  TabsInv' /\ LeavesAsked
<1> DEFINE tab == NewTab(kind, of, mode)
           u == Active
           v == [tabs |-> Append(u.tabs, tab), active |-> opened + 1, held |-> held]
<1>1. /\ Sound(u) /\ Fits(u, sqlCounters[activeStrip]) /\ TabIds(u.tabs) \subseteq 1..opened
      /\ activeStrip \in Strip /\ opened \in 0..MaxOpened /\ sqlCounters \in [Strip -> 0..opened]
      /\ MaxOpened \in Nat /\ scope.opens \in 0..MaxOpened
  BY TabsAssumption DEF TabsInv, Active
<1>2. /\ opened' = opened + 1 /\ opened' \in 0..MaxOpened /\ opened <= opened'
      /\ PatchActiveUi(v) /\ UNCHANGED <<scope, activeStrip, closeRequest, tables, applying>>
      /\ savingTab' = NoTab
  BY <1>1 DEF OpenNew, Unmount
<1>3. tab.id = opened + 1 /\ tab.kind = kind /\ tab.of = of
  BY DEF NewTab
<1> HIDE DEF tab, u
<1>4. v = [tabs |-> Append(u.tabs, tab), active |-> tab.id, held |-> held]
  BY <1>3
<1> HIDE DEF v
<1>5. Sound(v) /\ TabIds(v.tabs) = TabIds(u.tabs) \cup {tab.id} /\ ToSet(v.tabs) = ToSet(u.tabs) \cup {tab}
  <2>1. Sound(u) /\ Adds(u, tab, held)
    BY <1>1 DEF u, tab
  <2>2. Grown(u, tab, v)
    BY <1>4, <2>1, AppendEffect
  <2> QED  BY <2>2 DEF Grown
<1>6. Fits(v, sqlCounters'[activeStrip])
  <2>1. \A t \in ToSet(u.tabs) : Apart(t, tab) /\ Apart(tab, t)
    BY DEF u, tab
  <2>2. \A one, other \in ToSet(v.tabs) : one.id # other.id => Apart(one, other)
    BY <1>1, <1>5, <2>1 DEF Fits
  <2>3. \A n \in 0..sqlCounters[activeStrip] : n \in 0..sqlCounters'[activeStrip]
    BY <1>1
  <2>4. \A t \in ToSet(v.tabs) : t.kind = "sql" => t.of \in 0..sqlCounters'[activeStrip]
    BY <1>1, <1>3, <1>5, <2>3 DEF Fits
  <2> QED  BY <2>2, <2>4 DEF Fits
<1>7. TabIds(v.tabs) \subseteq 1..opened'
  BY <1>1, <1>2, <1>3, <1>5
<1>8. RestTyped'
  BY <1>2 DEF TabsInv, RestTyped
<1>9. TabsInv'
  BY <1>2, <1>5, <1>6, <1>7, <1>8, PatchKeeps
<1>10. \A s \in Strip : TabIds(ui[s].tabs) \subseteq TabIds(ui'[s].tabs)
  BY <1>2, <1>5 DEF TabsInv, PatchActiveUi, Active, u
<1> QED  BY <1>9, <1>10 DEF LeavesAsked, HasTab

-----------------------------------------------------------------------------
\* What the active strip is.
LEMMA ActiveIsSound ==
  ASSUME TabsInv
  PROVE  /\ Sound(Active) /\ Active \in Ui /\ Active = ui[activeStrip]
         /\ Active.tabs \in Seq(Tab) /\ Len(Active.tabs) \in Nat /\ DOMAIN Active.tabs = 1..Len(Active.tabs)
         /\ Fits(Active, sqlCounters[activeStrip]) /\ TabIds(Active.tabs) \subseteq 1..opened
         /\ \A i, j \in DOMAIN Active.tabs : Active.tabs[i].id = Active.tabs[j].id => i = j
         /\ activeStrip \in Strip /\ opened \in 0..MaxOpened /\ MaxOpened \in Nat
         /\ sqlCounters \in [Strip -> 0..opened]
<1>1. /\ Sound(Active) /\ Active = ui[activeStrip] /\ Fits(Active, sqlCounters[activeStrip])
      /\ TabIds(Active.tabs) \subseteq 1..opened
      /\ activeStrip \in Strip /\ opened \in 0..MaxOpened /\ MaxOpened \in Nat
      /\ sqlCounters \in [Strip -> 0..opened]
  BY TabsAssumption DEF TabsInv, Active
<1>2. Active \in Ui /\ \A i, j \in DOMAIN Active.tabs : Active.tabs[i].id = Active.tabs[j].id => i = j
  BY <1>1 DEF Sound
<1>3. Active.tabs \in Seq(Tab)
  BY <1>2 DEF Ui
<1> QED  BY <1>1, <1>2, <1>3

\* The tab with an id is the only one.
LEMMA TabOfPlace ==
  ASSUME TabsInv, NEW s \in Strip, NEW i \in DOMAIN ui[s].tabs
  PROVE  TabOf(s, ui[s].tabs[i].id) = ui[s].tabs[i]
<1>1. Sound(ui[s])
  BY DEF TabsInv
<1>2. \A tab \in ToSet(ui[s].tabs) : tab.id = ui[s].tabs[i].id => tab = ui[s].tabs[i]
  BY <1>1 DEF Sound, ToSet
<1>3. ui[s].tabs[i] \in ToSet(ui[s].tabs)
  BY DEF ToSet
<1> QED  BY <1>2, <1>3 DEF TabOf

\* Another focus, a tab in another mode, other entries.
LEMMA FocusRemakes ==
  ASSUME NEW u, Sound(u), NEW id \in TabIds(u.tabs)
  PROVE  Remade(u, [u EXCEPT !.active = id])
<1>1. u \in Ui /\ u.tabs \in Seq(Tab) /\ \A x \in Slot : u.held[x] \subseteq TabIds(u.tabs)
  BY DEF Sound, Ui
<1>2. id \in 1..MaxOpened
  <2>1. \A tab \in Tab : tab.id \in 1..MaxOpened
    BY DEF Tab
  <2> QED  BY <1>1, <2>1 DEF TabIds
<1> DEFINE v == [u EXCEPT !.active = id]
<1>3. v.tabs = u.tabs /\ v.held = u.held /\ v.active = id /\ v \in Ui
  BY <1>1, <1>2 DEF Ui
<1> HIDE DEF v
<1>4. Remade(u, v)
  BY <1>1, <1>3 DEF Remade
<1> QED  BY <1>4 DEF v

LEMMA ModeRemakes ==
  ASSUME NEW u, Sound(u), NEW i \in DOMAIN u.tabs, NEW mode \in {"data", "structure"},
         NEW active \in {u.active, u.tabs[i].id},
         NEW held \in {u.held, [u.held EXCEPT !["views"] = @ \cup {u.tabs[i].id}]}
  PROVE  Remade(u, [tabs |-> [u.tabs EXCEPT ![i].mode = mode], active |-> active, held |-> held])
<1>1. /\ u \in Ui /\ u.tabs \in Seq(Tab) /\ \A x \in Slot : u.held[x] \subseteq TabIds(u.tabs)
      /\ u.held \in [Slot -> SUBSET (1..MaxOpened)] /\ u.active \in {NoTab} \cup (1..MaxOpened)
  BY DEF Sound, Ui
<1>2. u.tabs[i] \in Tab /\ u.tabs[i].id \in 1..MaxOpened /\ u.tabs[i].id \in TabIds(u.tabs)
  <2>1. u.tabs[i] \in Tab
    BY <1>1
  <2> QED  BY <2>1 DEF Tab, TabIds
<1> DEFINE tabs == [u.tabs EXCEPT ![i].mode = mode]
           v == [tabs |-> tabs, active |-> active, held |-> held]
<1>3. /\ DOMAIN tabs = DOMAIN u.tabs
      /\ \A j \in DOMAIN u.tabs : /\ tabs[j].id = u.tabs[j].id /\ tabs[j].kind = u.tabs[j].kind
                                  /\ tabs[j].of = u.tabs[j].of
      /\ tabs \in Seq(Tab)
  <2>1. [u.tabs[i] EXCEPT !.mode = mode] \in Tab
    BY <1>2 DEF Tab
  <2>2. tabs = [j \in DOMAIN u.tabs |-> IF j = i THEN [u.tabs[i] EXCEPT !.mode = mode] ELSE u.tabs[j]]
    BY <1>1
  <2>3. tabs \in Seq(Tab)
    BY <1>1, <2>1
  <2>4. LET t == [u.tabs[i] EXCEPT !.mode = mode]
        IN  t.id = u.tabs[i].id /\ t.kind = u.tabs[i].kind /\ t.of = u.tabs[i].of
    BY <1>2 DEF Tab
  <2> QED  BY <2>2, <2>3, <2>4
<1> HIDE DEF tabs
<1>4. active \in {NoTab} \cup (1..MaxOpened)
  BY <1>1, <1>2
<1>5. /\ held \in [Slot -> SUBSET (1..MaxOpened)]
      /\ \A x \in Slot : held[x] \subseteq TabIds(u.tabs)
      /\ \A x \in {"gridEdits", "structureEdits"} : held[x] = u.held[x]
  BY <1>1, <1>2 DEF Slot
<1>6. v \in Ui /\ v.tabs = tabs /\ v.active = active /\ v.held = held
  BY <1>3, <1>4, <1>5 DEF Ui
<1> HIDE DEF v
<1>7. v.active = u.active \/ v.active \in TabIds(u.tabs)
  BY <1>2, <1>6
<1>8. \A x \in {"gridEdits", "structureEdits"} : \A j \in DOMAIN u.tabs :
        u.tabs[j].id \in v.held[x] \ u.held[x] => u.tabs[j].kind = "table"
  BY <1>5, <1>6
<1>9. Remade(u, v)
  BY <1>3, <1>5, <1>6, <1>7, <1>8 DEF Remade
<1> QED  BY <1>9 DEF v, tabs

LEMMA HeldRemakes ==
  ASSUME NEW u, Sound(u), NEW held \in [Slot -> SUBSET (1..MaxOpened)],
         \A x \in Slot : held[x] \subseteq TabIds(u.tabs),
         \A x \in {"gridEdits", "structureEdits"} : \A i \in DOMAIN u.tabs :
           u.tabs[i].id \in held[x] \ u.held[x] => u.tabs[i].kind = "table"
  PROVE  Remade(u, [u EXCEPT !.held = held])
<1>1. u \in Ui
  BY DEF Sound
<1> DEFINE v == [u EXCEPT !.held = held]
<1>2. v.tabs = u.tabs /\ v.held = held /\ v.active = u.active /\ v \in Ui
  BY <1>1 DEF Ui
<1> HIDE DEF v
<1>3. Remade(u, v)
  BY <1>2 DEF Remade
<1> QED  BY <1>3 DEF v

-----------------------------------------------------------------------------
\* What a new tab is, and what may be kept with it.
LEMMA NewTabAdds ==
  ASSUME TabsInv, opened < scope.opens,
         NEW kind \in {"table", "sql"} \cup SingletonKind \cup SubjectKind,
         NEW of \in Subject \cup (0..MaxOpened), NEW mode \in {"data", "structure"},
         NEW held \in {Active.held, [Active.held EXCEPT !["views"] = @ \cup {opened + 1}]}
  PROVE  Adds(Active, NewTab(kind, of, mode), held)
<1>1. opened \in 0..MaxOpened /\ MaxOpened \in Nat /\ scope.opens \in 0..MaxOpened
  BY TabsAssumption DEF TabsInv
<1>2. opened + 1 \in 1..MaxOpened
  BY <1>1
<1>3. NewTab(kind, of, mode) \in Tab /\ NewTab(kind, of, mode).id = opened + 1
  BY <1>2 DEF NewTab, Tab
<1>4. opened + 1 \notin TabIds(Active.tabs) /\ Active \in Ui
  BY <1>1, ActiveIsSound
<1>5. Active.held \in [Slot -> SUBSET (1..MaxOpened)]
  BY <1>4 DEF Ui
<1>6. /\ held \in [Slot -> SUBSET (1..MaxOpened)]
      /\ held["gridEdits"] = Active.held["gridEdits"]
      /\ held["structureEdits"] = Active.held["structureEdits"]
      /\ held["views"] \subseteq Active.held["views"] \cup {opened + 1}
  BY <1>2, <1>5 DEF Slot
<1> QED  BY <1>3, <1>4, <1>6 DEF Adds

\* Focus-or-open: the first tab that shows it, or a new one when none does.
LEMMA OpenOnceKeeps ==
  ASSUME TabsInv, NEW kind \in SubjectKind \cup SingletonKind, NEW of \in Subject \cup {0},
         OpenOnce(kind, of)
  PROVE  TabsInv' /\ LeavesAsked
<1> DEFINE shown == {i \in DOMAIN Active.tabs : Matches(Active.tabs[i], kind, of)}
           first == CHOOSE i \in shown : \A j \in shown : i <= j
           id == Active.tabs[first].id
<1>1. /\ Sound(Active) /\ DOMAIN Active.tabs = 1..Len(Active.tabs)
      /\ MaxOpened \in Nat /\ opened \in 0..MaxOpened /\ sqlCounters \in [Strip -> 0..opened]
      /\ activeStrip \in Strip
  BY ActiveIsSound
<1>2. CASE shown # {} /\ PatchActiveUi([Active EXCEPT !.active = id])
           /\ Unmount /\ UNCHANGED <<scope, activeStrip, opened, closeRequest, tables, applying, sqlCounters>>
  <2>1. first \in DOMAIN Active.tabs
    <3>1. shown \in SUBSET Nat
      BY <1>1
    <3>2. \E i \in shown : \A j \in shown : i <= j
      BY <1>2, <3>1, LeastExists
    <3> QED  BY <3>2
  <2> HIDE DEF first
  <2>2. id \in TabIds(Active.tabs)
    BY <2>1 DEF TabIds
  <2>3. Remade(Active, [Active EXCEPT !.active = id])
    BY <1>1, <2>2, FocusRemakes
  <2>4. RestTyped'
    BY <1>2 DEF TabsInv, RestTyped, Unmount
  <2> QED  BY <1>2, <2>3, <2>4, RemadeKeeps
<1>3. CASE shown = {} /\ OpenNew(kind, of, "data", Active.held) /\ UNCHANGED sqlCounters
  <2>1. Adds(Active, NewTab(kind, of, "data"), Active.held)
    <3>1. opened < scope.opens /\ of \in Subject \cup (0..MaxOpened)
      BY <1>1, <1>3 DEF OpenNew
    <3> QED  BY <3>1, NewTabAdds
  <2>2. \A tab \in ToSet(Active.tabs) : ~Matches(tab, kind, of)
    BY <1>3 DEF ToSet
  <2>3. kind # "sql"
    BY DEF SubjectKind, SingletonKind
  <2>4. \A tab \in ToSet(Active.tabs) :
          Apart(tab, NewTab(kind, of, "data")) /\ Apart(NewTab(kind, of, "data"), tab)
    BY <2>2, <2>3 DEF Apart, Matches, NewTab
  <2>5. /\ sqlCounters' \in [Strip -> 0..(opened + 1)] /\ sqlCounters' = sqlCounters
        /\ sqlCounters[activeStrip] <= sqlCounters'[activeStrip]
    BY <1>1, <1>3
  <2> QED  BY <1>3, <2>1, <2>3, <2>4, <2>5, OpenNewKeeps
<1> QED  BY <1>2, <1>3 DEF OpenOnce

\* A table, in the tab that shows it or in one of its own.
LEMMA OpenTableKeeps ==
  ASSUME TabsInv, NEW subject \in Subject, NEW mode \in {"data", "structure"},
         NEW newTab \in BOOLEAN, NEW seeded \in BOOLEAN, OpenTableTab(subject, mode, newTab, seeded)
  PROVE  TabsInv' /\ LeavesAsked
<1> DEFINE i == IF newTab THEN 0 ELSE FindTableTab(subject)
           brings(id) == IF seeded THEN [Active.held EXCEPT !["views"] = @ \cup {id}] ELSE Active.held
           id == Active.tabs[i].id
<1>1. /\ Sound(Active) /\ DOMAIN Active.tabs = 1..Len(Active.tabs)
      /\ MaxOpened \in Nat /\ opened \in 0..MaxOpened /\ sqlCounters \in [Strip -> 0..opened]
      /\ activeStrip \in Strip
  BY ActiveIsSound
<1>2. i = 0 \/ i \in DOMAIN Active.tabs
  <2> DEFINE shown == {j \in DOMAIN Active.tabs : Matches(Active.tabs[j], "table", subject)}
             focused == {j \in shown : Active.tabs[j].id = Active.active}
  <2>1. focused # {} => (CHOOSE j \in focused : TRUE) \in DOMAIN Active.tabs
    OBVIOUS
  <2>2. shown # {} => (CHOOSE j \in shown : \A k \in shown : j <= k) \in DOMAIN Active.tabs
    <3>1. shown \in SUBSET Nat
      BY <1>1
    <3>2. shown # {} => \E j \in shown : \A k \in shown : j <= k
      BY <3>1, LeastExists
    <3> QED  BY <3>2
  <2> QED  BY <2>1, <2>2 DEF FindTableTab
<1> HIDE DEF i
<1>3. CASE i = 0
  <2>1. OpenNew("table", subject, mode, brings(opened + 1)) /\ UNCHANGED sqlCounters
    BY <1>3 DEF OpenTableTab, i
  <2>2. Adds(Active, NewTab("table", subject, mode), brings(opened + 1))
    <3>1. opened < scope.opens
      BY <2>1 DEF OpenNew
    <3> QED  BY <3>1, NewTabAdds
  <2>3. \A tab \in ToSet(Active.tabs) :
          Apart(tab, NewTab("table", subject, mode)) /\ Apart(NewTab("table", subject, mode), tab)
    BY DEF Apart, NewTab, SingletonKind, SubjectKind
  <2>4. /\ sqlCounters' \in [Strip -> 0..(opened + 1)] /\ sqlCounters' = sqlCounters
        /\ sqlCounters[activeStrip] <= sqlCounters'[activeStrip]
    BY <1>1, <2>1
  <2> QED  BY <2>1, <2>2, <2>3, <2>4, OpenNewKeeps
<1>4. CASE i \in DOMAIN Active.tabs
  <2> DEFINE v == [tabs |-> [Active.tabs EXCEPT ![i].mode = mode], active |-> id, held |-> brings(id)]
  <2>1. /\ PatchActiveUi(v)
        /\ savingTab' = IF id = Active.active /\ mode = "data" THEN savingTab ELSE NoTab
        /\ UNCHANGED <<scope, activeStrip, opened, closeRequest, tables, applying, sqlCounters>>
    <3>1. i # 0
      BY <1>1, <1>4
    <3> QED  BY <3>1 DEF OpenTableTab, i
  <2>2. Remade(Active, v)
    BY <1>1, <1>4, ModeRemakes
  <2>3. RestTyped'
    BY <2>1 DEF TabsInv, RestTyped
  <2> HIDE DEF v
  <2> QED  BY <2>1, <2>2, <2>3, RemadeKeeps
<1> QED  BY <1>2, <1>3, <1>4

\* A query tab, with the next number or with a name of its own.
LEMMA OpenSqlKeeps ==
  ASSUME TabsInv, NEW named \in BOOLEAN, OpenSqlTab(named)
  PROVE  TabsInv' /\ LeavesAsked
<1> DEFINE n == sqlCounters[activeStrip] + 1
           of == IF named THEN 0 ELSE n
           tab == NewTab("sql", of, "data")
<1>1. /\ Sound(Active) /\ MaxOpened \in Nat /\ opened \in 0..MaxOpened
      /\ sqlCounters \in [Strip -> 0..opened] /\ activeStrip \in Strip
      /\ Fits(Active, sqlCounters[activeStrip])
  BY ActiveIsSound
<1>2. /\ sqlCounters' = [sqlCounters EXCEPT ![activeStrip] = n]
      /\ OpenNew("sql", of, "data", Active.held)
  BY DEF OpenSqlTab
<1>3. opened < scope.opens /\ scope.opens \in 0..MaxOpened
  BY <1>2, TabsAssumption DEF OpenNew, TabsInv
<1>4. /\ sqlCounters' \in [Strip -> 0..(opened + 1)] /\ sqlCounters'[activeStrip] = n
      /\ \A s \in Strip \ {activeStrip} : sqlCounters'[s] = sqlCounters[s]
      /\ sqlCounters[activeStrip] <= n /\ n \in 1..MaxOpened
  BY <1>1, <1>2, <1>3
<1>5. of \in 0..n /\ of \in Subject \cup (0..MaxOpened)
  BY <1>1, <1>4
<1>6. \A t \in ToSet(Active.tabs) : Apart(t, tab) /\ Apart(tab, t)
  <2>1. tab.kind = "sql" /\ tab.of = of
    BY DEF NewTab
  <2>2. \A t \in ToSet(Active.tabs) : t.kind = "sql" => t.of \in 0..(n - 1)
    BY <1>1 DEF Fits
  <2>3. of = 0 \/ of = n
    OBVIOUS
  <2>4. n \notin 0..(n - 1) /\ "sql" \notin SingletonKind \cup SubjectKind
    BY <1>4 DEF SingletonKind, SubjectKind
  <2> QED  BY <2>1, <2>2, <2>3, <2>4 DEF Apart
<1> HIDE DEF of, n
<1>7. Adds(Active, tab, Active.held)
  BY <1>3, <1>5, NewTabAdds
<1> QED  BY <1>2, <1>4, <1>5, <1>6, <1>7, OpenNewKeeps

-----------------------------------------------------------------------------
LEMMA SetActiveTabKeeps ==
  ASSUME TabsInv, NEW id, SetActiveTab(id)
  PROVE  TabsInv' /\ LeavesAsked
<1>1. id \in TabIds(Active.tabs) /\ Sound(Active)
  BY ActiveIsSound DEF SetActiveTab, HasTab
<1>2. Remade(Active, [Active EXCEPT !.active = id])
  BY <1>1, FocusRemakes
<1>3. RestTyped'
  BY DEF SetActiveTab, Unmount, TabsInv, RestTyped
<1> QED  BY <1>2, <1>3, RemadeKeeps DEF SetActiveTab

LEMMA SetModeKeeps ==
  ASSUME TabsInv, NEW mode \in {"data", "structure"}, SetTableTabMode(mode)
  PROVE  TabsInv' /\ LeavesAsked
<1> DEFINE i == CHOOSE i \in DOMAIN Active.tabs : Active.tabs[i].id = Active.active
           v == [tabs |-> [Active.tabs EXCEPT ![i].mode = mode], active |-> Active.active,
                 held |-> Active.held]
<1>1. Sound(Active) /\ Active \in Ui
  BY ActiveIsSound
<1>2. i \in DOMAIN Active.tabs
  <2>1. Active.active # NoTab
    BY DEF SetTableTabMode
  <2>2. Active.active \in TabIds(Active.tabs)
    BY <1>1, <2>1 DEF Sound
  <2> QED  BY <2>2 DEF TabIds
<1> HIDE DEF i
<1>3. [Active EXCEPT !.tabs[i].mode = mode] = v
  <2>1. [Active EXCEPT !.tabs = [Active.tabs EXCEPT ![i].mode = mode]] = v
    <3>1. ASSUME NEW u \in Ui, NEW tabs
          PROVE  [u EXCEPT !.tabs = tabs] = [tabs |-> tabs, active |-> u.active, held |-> u.held]
      BY DEF Ui
    <3> QED  BY <1>1, <3>1
  <2>2. [Active EXCEPT !.tabs[i].mode = mode]
          = [Active EXCEPT !.tabs = [Active.tabs EXCEPT ![i].mode = mode]]
    OBVIOUS
  <2> QED  BY <2>1, <2>2
<1>4. /\ PatchActiveUi([Active EXCEPT !.tabs[i].mode = mode])
      /\ Unmount /\ UNCHANGED <<scope, activeStrip, sqlCounters, opened, closeRequest, tables, applying>>
  BY DEF SetTableTabMode, i
<1>5. Remade(Active, v)
  BY <1>1, <1>2, ModeRemakes
<1> HIDE DEF v
<1>6. RestTyped'
  BY <1>4 DEF Unmount, TabsInv, RestTyped
<1> QED  BY <1>3, <1>4, <1>5, <1>6, RemadeKeeps

\* An entry put in for a tab on screen, or taken out.
LEMMA SetHeldKeeps ==
  ASSUME TabsInv, NEW slot \in Slot, NEW id, NEW present \in BOOLEAN, SetHeld(slot, id, present),
         present => \E i \in DOMAIN Active.tabs : Active.tabs[i].id = id /\ Active.tabs[i].kind = "table",
         UNCHANGED <<scope, activeStrip, sqlCounters, opened>>, RestTyped'
  PROVE  TabsInv' /\ LeavesAsked
<1> DEFINE held == [Active.held EXCEPT ![slot] = IF present THEN @ \cup {id} ELSE @ \ {id}]
<1>1. /\ Sound(Active) /\ Active \in Ui /\ Active.tabs \in Seq(Tab)
      /\ \A i, j \in DOMAIN Active.tabs : Active.tabs[i].id = Active.tabs[j].id => i = j
  BY ActiveIsSound
<1>2. Active.held \in [Slot -> SUBSET (1..MaxOpened)] /\ \A x \in Slot : Active.held[x] \subseteq TabIds(Active.tabs)
  BY <1>1 DEF Sound, Ui
<1>3. present => id \in TabIds(Active.tabs) /\ id \in 1..MaxOpened
  <2>1. \A tab \in Tab : tab.id \in 1..MaxOpened
    BY DEF Tab
  <2> QED  BY <1>1, <2>1 DEF TabIds
<1>4. /\ held \in [Slot -> SUBSET (1..MaxOpened)]
      /\ \A x \in Slot : held[x] \subseteq Active.held[x] \cup (IF present THEN {id} ELSE {})
  BY <1>2, <1>3
<1>5. [Active EXCEPT !.held[slot] = IF present THEN @ \cup {id} ELSE @ \ {id}]
        = [Active EXCEPT !.held = held]
  BY <1>1 DEF Ui
<1> HIDE DEF held
<1>6. \A x \in Slot : held[x] \subseteq TabIds(Active.tabs)
  BY <1>2, <1>3, <1>4
<1>7. \A x \in {"gridEdits", "structureEdits"} : \A i \in DOMAIN Active.tabs :
        Active.tabs[i].id \in held[x] \ Active.held[x] => Active.tabs[i].kind = "table"
  BY <1>1, <1>4 DEF Slot
<1>8. Remade(Active, [Active EXCEPT !.held = held])
  BY <1>1, <1>4, <1>6, <1>7, HeldRemakes
<1>9. PatchActiveUi([Active EXCEPT !.held = held])
  BY <1>5 DEF SetHeld
<1> QED  BY <1>8, <1>9, RemadeKeeps

\* The tab on screen, when it shows a table.
LEMMA ShownIsATable ==
  ASSUME TabsInv, NEW mode, Showing(mode)
  PROVE  /\ \E i \in DOMAIN Active.tabs : Active.tabs[i].id = Active.active /\ Active.tabs[i].kind = "table"
         /\ Active.active \in 1..MaxOpened
<1>1. Sound(Active) /\ Active.active # NoTab /\ Active = ui[activeStrip] /\ activeStrip \in Strip
  BY ActiveIsSound DEF Showing
<1>2. PICK i \in DOMAIN Active.tabs : Active.tabs[i].id = Active.active
  BY <1>1 DEF Sound, TabIds
<1>3. TabOf(activeStrip, Active.active) = Active.tabs[i]
  BY <1>1, <1>2, TabOfPlace
<1>4. Active.tabs[i].kind = "table"
  BY <1>3 DEF Showing
<1>5. Active.active \in 1..MaxOpened
  BY <1>1 DEF Sound, Ui
<1> QED  BY <1>2, <1>4, <1>5

\* What a mounted table tab, or a late answer, writes to the slots.
LEMMA EditKeeps ==
  ASSUME TabsInv,
         \/ \E slot \in Slot, present \in BOOLEAN : EditTable(slot, present)
         \/ \E present \in BOOLEAN : EditStructure(present)
         \/ GridSaved
         \/ \E id \in 1..opened : StructureApplied(id)
  PROVE  TabsInv' /\ LeavesAsked
<1>1. /\ closeRequest \in Seq(1..MaxOpened) /\ tables \subseteq Subject /\ applying \subseteq 1..MaxOpened
      /\ savingTab \in {NoTab} \cup (1..MaxOpened)
  BY DEF TabsInv, RestTyped
<1>2. ASSUME NEW slot \in Slot, NEW present \in BOOLEAN, EditTable(slot, present) PROVE TabsInv' /\ LeavesAsked
  <2>1. \E i \in DOMAIN Active.tabs : Active.tabs[i].id = Active.active /\ Active.tabs[i].kind = "table"
    BY <1>2, ShownIsATable DEF EditTable
  <2>2. RestTyped'
    BY <1>1, <1>2 DEF EditTable, RestTyped
  <2> QED  BY <1>2, <2>1, <2>2, SetHeldKeeps DEF EditTable
<1>3. ASSUME NEW present \in BOOLEAN, EditStructure(present) PROVE TabsInv' /\ LeavesAsked
  <2>1. \E i \in DOMAIN Active.tabs : Active.tabs[i].id = Active.active /\ Active.tabs[i].kind = "table"
    BY <1>3, ShownIsATable DEF EditStructure
  <2>2. RestTyped'
    BY <1>1, <1>3 DEF EditStructure, RestTyped
  <2>3. "structureEdits" \in Slot
    BY DEF Slot
  <2> QED  BY <1>3, <2>1, <2>2, <2>3, SetHeldKeeps DEF EditStructure
<1>4. ASSUME GridSaved PROVE TabsInv' /\ LeavesAsked
  <2>1. RestTyped'
    BY <1>1, <1>4 DEF GridSaved, RestTyped
  <2>2. "gridEdits" \in Slot
    BY DEF Slot
  <2> QED  BY <1>4, <2>1, <2>2, SetHeldKeeps DEF GridSaved
<1>5. ASSUME NEW id \in 1..opened, StructureApplied(id) PROVE TabsInv' /\ LeavesAsked
  <2>1. RestTyped'
    BY <1>1, <1>5 DEF StructureApplied, RestTyped
  <2>2. "structureEdits" \in Slot
    BY DEF Slot
  <2> QED  BY <1>5, <2>1, <2>2, SetHeldKeeps DEF StructureApplied
<1> QED  BY <1>2, <1>3, <1>4, <1>5

LEMMA DiscardKeeps ==
  ASSUME TabsInv, DiscardAll
  PROVE  TabsInv' /\ LeavesAsked
<1> DEFINE drop(x) == IF x \in {"gridEdits", "structureEdits"}
                      THEN Active.held[x] \ Unsaved(activeStrip) ELSE Active.held[x]
           held == [x \in Slot |-> drop(x)]
<1>1. Sound(Active) /\ Active.held \in [Slot -> SUBSET (1..MaxOpened)]
      /\ \A x \in Slot : Active.held[x] \subseteq TabIds(Active.tabs)
  BY ActiveIsSound DEF Sound, Ui
<1>2. held \in [Slot -> SUBSET (1..MaxOpened)] /\ \A x \in Slot : held[x] \subseteq Active.held[x]
  BY <1>1
<1>3. /\ PatchActiveUi([Active EXCEPT !.held = held])
      /\ UNCHANGED <<scope, activeStrip, sqlCounters, opened, closeRequest, tables, applying, savingTab>>
  BY DEF DiscardAll
<1> HIDE DEF held
<1>4. /\ \A x \in Slot : held[x] \subseteq TabIds(Active.tabs)
      /\ \A x \in {"gridEdits", "structureEdits"} : \A i \in DOMAIN Active.tabs :
           Active.tabs[i].id \in held[x] \ Active.held[x] => Active.tabs[i].kind = "table"
  BY <1>1, <1>2 DEF Slot
<1>5. Remade(Active, [Active EXCEPT !.held = held])
  BY <1>1, <1>2, <1>4, HeldRemakes
<1>6. RestTyped'
  BY <1>3 DEF TabsInv, RestTyped
<1> QED  BY <1>3, <1>5, <1>6, RemadeKeeps

\* What leaves every strip as it is.
LEMMA NoStripChangeKeeps ==
  ASSUME TabsInv,
         \/ \E s \in Strip : SetActiveStrip(s)
         \/ SaveGrid \/ ApplyStructure \/ CancelClose
         \/ \E id \in 1..opened : StructureRefused(id)
         \/ UNCHANGED tabsVars
  PROVE  TabsInv' /\ LeavesAsked
<1>1. /\ closeRequest \in Seq(1..MaxOpened) /\ tables \subseteq Subject /\ applying \subseteq 1..MaxOpened
      /\ savingTab \in {NoTab} \cup (1..MaxOpened) /\ activeStrip \in Strip
      /\ <<>> \in Seq(1..MaxOpened)
  BY DEF TabsInv, RestTyped
<1>2. ASSUME NEW s \in Strip, SetActiveStrip(s) PROVE TabsInv' /\ LeavesAsked
  BY <1>1, <1>2, StillKeeps DEF SetActiveStrip, RestTyped, Unmount
<1>3. ASSUME SaveGrid PROVE TabsInv' /\ LeavesAsked
  <2>1. Active.active \in 1..MaxOpened
    BY <1>3, ShownIsATable DEF SaveGrid
  <2>2. RestTyped' /\ UNCHANGED <<scope, ui, activeStrip, sqlCounters, opened>>
    BY <1>1, <1>3, <2>1 DEF SaveGrid, RestTyped
  <2> QED  BY <1>1, <2>2, StillKeeps
<1>4. ASSUME ApplyStructure PROVE TabsInv' /\ LeavesAsked
  <2>1. Active.active \in 1..MaxOpened
    BY <1>4, ShownIsATable DEF ApplyStructure
  <2>2. RestTyped' /\ UNCHANGED <<scope, ui, activeStrip, sqlCounters, opened>>
    BY <1>1, <1>4, <2>1 DEF ApplyStructure, RestTyped
  <2> QED  BY <1>1, <2>2, StillKeeps
<1>5. ASSUME CancelClose PROVE TabsInv' /\ LeavesAsked
  BY <1>1, <1>5, StillKeeps DEF CancelClose, RestTyped
<1>6. ASSUME NEW id \in 1..opened, StructureRefused(id) PROVE TabsInv' /\ LeavesAsked
  BY <1>1, <1>6, StillKeeps DEF StructureRefused, RestTyped
<1>7. ASSUME UNCHANGED tabsVars PROVE TabsInv' /\ LeavesAsked
  BY <1>1, <1>7, StillKeeps DEF tabsVars, RestTyped
<1> QED  BY <1>2, <1>3, <1>4, <1>5, <1>6, <1>7

-----------------------------------------------------------------------------
\* Tabs of the active strip are closed: those with staged work as it may go.
LEMMA ClosedKeeps ==
  ASSUME TabsInv, NEW ids \in Seq(1..MaxOpened), Closed(ids),
         UNCHANGED <<scope, activeStrip, sqlCounters, opened>>,
         closeRequest' \in Seq(1..MaxOpened), tables' \subseteq Subject, applying' \subseteq 1..MaxOpened,
         \A id \in Unsaved(activeStrip) \cap ToSet(ids) :
           \/ id \in ToSet(closeRequest) /\ closeRequest' = <<>>
           \/ TabOf(activeStrip, id).of \in tables \ tables'
  PROVE  TabsInv' /\ LeavesAsked
<1> DEFINE v == CloseTabs(Active, ids)
<1>1. /\ Sound(Active) /\ Fits(Active, sqlCounters[activeStrip]) /\ TabIds(Active.tabs) \subseteq 1..opened
      /\ activeStrip \in Strip /\ opened \in 0..MaxOpened /\ sqlCounters \in [Strip -> 0..opened]
  BY ActiveIsSound
<1>2. Sound(v) /\ ToSet(v.tabs) = {tab \in ToSet(Active.tabs) : tab.id \notin ToSet(ids)}
  BY <1>1, CloseTabsEffect
<1>3. PatchActiveUi(v) /\ savingTab' \in {NoTab, savingTab}
  BY DEF Closed
<1> HIDE DEF v
<1>4. Fits(v, sqlCounters[activeStrip])
  BY <1>1, <1>2 DEF Fits
<1>5. TabIds(v.tabs) = TabIds(Active.tabs) \ ToSet(ids)
  BY <1>2, IdsOfTabs
<1>6. TabIds(v.tabs) \subseteq 1..opened
  BY <1>1, <1>5
<1>7. RestTyped'
  BY <1>3 DEF TabsInv, RestTyped
<1>8. TabsInv'
  BY <1>1, <1>2, <1>3, <1>4, <1>6, <1>7, PatchKeeps
<1>9. \A s \in Strip : ui'[s].tabs = IF s = activeStrip THEN v.tabs ELSE ui[s].tabs
  BY <1>3 DEF TabsInv, PatchActiveUi
<1>10. LeavesAsked
  <2> SUFFICES ASSUME NEW s \in Strip, NEW id \in Unsaved(s), HasTab(s, id), ~HasTab(s, id)'
               PROVE  \/ id \in ToSet(closeRequest) /\ closeRequest' = <<>>
                      \/ TabOf(s, id).of \in tables \ tables'
    BY DEF LeavesAsked
  <2>1. s = activeStrip
    BY <1>9 DEF HasTab
  <2>2. id \in ToSet(ids)
    BY <1>5, <1>9, <2>1 DEF HasTab, Active
  <2> QED  BY <2>1, <2>2
<1> QED  BY <1>8, <1>10

LEMMA RequestCloseKeeps ==
  ASSUME TabsInv, NEW ids \in Seq(1..MaxOpened), RequestClose(ids)
  PROVE  TabsInv' /\ LeavesAsked
<1>1. /\ closeRequest \in Seq(1..MaxOpened) /\ tables \subseteq Subject /\ applying \subseteq 1..MaxOpened
      /\ savingTab \in {NoTab} \cup (1..MaxOpened) /\ activeStrip \in Strip
  BY DEF TabsInv, RestTyped
<1>2. UNCHANGED <<scope, activeStrip, sqlCounters, opened, tables, applying>>
  BY DEF RequestClose
<1>3. CASE MustAsk(ids)
  <2>1. closeRequest' = ids /\ UNCHANGED <<ui, savingTab>>
    BY <1>3 DEF RequestClose
  <2>2. RestTyped'
    BY <1>1, <1>2, <2>1 DEF RestTyped
  <2> QED  BY <1>1, <1>2, <2>1, <2>2, StillKeeps
<1>4. CASE ~MustAsk(ids)
  <2>1. Closed(ids) /\ UNCHANGED closeRequest
    BY <1>4 DEF RequestClose
  <2>2. Unsaved(activeStrip) \cap ToSet(ids) = {}
    BY <1>4 DEF MustAsk
  <2> QED  BY <1>1, <1>2, <2>1, <2>2, ClosedKeeps
<1> QED  BY <1>3, <1>4

\* The ids of the active strip, in its order.
LEMMA IdsInOrder ==
  ASSUME TabsInv
  PROVE  /\ [i \in DOMAIN Active.tabs |-> Active.tabs[i].id] \in Seq(1..MaxOpened)
         /\ Len([i \in DOMAIN Active.tabs |-> Active.tabs[i].id]) = Len(Active.tabs)
<1>1. Active.tabs \in Seq(Tab) /\ Len(Active.tabs) \in Nat /\ DOMAIN Active.tabs = 1..Len(Active.tabs)
  BY ActiveIsSound
<1>2. \A tab \in Tab : tab.id \in 1..MaxOpened
  BY DEF Tab
<1>3. \A i \in 1..Len(Active.tabs) : Active.tabs[i].id \in 1..MaxOpened
  BY <1>1, <1>2
<1> QED  BY <1>1, <1>3

LEMMA CloseKeeps ==
  ASSUME TabsInv, CloseByKey \/ ConfirmClose \/ \E id \in 1..opened : CloseFromStrip(id)
  PROVE  TabsInv' /\ LeavesAsked
<1>1. /\ closeRequest \in Seq(1..MaxOpened) /\ tables \subseteq Subject /\ applying \subseteq 1..MaxOpened
      /\ opened \in 0..MaxOpened /\ MaxOpened \in Nat
  BY TabsAssumption DEF TabsInv, RestTyped
<1>2. ASSUME CloseByKey PROVE TabsInv' /\ LeavesAsked
  <2>1. Active.active \in 1..MaxOpened /\ RequestClose(<<Active.active>>)
    BY <1>2, ActiveIsSound DEF CloseByKey, Ui
  <2>2. <<Active.active>> \in Seq(1..MaxOpened)
    BY <2>1
  <2> QED  BY <2>1, <2>2, RequestCloseKeeps
<1>3. ASSUME ConfirmClose PROVE TabsInv' /\ LeavesAsked
  <2>1. /\ Closed(closeRequest) /\ closeRequest' = <<>>
        /\ UNCHANGED <<scope, activeStrip, sqlCounters, opened, tables, applying>>
    BY <1>3 DEF ConfirmClose
  <2>2. <<>> \in Seq(1..MaxOpened)
    OBVIOUS
  <2> QED  BY <1>1, <2>1, <2>2, ClosedKeeps
<1>4. ASSUME NEW id \in 1..opened, CloseFromStrip(id) PROVE TabsInv' /\ LeavesAsked
  <2> DEFINE ids == [i \in DOMAIN Active.tabs |-> Active.tabs[i].id]
             i == CHOOSE i \in DOMAIN ids : ids[i] = id
  <2>1. ids \in Seq(1..MaxOpened) /\ DOMAIN ids = DOMAIN Active.tabs /\ DOMAIN ids = 1..Len(ids)
    BY IdsInOrder
  <2>2. i \in 1..Len(ids)
    <3>1. PICK k \in DOMAIN Active.tabs : Active.tabs[k].id = id
      BY <1>4 DEF CloseFromStrip, HasTab, TabIds, Active
    <3>2. k \in DOMAIN ids /\ ids[k] = id
      BY <3>1
    <3>3. i \in DOMAIN ids
      <4> HIDE DEF ids
      <4> QED  BY <3>2
    <3> QED  BY <2>1, <3>3
  <2>3. PICK targets \in {<<id>>, RemoveAt(ids, i), SubSeq(ids, 1, i - 1), SubSeq(ids, i + 1, Len(ids))} :
          RequestClose(targets)
    BY <1>4 DEF CloseFromStrip
  <2> HIDE DEF i
  <2>4. targets \in Seq(1..MaxOpened)
    <3>1. ASSUME NEW s \in Seq(1..MaxOpened), NEW n \in 1..Len(s)
          PROVE  /\ RemoveAt(s, n) \in Seq(1..MaxOpened) /\ SubSeq(s, 1, n - 1) \in Seq(1..MaxOpened)
                 /\ SubSeq(s, n + 1, Len(s)) \in Seq(1..MaxOpened)
      <4>1. RemoveAt(s, n) \in Seq(1..MaxOpened)
        BY RemoveAtPlaces
      <4>2. ASSUME NEW S, NEW t \in Seq(S), NEW k \in 1..Len(t)
            PROVE  SubSeq(t, 1, k - 1) \in Seq(S) /\ SubSeq(t, k + 1, Len(t)) \in Seq(S)
        <5>1. SubSeq(t, 1, k - 1) \in Seq(S)
          OBVIOUS
        <5>2. SubSeq(t, k + 1, Len(t)) \in Seq(S)
          OBVIOUS
        <5> QED  BY <5>1, <5>2
      <4> QED  BY <4>1, <4>2
    <3>2. <<id>> \in Seq(1..MaxOpened)
      BY <1>1
    <3> HIDE DEF ids
    <3> QED  BY <2>1, <2>2, <2>3, <3>1, <3>2
  <2> QED  BY <2>3, <2>4, RequestCloseKeeps
<1> QED  BY <1>2, <1>3, <1>4

LEMMA DropKeeps ==
  ASSUME TabsInv, NEW subject \in Subject, DropTable(subject)
  PROVE  TabsInv' /\ LeavesAsked
<1> DEFINE ids == [i \in DOMAIN Active.tabs |-> Active.tabs[i].id]
           shows(id) == Matches(TabOf(activeStrip, id), "table", subject)
           all == OnlyIn(ids, {id \in ToSet(ids) : shows(id)})
<1>1. /\ closeRequest \in Seq(1..MaxOpened) /\ tables \subseteq Subject /\ applying \subseteq 1..MaxOpened
  BY DEF TabsInv, RestTyped
<1>2. /\ tables' = tables \ {subject} /\ subject \in tables
      /\ UNCHANGED <<scope, activeStrip, sqlCounters, opened, closeRequest, applying>>
  BY DEF DropTable
<1>3. \A id : shows(id) => TabOf(activeStrip, id).of \in tables \ tables'
  BY <1>2 DEF Matches, SingletonKind
<1>4. CASE Closed(all)
  <2>1. ids \in Seq(1..MaxOpened)
    BY IdsInOrder
  <2> HIDE DEF ids, shows
  <2>2. all \in Seq((1..MaxOpened) \cap {id \in ToSet(ids) : shows(id)})
    BY <2>1, OnlyInPlaces
  <2> HIDE DEF all
  <2>3. all \in Seq(1..MaxOpened) /\ \A id \in ToSet(all) : shows(id)
    <3>1. ASSUME NEW A, NEW B, NEW s \in Seq(A \cap B)
          PROVE  s \in Seq(A) /\ \A n \in DOMAIN s : s[n] \in B
      OBVIOUS
    <3>2. all \in Seq(1..MaxOpened) /\ \A n \in DOMAIN all : all[n] \in {id \in ToSet(ids) : shows(id)}
      BY <2>2, <3>1
    <3> QED  BY <3>2 DEF ToSet
  <2> QED  BY <1>1, <1>2, <1>3, <1>4, <2>3, ClosedKeeps
<1>5. CASE Active.active # NoTab /\ shows(Active.active) /\ Closed(<<Active.active>>)
  <2>1. Active.active \in 1..MaxOpened
    BY <1>5, ActiveIsSound DEF Ui
  <2>2. <<Active.active>> \in Seq(1..MaxOpened) /\ ToSet(<<Active.active>>) = {Active.active}
    BY <2>1 DEF ToSet
  <2> HIDE DEF shows
  <2> QED  BY <1>1, <1>2, <1>3, <1>5, <2>2, ClosedKeeps
<1> QED  BY <1>4, <1>5 DEF DropTable

\* A strip that comes back without some of its tabs and without staged work.
LEMMA RestoredEffect ==
  ASSUME NEW u, Sound(u), NEW T, OnlyIn(u.tabs, T) # <<>>, NEW v,
         v = [tabs |-> OnlyIn(u.tabs, T),
              active |-> IF u.active \in TabIds(OnlyIn(u.tabs, T)) THEN u.active
                         ELSE OnlyIn(u.tabs, T)[1].id,
              held |-> [x \in Slot |-> IF x = "views" THEN u.held[x] \cap TabIds(OnlyIn(u.tabs, T))
                                       ELSE {}]]
  PROVE  Sound(v) /\ ToSet(v.tabs) = ToSet(u.tabs) \cap T
<1> DEFINE tabs == OnlyIn(u.tabs, T)
<1>1. /\ u \in Ui /\ u.tabs \in Seq(Tab) /\ Len(u.tabs) \in Nat /\ DOMAIN u.tabs = 1..Len(u.tabs)
      /\ \A i, j \in DOMAIN u.tabs : u.tabs[i].id = u.tabs[j].id => i = j
      /\ u.held \in [Slot -> SUBSET (1..MaxOpened)]
  BY DEF Sound, Ui
<1>2. tabs \in Seq(Tab \cap T) /\ \E at : SelectedAt(at, u.tabs, T)
  BY <1>1, OnlyInPlaces
<1>3. PICK at : SelectedAt(at, u.tabs, T)
  BY <1>2
<1>4. /\ at \in [1..Len(tabs) -> 1..Len(u.tabs)]
      /\ \A n \in 1..Len(tabs) : u.tabs[at[n]] \in T /\ tabs[n] = u.tabs[at[n]]
      /\ \A m, n \in 1..Len(tabs) : m < n => at[m] < at[n]
      /\ \A i \in 1..Len(u.tabs) : u.tabs[i] \in T => \E n \in 1..Len(tabs) : at[n] = i
  BY <1>3 DEF SelectedAt
<1>5. tabs # <<>> /\ v.tabs = tabs
      /\ v.active = (IF u.active \in TabIds(tabs) THEN u.active ELSE tabs[1].id)
      /\ v.held = [x \in Slot |-> IF x = "views" THEN u.held[x] \cap TabIds(tabs) ELSE {}]
      /\ v = [tabs |-> v.tabs, active |-> v.active, held |-> v.held]
  OBVIOUS
<1> HIDE DEF tabs
<1>6. tabs \in Seq(Tab) /\ Len(tabs) \in Nat /\ DOMAIN tabs = 1..Len(tabs) /\ 1 \in DOMAIN tabs
  <2>1. ASSUME NEW A, NEW B, NEW s \in Seq(A \cap B)
        PROVE  s \in Seq(A) /\ Len(s) \in Nat /\ DOMAIN s = 1..Len(s)
    OBVIOUS
  <2>2. tabs \in Seq(Tab) /\ Len(tabs) \in Nat /\ DOMAIN tabs = 1..Len(tabs)
    BY <1>2, <2>1
  <2> QED  BY <1>5, <2>2
<1>7. \A m, n \in DOMAIN tabs : tabs[m].id = tabs[n].id => m = n
  <2> SUFFICES ASSUME NEW m \in 1..Len(tabs), NEW n \in 1..Len(tabs), tabs[m].id = tabs[n].id
               PROVE  m = n
    BY <1>6
  <2>1. at[m] = at[n] /\ at[m] \in Int
    <3>1. at[m] \in 1..Len(u.tabs) /\ at[n] \in 1..Len(u.tabs)
      BY <1>4
    <3>2. u.tabs[at[m]].id = u.tabs[at[n]].id
      BY <1>4
    <3> QED  BY <1>1, <3>1, <3>2
  <2>2. ~(m < n) /\ ~(n < m)
    BY <1>4, <2>1
  <2> QED  BY <1>6, <2>2
<1>8. ToSet(tabs) = ToSet(u.tabs) \cap T
  <2>1. \A n \in DOMAIN tabs : tabs[n] \in T /\ at[n] \in DOMAIN u.tabs /\ tabs[n] = u.tabs[at[n]]
    BY <1>1, <1>4, <1>6
  <2>2. ASSUME NEW i \in DOMAIN u.tabs, u.tabs[i] \in T PROVE \E n \in DOMAIN tabs : tabs[n] = u.tabs[i]
    <3>1. PICK n \in 1..Len(tabs) : at[n] = i
      BY <1>1, <1>4, <2>2
    <3>2. n \in DOMAIN tabs /\ tabs[n] = u.tabs[i]
      BY <1>4, <1>6, <3>1
    <3> QED  BY <3>2
  <2> QED  BY <2>1, <2>2 DEF ToSet
<1>9. TabIds(tabs) \subseteq 1..MaxOpened /\ tabs[1].id \in TabIds(tabs)
  <2>1. \A tab \in Tab : tab.id \in 1..MaxOpened
    BY DEF Tab
  <2> QED  BY <1>6, <2>1 DEF TabIds
<1>10. v.active \in TabIds(tabs) /\ v.active \in {NoTab} \cup (1..MaxOpened)
  BY <1>5, <1>9
<1>11. v.held \in [Slot -> SUBSET (1..MaxOpened)] /\ \A x \in Slot : v.held[x] \subseteq TabIds(tabs)
  BY <1>1, <1>5
<1>12. v.held["gridEdits"] = {} /\ v.held["structureEdits"] = {}
  BY <1>5 DEF Slot
<1>13. v \in Ui
  BY <1>5, <1>6, <1>10, <1>11 DEF Ui
<1>14. Sound(v)
  BY <1>5, <1>7, <1>10, <1>11, <1>12, <1>13 DEF Sound
<1> QED  BY <1>5, <1>8, <1>14

\* The counter goes on from the highest number that came back.
LEMMA HighestFits ==
  ASSUME NEW tabs, NEW n \in Nat, \A tab \in ToSet(tabs) : tab.kind = "sql" => tab.of \in 0..n
  PROVE  /\ HighestTitle(tabs) \in 0..n
         /\ \A tab \in ToSet(tabs) : tab.kind = "sql" => tab.of \in 0..HighestTitle(tabs)
<1> DEFINE numbers == {0} \cup {tab.of : tab \in {tab \in ToSet(tabs) : tab.kind = "sql"}}
<1>1. numbers \in SUBSET Nat /\ numbers # {} /\ \A k \in numbers : k <= n
  OBVIOUS
<1>2. \A tab \in ToSet(tabs) : tab.kind = "sql" => tab.of \in numbers
  OBVIOUS
<1>3. HighestTitle(tabs) = CHOOSE h \in numbers : \A k \in numbers : k <= h
  BY DEF HighestTitle
<1> HIDE DEF numbers
<1>4. HighestTitle(tabs) \in numbers /\ \A k \in numbers : k <= HighestTitle(tabs)
  <2>1. \E h \in numbers : \A k \in numbers : k <= h
    BY <1>1, GreatestExists
  <2> QED  BY <1>3, <2>1
<1>5. \A k \in numbers : k \in 0..HighestTitle(tabs)
  <2>1. HighestTitle(tabs) \in Nat
    BY <1>1, <1>4
  <2>2. \A k \in numbers : k \in Nat /\ k <= HighestTitle(tabs)
    BY <1>1, <1>4
  <2> QED  BY <2>1, <2>2
<1>6. HighestTitle(tabs) \in 0..n
  <2>1. HighestTitle(tabs) \in Nat /\ HighestTitle(tabs) <= n
    BY <1>1, <1>4
  <2> QED  BY <2>1
<1> QED  BY <1>2, <1>5, <1>6

LEMMA ReconnectKeeps ==
  ASSUME TabsInv, Reconnect
  PROVE  TabsInv' /\ LeavesAsked
<1> DEFINE T == {tab \in ToSet(Active.tabs) : tab.kind \in RestoredKind}
           tabs == OnlyIn(Active.tabs, T)
           v == [tabs |-> tabs,
                 active |-> IF Active.active \in TabIds(tabs) THEN Active.active ELSE tabs[1].id,
                 held |-> [x \in Slot |-> IF x = "views" THEN Active.held[x] \cap TabIds(tabs)
                                          ELSE {}]]
<1>1. /\ Sound(Active) /\ Fits(Active, sqlCounters[activeStrip]) /\ TabIds(Active.tabs) \subseteq 1..opened
      /\ activeStrip \in Strip /\ opened \in 0..MaxOpened /\ sqlCounters \in [Strip -> 0..opened]
  BY ActiveIsSound
<1>2. /\ tabs # <<>> /\ PatchActiveUi(v)
      /\ sqlCounters' = [sqlCounters EXCEPT ![activeStrip] = HighestTitle(tabs)]
      /\ closeRequest' = <<>> /\ savingTab' = NoTab
      /\ UNCHANGED <<scope, activeStrip, opened, tables, applying>>
  BY DEF Reconnect, Unmount
<1>3. Sound(v) /\ ToSet(v.tabs) = ToSet(Active.tabs) \cap T
  <2> HIDE DEF T
  <2> QED  BY <1>1, <1>2, RestoredEffect
<1>4. v.tabs = tabs
  OBVIOUS
<1>5. ToSet(tabs) = {tab \in ToSet(Active.tabs) : tab.kind \in RestoredKind}
  BY <1>3, <1>4
<1> HIDE DEF v, tabs, T
<1>6. /\ HighestTitle(tabs) \in 0..sqlCounters[activeStrip]
      /\ \A tab \in ToSet(tabs) : tab.kind = "sql" => tab.of \in 0..HighestTitle(tabs)
  <2>1. \A tab \in ToSet(tabs) : tab.kind = "sql" => tab.of \in 0..sqlCounters[activeStrip]
    BY <1>1, <1>5 DEF Fits
  <2>2. sqlCounters[activeStrip] \in Nat
    BY <1>1
  <2> QED  BY <2>1, <2>2, HighestFits
<1>7. /\ sqlCounters' \in [Strip -> 0..opened] /\ sqlCounters'[activeStrip] = HighestTitle(tabs)
      /\ \A s \in Strip \ {activeStrip} : sqlCounters'[s] = sqlCounters[s]
  BY <1>1, <1>2, <1>6
<1>8. Fits(v, sqlCounters'[activeStrip])
  BY <1>1, <1>4, <1>5, <1>6, <1>7 DEF Fits
<1>9. TabIds(v.tabs) \subseteq 1..opened
  <2>1. TabIds(v.tabs) \subseteq TabIds(Active.tabs)
    BY <1>4, <1>5, IdsOfTabs
  <2> QED  BY <1>1, <2>1
<1>10. RestTyped'
  <2>1. <<>> \in Seq(1..MaxOpened)
    OBVIOUS
  <2> QED  BY <1>2, <2>1 DEF TabsInv, RestTyped
<1>11. TabsInv'
  BY <1>1, <1>2, <1>3, <1>7, <1>8, <1>9, <1>10, PatchKeeps
<1>12. ASSUME NEW id \in Unsaved(activeStrip), id \in TabIds(Active.tabs) PROVE id \in TabIds(v.tabs)
  <2>1. PICK tab \in ToSet(Active.tabs) : tab.id = id
    BY <1>12, IdsOfTabs
  <2>2. id \in Active.held["gridEdits"] \cup Active.held["structureEdits"]
    BY DEF Unsaved, Active
  <2>3. tab.kind = "table"
    BY <1>1, <2>1, <2>2 DEF Sound
  <2>4. tab \in ToSet(v.tabs)
    BY <1>4, <1>5, <2>3 DEF RestoredKind
  <2> QED  BY <2>1, <2>4, IdsOfTabs
<1>13. \A s \in Strip : ui'[s].tabs = IF s = activeStrip THEN v.tabs ELSE ui[s].tabs
  BY <1>2 DEF TabsInv, PatchActiveUi
<1>14. LeavesAsked
  BY <1>12, <1>13 DEF LeavesAsked, HasTab, Active
<1> QED  BY <1>11, <1>14

-----------------------------------------------------------------------------
LEMMA TabsInvInit == TabsInit => TabsInv
<1> SUFFICES ASSUME TabsInit PROVE TabsInv
  OBVIOUS
<1> DEFINE u == [tabs |-> <<>>, active |-> NoTab, held |-> [x \in Slot |-> {}]]
<1>1. MaxOpened \in Nat
  BY TabsAssumption
<1>2. Sound(u) /\ TabIds(u.tabs) = {} /\ Fits(u, 0)
  <2>1. u \in Ui
    BY DEF Ui
  <2>2. TabIds(<<>>) = {} /\ ToSet(<<>>) = {}
    BY DEF TabIds, ToSet
  <2> QED  BY <2>1, <2>2 DEF Sound, Fits
<1>3. ui = [s \in Strip |-> u] /\ sqlCounters = [s \in Strip |-> 0] /\ opened = 0
  BY DEF TabsInit
<1> HIDE DEF u
<1>4. ASSUME NEW s \in Strip
      PROVE  Sound(ui[s]) /\ Fits(ui[s], sqlCounters[s]) /\ TabIds(ui[s].tabs) \subseteq 1..opened
  BY <1>2, <1>3
<1>5. RestTyped
  <2>1. <<>> \in Seq(1..MaxOpened) /\ {} \subseteq 1..MaxOpened
    OBVIOUS
  <2> QED  BY <2>1 DEF TabsInit, RestTyped
<1>6. /\ scope \in Scopes /\ activeStrip \in Strip /\ opened \in 0..MaxOpened
      /\ sqlCounters \in [Strip -> 0..opened] /\ DOMAIN ui = Strip
  <2>1. scope \in Scopes /\ activeStrip \in Strip
    BY DEF TabsInit
  <2> QED  BY <1>1, <1>3, <2>1
<1> QED  BY <1>4, <1>5, <1>6 DEF TabsInv

LEMMA TabsStep ==
  ASSUME TabsInv, [TabsNext]_tabsVars
  PROVE  TabsInv' /\ LeavesAsked
<1>1. ASSUME NEW x \in Subject,
             \/ OpenObjectTab(x) \/ OpenMapTab(x) \/ OpenBoardTab(x) \/ OpenObjExplorer(x)
             \/ OpenTableOverview(x) \/ OpenProcessesTab(x) \/ OpenPrivilegesTab(x)
      PROVE  TabsInv' /\ LeavesAsked
  <2>1. PICK kind \in SubjectKind \cup SingletonKind : OpenOnce(kind, x)
    BY <1>1 DEF OpenObjectTab, OpenMapTab, OpenBoardTab, OpenObjExplorer, OpenTableOverview,
                OpenProcessesTab, OpenPrivilegesTab, SubjectKind, SingletonKind
  <2> QED  BY <2>1, OpenOnceKeeps
<1>2. ASSUME OpenDiffTab PROVE TabsInv' /\ LeavesAsked
  <2>1. "diff" \in SubjectKind \cup SingletonKind /\ OpenOnce("diff", 0)
    BY <1>2 DEF OpenDiffTab, SingletonKind
  <2> QED  BY <2>1, OpenOnceKeeps
<1>3. ASSUME NEW x \in Subject, NEW mode \in {"data", "structure"}, NEW newTab \in BOOLEAN,
             NEW seeded \in BOOLEAN, OpenTableTab(x, mode, newTab, seeded)
      PROVE  TabsInv' /\ LeavesAsked
  BY <1>3, OpenTableKeeps
<1>4. ASSUME NEW x \in Subject, DropTable(x) PROVE TabsInv' /\ LeavesAsked
  BY <1>4, DropKeeps
<1>5. ASSUME NEW named \in BOOLEAN, OpenSqlTab(named) PROVE TabsInv' /\ LeavesAsked
  BY <1>5, OpenSqlKeeps
<1>6. ASSUME NEW id \in 1..opened, SetActiveTab(id) PROVE TabsInv' /\ LeavesAsked
  BY <1>6, SetActiveTabKeeps
<1>7. ASSUME NEW mode \in {"data", "structure"}, SetTableTabMode(mode) PROVE TabsInv' /\ LeavesAsked
  BY <1>7, SetModeKeeps
<1>8. ASSUME \/ \E slot \in Slot, present \in BOOLEAN : EditTable(slot, present)
             \/ \E present \in BOOLEAN : EditStructure(present)
             \/ GridSaved
             \/ \E id \in 1..opened : StructureApplied(id)
      PROVE  TabsInv' /\ LeavesAsked
  BY <1>8, EditKeeps
<1>9. ASSUME CloseByKey \/ ConfirmClose \/ \E id \in 1..opened : CloseFromStrip(id)
      PROVE  TabsInv' /\ LeavesAsked
  BY <1>9, CloseKeeps
<1>10. ASSUME \/ \E s \in Strip : SetActiveStrip(s)
              \/ SaveGrid \/ ApplyStructure \/ CancelClose
              \/ \E id \in 1..opened : StructureRefused(id)
              \/ UNCHANGED tabsVars
       PROVE  TabsInv' /\ LeavesAsked
  BY <1>10, NoStripChangeKeeps
<1>11. ASSUME DiscardAll PROVE TabsInv' /\ LeavesAsked
  BY <1>11, DiscardKeeps
<1>12. ASSUME Reconnect PROVE TabsInv' /\ LeavesAsked
  BY <1>12, ReconnectKeeps
<1> QED
  BY <1>1, <1>2, <1>3, <1>4, <1>5, <1>6, <1>7, <1>8, <1>9, <1>10, <1>11, <1>12 DEF TabsNext

\* Strips are well formed, and their numbers and subjects fit, after any order of opening,
\* closing, dropping, editing, saving and reconnecting.
THEOREM TabsInvariant == TabsSpec => []TabsInv
<1>1. TabsInv /\ [TabsNext]_tabsVars => TabsInv'
  BY TabsStep
<1> QED  BY TabsInvInit, <1>1, PTL DEF TabsSpec

\* What the invariant says of types.
LEMMA TabsInvTyped == ASSUME TabsInv PROVE TabsTypeOK
<1>1. ASSUME NEW s \in Strip
      PROVE  /\ \A tab \in ToSet(ui[s].tabs) : tab \in Tab
             /\ ui[s].active \in {NoTab} \cup (1..MaxOpened)
             /\ ui[s].held \in [Slot -> SUBSET (1..MaxOpened)]
  <2>1. ui[s] \in Ui
    BY DEF TabsInv, Sound
  <2>2. \A i \in DOMAIN ui[s].tabs : ui[s].tabs[i] \in Tab
    BY <2>1 DEF Ui
  <2> QED  BY <2>1, <2>2 DEF Ui, ToSet
<1>2. sqlCounters \in [Strip -> 0..MaxOpened] /\ opened \in 0..MaxOpened
  BY TabsAssumption DEF TabsInv
<1>3. ToSet(closeRequest) \subseteq 1..MaxOpened
  <2>1. closeRequest \in Seq(1..MaxOpened)
    BY DEF TabsInv, RestTyped
  <2>2. ASSUME NEW S, NEW s \in Seq(S) PROVE \A i \in DOMAIN s : s[i] \in S
    OBVIOUS
  <2> QED  BY <2>1, <2>2 DEF ToSet
<1> QED  BY <1>1, <1>2, <1>3 DEF TabsInv, RestTyped, TabsTypeOK

\* Every variable keeps its type.
THEOREM TabsTypeCorrect == TabsSpec => []TabsTypeOK
  BY TabsInvTyped, TabsInvariant, PTL

\* What the invariant says of the focus, and of what tabs show.
LEMMA TabsInvFocus == TabsInv => ActiveTabIsOpen
  BY DEF TabsInv, Sound, ActiveTabIsOpen, HasTab

LEMMA TabsInvApart == TabsInv => OnePerSubject /\ QueryTitlesDistinct
  BY DEF TabsInv, Fits, Apart, OnePerSubject, QueryTitlesDistinct

\* A strip with tabs has one of them on screen.
THEOREM FocusIsOnATab == TabsSpec => []ActiveTabIsOpen
  BY TabsInvFocus, TabsInvariant, PTL

\* What is kept by tab id is kept for a tab that is open.
THEOREM NothingHeldForClosedTabs == TabsSpec => []HeldByOpenTabs
<1>1. TabsInv => HeldByOpenTabs
  BY DEF TabsInv, Sound, HeldByOpenTabs
<1> QED  BY <1>1, TabsInvariant, PTL

\* No subject has two tabs, and no two query tabs have one number.
THEOREM TabsShowDifferentThings == TabsSpec => [](OnePerSubject /\ QueryTitlesDistinct)
  BY TabsInvApart, TabsInvariant, PTL

\* A tab with staged work goes only after the prompt that named it, with the table it shows,
\* or with its connection.
THEOREM StagedWorkIsSafe == TabsSpec => StagedWorkIsAskedFor
<1>1. TabsInv /\ [TabsNext]_tabsVars =>
        [\A s \in Strip : \A id \in Unsaved(s) :
           HasTab(s, id) /\ ~HasTab(s, id)' =>
             \/ id \in ToSet(closeRequest) /\ closeRequest' = <<>>
             \/ TabOf(s, id).of \in tables \ tables']_tabsVars
  BY TabsStep DEF LeavesAsked
<1> QED  BY <1>1, TabsInvariant, PTL DEF TabsSpec, StagedWorkIsAskedFor

-----------------------------------------------------------------------------
(* The run that drives one of them: each keeps its own invariant, and leaves   *)
(* the others' variables alone.                                                *)

QueryTabsInv == TabsInv /\ RunsInv /\ QueriesInv

LEMMA QueryTabsStart == Init => QueryTabsInv
  BY TabsInvInit, RunsInvInit, QueriesInitTyped DEF Init, QueryTabsInv

LEMMA QueryTabsStep == QueryTabsInv /\ [Next]_vars => QueryTabsInv'
<1> SUFFICES ASSUME TabsInv, RunsInv, QueriesInv, [Next]_vars
             PROVE  TabsInv' /\ RunsInv' /\ QueriesInv'
  BY DEF QueryTabsInv
<1>1. [TabsNext]_tabsVars /\ [RunsNext]_runsVars /\ [QueriesNext]_queriesVars
  BY DEF Next, vars
<1>2. TabsInv'
  BY <1>1, TabsStep
<1>3. RunsInv'
  BY <1>1, ResultsStep
<1>4. QueriesInv'
  BY <1>1, QueriesStep
<1>5. QED
  BY <1>2, <1>3, <1>4

\* Types, the focus on something that is open, one tab per subject, titles that differ,
\* nothing held for a tab that is gone, no text twice in a history: whichever of the parts is driven.
THEOREM QueryTabsRunIsWellFormed == Spec => []WellFormed
<1>1. TabsInv => HeldByOpenTabs
  BY DEF TabsInv, Sound, HeldByOpenTabs
<1>2. QueryTabsInv => WellFormed
  BY <1>1, TabsInvTyped, TabsInvFocus, TabsInvApart, RunsInvTyped, RunsInvFocus
  DEF QueryTabsInv, QueriesInv, WellFormed
<1>3. QED
  BY <1>2, QueryTabsStart, QueryTabsStep, PTL DEF Spec

-----------------------------------------------------------------------------
(* Pages. What was asked and read last is what the tab asks for; a page is *)
(* only settled when nothing of that is left.                              *)

\* What the argument needs of the types; the rest of them is PagesTypes below.
PagesShape ==
  /\ mounts \in 0..MaxMounts /\ mounted \in {0, mounts}
  /\ DOMAIN generation = 1..MaxMounts
  /\ DOMAIN requests = Request
  /\ \A q \in Request :
       /\ DOMAIN requests[q] = {"grid", "view", "answer", "read"}
       /\ requests[q].grid \in 0..mounts
  /\ version \in Nat /\ refetched \in 0..version

\* The newest load of the grid on screen is for the view the tab asks for, and once it was
\* read, as new as the last refetch.
NewestIsOfTheView ==
  mounted # 0 =>
    \A q \in Request : requests[q].grid = mounted /\ Newest(q) =>
      /\ requests[q].view = view
      /\ requests[q].read =>
           requests[q].answer.view = view /\ requests[q].answer.version >= refetched

PagesInv == PagesShape /\ NewestIsOfTheView /\ SettledPageIsTheView /\ LoadingEnds

\* What a load leaves: a request of its own for the grid on screen, which is its newest.
LEMMA FetchEffect ==
  ASSUME PagesShape, NEW v, Fetch(v), mounted' \in 1..MaxMounts
  PROVE  \E q \in Request :
           /\ DOMAIN requests' = Request /\ DOMAIN generation' = 1..MaxMounts
           /\ DOMAIN requests'[q] = {"grid", "view", "answer", "read"}
           /\ requests'[q].grid = mounted' /\ requests'[q].view = v /\ ~requests'[q].read
           /\ \A p \in Request : p # q => requests'[p] = requests[p]
           /\ generation'[mounted'] = <<q>>
           /\ failed' = FALSE
<1>1. PICK q \in Request :
        /\ requests' = [requests EXCEPT ![q] = [Free EXCEPT !.grid = mounted', !.view = v]]
        /\ generation' = [generation EXCEPT ![mounted'] = <<q>>]
        /\ failed' = FALSE
  BY DEF Fetch
<1> DEFINE r == [Free EXCEPT !.grid = mounted', !.view = v]
<1>2. DOMAIN r = {"grid", "view", "answer", "read"} /\ r.grid = mounted' /\ r.view = v /\ ~r.read
  BY DEF Free
<1> HIDE DEF r
<1>3. requests' = [requests EXCEPT ![q] = r]
  BY <1>1 DEF r
<1>4. DOMAIN requests' = Request /\ requests'[q] = r /\ \A p \in Request : p # q => requests'[p] = requests[p]
  BY <1>3 DEF PagesShape
<1>5. DOMAIN generation' = 1..MaxMounts /\ generation'[mounted'] = <<q>>
  BY <1>1 DEF PagesShape
<1>6. QED
  BY <1>1, <1>2, <1>4, <1>5

\* After a load everything is settled but the load, which is for what was asked.
LEMMA FetchedWell ==
  ASSUME PagesShape, NEW v, Fetch(v), mounted' \in 1..MaxMounts, mounts' \in Nat,
         mounts <= mounts', mounted' <= mounts'
  PROVE  /\ DOMAIN requests' = Request /\ DOMAIN generation' = 1..MaxMounts
         /\ \A q \in Request :
              /\ DOMAIN requests'[q] = {"grid", "view", "answer", "read"}
              /\ requests'[q].grid \in 0..mounts'
         /\ Pending'
         /\ \A q \in Request : requests'[q].grid = mounted' /\ Newest(q)' =>
              requests'[q].view = v /\ ~requests'[q].read
<1>1. PICK q \in Request :
           /\ DOMAIN requests' = Request /\ DOMAIN generation' = 1..MaxMounts
           /\ DOMAIN requests'[q] = {"grid", "view", "answer", "read"}
           /\ requests'[q].grid = mounted' /\ requests'[q].view = v /\ ~requests'[q].read
           /\ \A p \in Request : p # q => requests'[p] = requests[p]
           /\ generation'[mounted'] = <<q>>
  BY FetchEffect
<1>2. Pending'
  BY <1>1 DEF Pending, Newest
<1>3. \A p \in Request : requests'[p].grid = mounted' /\ Newest(p)' => p = q
  BY <1>1 DEF Newest
<1>4. \A p \in Request : requests'[p].grid \in 0..mounts' /\ DOMAIN requests'[p] = {"grid", "view", "answer", "read"}
  BY <1>1 DEF PagesShape
<1>5. QED
  BY <1>1, <1>2, <1>3, <1>4

\* A step that leaves the loads, the page and what is asked alone.
PagesAside ==
  UNCHANGED <<view, mounted, mounts, generation, page, loadingPage, failed, requests, refetched>>
  /\ version' \in Nat /\ version <= version'

LEMMA AsideKeeps == PagesInv /\ PagesAside => PagesInv'
  BY DEF PagesInv, PagesAside, PagesShape, NewestIsOfTheView, SettledPageIsTheView, LoadingEnds,
         Pending, Newest

\* Looking elsewhere is a load for the new view.
LEMMA LookKeeps == ASSUME PagesInv, NEW v, Look(v) PROVE PagesInv'
<1> USE DEF PagesInv
<1>1. /\ mounted # 0 /\ mounted' = mounted /\ view' = v /\ Load(v)
      /\ UNCHANGED <<version, mounts, refetched>>
  BY DEF Look
<1>2. mounted' \in 1..MaxMounts /\ mounts' \in Nat /\ mounts <= mounts' /\ mounted' <= mounts'
  BY <1>1, PagesAssumption DEF PagesShape
<1>3. Fetch(v)
  BY <1>1 DEF Load
<1>4. PagesShape'
  BY <1>1, <1>2, <1>3, FetchedWell DEF PagesShape
<1>5. NewestIsOfTheView'
  BY <1>1, <1>2, <1>3, FetchedWell DEF NewestIsOfTheView, Newest
<1>6. Pending'
  BY <1>2, <1>3, FetchedWell
<1>7. QED
  BY <1>4, <1>5, <1>6 DEF SettledPageIsTheView, LoadingEnds

\* Coming on screen is a load for the first page.
LEMMA MountKeeps == PagesInv /\ Mount => PagesInv'
<1> SUFFICES ASSUME PagesInv, Mount PROVE PagesInv'
  OBVIOUS
<1> USE DEF PagesInv
<1> DEFINE start == [view EXCEPT !.offset = 0]
<1>1. /\ mounts < MaxMounts /\ mounts' = mounts + 1 /\ mounted' = mounts' /\ view' = start
      /\ Fetch(start) /\ UNCHANGED <<version, refetched>>
  BY DEF Mount
<1> HIDE DEF start
<1>2. mounted' \in 1..MaxMounts /\ mounts' \in 0..MaxMounts /\ mounts <= mounts' /\ mounted' <= mounts'
      /\ mounts' \in Nat
  BY <1>1, PagesAssumption DEF PagesShape
<1>3. PagesShape'
  BY <1>1, <1>2, FetchedWell DEF PagesShape
<1>4. NewestIsOfTheView'
  BY <1>1, <1>2, FetchedWell DEF NewestIsOfTheView, Newest
<1>5. Pending'
  BY <1>1, <1>2, FetchedWell
<1>6. QED
  BY <1>3, <1>4, <1>5 DEF SettledPageIsTheView, LoadingEnds

\* A refetch loads again what is on screen, and nothing when nothing is.
LEMMA RefetchKeeps ==
  ASSUME PagesInv, NEW ver \in Nat, version <= ver, version' = ver, Refetched(ver),
         UNCHANGED <<mounted, mounts, view>>
  PROVE  PagesInv'
<1> USE DEF PagesInv
<1>1. refetched' = ver
  BY DEF Refetched
<1>2. CASE mounted # 0
  <2>1. Fetch(view)
    BY <1>2 DEF Refetched
  <2>2. mounted' \in 1..MaxMounts /\ mounts' \in Nat /\ mounts <= mounts' /\ mounted' <= mounts'
    BY <1>2, PagesAssumption DEF PagesShape
  <2>3. PagesShape'
    BY <1>1, <2>1, <2>2, FetchedWell DEF PagesShape
  <2>4. NewestIsOfTheView'
    BY <2>1, <2>2, FetchedWell DEF NewestIsOfTheView, Newest
  <2>5. Pending'
    BY <2>1, <2>2, FetchedWell
  <2>6. QED
    BY <2>3, <2>4, <2>5 DEF SettledPageIsTheView, LoadingEnds
<1>3. CASE mounted = 0
  <2>1. UNCHANGED <<generation, requests, page, loadingPage, initialError, failed>>
    BY <1>3 DEF Refetched
  <2>2. QED
    BY <1>1, <1>3, <2>1 DEF PagesShape, NewestIsOfTheView, SettledPageIsTheView, LoadingEnds
<1>4. QED
  BY <1>2, <1>3

\* The page is read as it then is, not before the last refetch.
LEMMA ReadKeeps == ASSUME PagesInv, NEW q \in Request, Read(q) PROVE PagesInv'
<1> USE DEF PagesInv
<1> DEFINE ans == PageOf(requests[q].view)
<1>1. ans.view = requests[q].view /\ ans.version = version
  BY DEF PageOf
<1>2. /\ requests' = [requests EXCEPT ![q].read = TRUE, ![q].answer = ans]
      /\ UNCHANGED <<version, view, mounted, mounts, generation, page, loadingPage, failed, refetched>>
  BY DEF Read
<1> HIDE DEF ans
<1>3. /\ DOMAIN requests' = Request
      /\ \A p \in Request : p # q => requests'[p] = requests[p]
      /\ DOMAIN requests'[q] = {"grid", "view", "answer", "read"}
      /\ requests'[q].grid = requests[q].grid /\ requests'[q].view = requests[q].view
      /\ requests'[q].answer = ans
  BY <1>2 DEF PagesShape
<1>4. PagesShape'
  BY <1>2, <1>3 DEF PagesShape
<1>5. Pending' <=> Pending
  BY <1>2, <1>3 DEF Pending, Newest
<1>6. NewestIsOfTheView'
  BY <1>1, <1>2, <1>3 DEF NewestIsOfTheView, Newest, PagesShape
<1>7. QED
  BY <1>2, <1>4, <1>5, <1>6 DEF SettledPageIsTheView, LoadingEnds

\* An answered request is free: no load is the newest of the grid on screen but those that were.
LEMMA FreedWell ==
  ASSUME PagesShape, NEW q \in Request, requests' = [requests EXCEPT ![q] = Free],
         UNCHANGED <<mounted, mounts, view, generation, version, refetched>>
  PROVE  /\ PagesShape'
         /\ requests'[q].grid = 0
         /\ \A p \in Request : p # q => requests'[p] = requests[p]
         /\ NewestIsOfTheView => NewestIsOfTheView'
         /\ mounted # 0 /\ Pending /\ ~Pending' => Newest(q) /\ requests[q].grid = mounted
<1>1. /\ DOMAIN Free = {"grid", "view", "answer", "read"} /\ Free.grid = 0
  BY DEF Free
<1>2. /\ DOMAIN requests' = Request /\ requests'[q] = Free
      /\ \A p \in Request : p # q => requests'[p] = requests[p]
  BY DEF PagesShape
<1>3. PagesShape'
  BY <1>1, <1>2 DEF PagesShape
<1>4. NewestIsOfTheView => NewestIsOfTheView'
  BY <1>1, <1>2 DEF NewestIsOfTheView, Newest
<1>5. mounted # 0 /\ Pending /\ ~Pending' => Newest(q) /\ requests[q].grid = mounted
  BY <1>1, <1>2 DEF Pending, Newest
<1>6. QED
  BY <1>1, <1>2, <1>3, <1>4, <1>5

\* The newest answer is what is shown; any other settles nothing.
LEMMA AnswerKeeps == ASSUME PagesInv, NEW q \in Request, Answer(q) PROVE PagesInv'
<1> USE DEF PagesInv
<1> DEFINE onScreen == Newest(q) /\ requests[q].grid = mounted
<1>1. /\ Newest(q) => requests[q].read
      /\ requests' = [requests EXCEPT ![q] = Free]
      /\ page' = IF onScreen THEN requests[q].answer ELSE page
      /\ loadingPage' = (loadingPage /\ ~onScreen)
      /\ failed' = (failed /\ ~onScreen)
      /\ UNCHANGED <<mounted, mounts, view, generation, version, refetched>>
  BY DEF Answer
<1>2. PagesShape' /\ NewestIsOfTheView'
  BY <1>1, FreedWell
<1>3. mounted # 0 /\ Pending /\ ~Pending' => onScreen
  BY <1>1, FreedWell
<1>4. SettledPageIsTheView'
  <2>1. CASE onScreen
    BY <1>1, <2>1 DEF SettledPageIsTheView, NewestIsOfTheView
  <2>2. CASE ~onScreen
    BY <1>1, <1>3, <2>2 DEF SettledPageIsTheView
  <2>3. QED
    BY <2>1, <2>2
<1>5. LoadingEnds'
  BY <1>1, <1>3 DEF LoadingEnds
<1>6. QED
  BY <1>2, <1>4, <1>5

\* An error of the newest load is noted as one, and any other settles nothing.
LEMMA RefuseKeeps == ASSUME PagesInv, NEW q \in Request, Refuse(q) PROVE PagesInv'
<1> USE DEF PagesInv
<1> DEFINE onScreen == Newest(q) /\ requests[q].grid = mounted
<1>1. /\ requests' = [requests EXCEPT ![q] = Free]
      /\ loadingPage' = (loadingPage /\ ~onScreen)
      /\ failed' = (failed \/ onScreen)
      /\ UNCHANGED <<mounted, mounts, view, generation, version, refetched, page>>
  BY DEF Refuse
<1>2. PagesShape' /\ NewestIsOfTheView'
  BY <1>1, FreedWell
<1>3. mounted # 0 /\ Pending /\ ~Pending' => onScreen
  BY <1>1, FreedWell
<1>4. SettledPageIsTheView'
  BY <1>1, <1>3 DEF SettledPageIsTheView
<1>5. LoadingEnds'
  BY <1>1, <1>3 DEF LoadingEnds
<1>6. QED
  BY <1>2, <1>4, <1>5

LEMMA PagesStart == PagesInit => PagesInv
<1> SUFFICES ASSUME PagesInit PROVE PagesInv
  OBVIOUS
<1>1. DOMAIN Free = {"grid", "view", "answer", "read"} /\ Free.grid = 0
  BY DEF Free
<1>2. \A q \in Request : requests[q] = Free
  BY DEF PagesInit
<1>3. PagesShape
  BY <1>1, <1>2, PagesAssumption DEF PagesInit, PagesShape
<1>4. QED
  BY <1>3 DEF PagesInit, PagesInv, NewestIsOfTheView, SettledPageIsTheView, LoadingEnds

LEMMA PagesStep == PagesInv /\ [PagesNext]_pagesVars => PagesInv'
<1> SUFFICES ASSUME PagesInv, [PagesNext]_pagesVars PROVE PagesInv'
  OBVIOUS
<1>0. version \in Nat
  BY DEF PagesInv, PagesShape
<1>1. CASE Mount
  BY <1>1, MountKeeps
<1>2. CASE Leave
  BY <1>2 DEF Leave, PagesInv, PagesShape, NewestIsOfTheView, SettledPageIsTheView, LoadingEnds
<1>3. CASE RequestRefetch
  BY <1>0, <1>3, RefetchKeeps DEF RequestRefetch
<1>4. CASE \E sort \in Orders : SetSort(sort)
  BY <1>4, LookKeeps DEF SetSort
<1>5. CASE \E filter \in Filters : SetFilter(filter)
  BY <1>5, LookKeeps DEF SetFilter
<1>6. CASE \E pages \in {-1, 1} : TurnPage(pages)
  BY <1>6, LookKeeps DEF TurnPage
<1>7. CASE \E q \in Request : Read(q) \/ Answer(q) \/ Refuse(q)
  BY <1>7, ReadKeeps, AnswerKeeps, RefuseKeeps
<1>8. CASE \/ \E p \in 1..Cardinality(Row) : ToggleRowSel(p)
           \/ ToggleSelectAllRows \/ DeleteSelectedRows
  <2>1. ASSUME NEW places, Select(places) PROVE PagesAside
    BY <1>0, <2>1 DEF Select, PagesAside
  <2>2. DeleteSelectedRows => PagesAside
    BY <1>0 DEF DeleteSelectedRows, PagesAside
  <2>3. QED
    BY <1>8, <2>1, <2>2, AsideKeeps DEF ToggleRowSel, ToggleSelectAllRows
<1>9. CASE RowsDeleted
  BY <1>0, <1>9, RefetchKeeps DEF RowsDeleted
<1>10. CASE DeleteRefused \/ \E r \in Row : ChangeTable(r)
  <2>1. PagesAside
    BY <1>0, <1>10 DEF DeleteRefused, ChangeTable, PagesAside
  <2>2. QED
    BY <2>1, AsideKeeps
<1>11. CASE UNCHANGED pagesVars
  <2>1. PagesAside
    BY <1>0, <1>11 DEF pagesVars, PagesAside
  <2>2. QED
    BY <2>1, AsideKeeps
<1>12. QED
  BY <1>1, <1>2, <1>3, <1>4, <1>5, <1>6, <1>7, <1>8, <1>9, <1>10, <1>11 DEF PagesNext

\* PagesInv is an inductive invariant of the pages.
THEOREM PagesInvariant == PagesSpec => []PagesInv
  BY PagesStart, PagesStep, PTL DEF PagesSpec

\* When the loads have ended well, the page on screen is the one the tab asks for and no older
\* than the last refetch (DataGrid.tsx, tabMeta.ts requestRefetch).
THEOREM SettledPages == PagesSpec => []SettledPageIsTheView
<1>1. PagesInv => SettledPageIsTheView
  BY DEF PagesInv
<1>2. QED
  BY <1>1, PagesInvariant, PTL

\* The loading line of a page has a load that will take it down.
THEOREM LoadingLineEnds == PagesSpec => []LoadingEnds
<1>1. PagesInv => LoadingEnds
  BY DEF PagesInv
<1>2. QED
  BY <1>1, PagesInvariant, PTL

-----------------------------------------------------------------------------
(* Types of the pages. An answer is a page of the rows there can be, no longer *)
(* than a page and counting no more than all rows; a delete that has not       *)
(* reached the table leaves room for its change.                               *)

PageTyped(p) ==
  p = NoPage \/ (/\ p.view \in View /\ p.rows \in Seq(Row) /\ Len(p.rows) <= PageSize
                 /\ p.total \in 0..Cardinality(Row))

ViewTyped == view \in View /\ seed \in {<<>>} \cup View /\ total \in -1..Cardinality(Row)

LoadsTyped ==
  /\ generation \in [1..MaxMounts -> {<<>>} \cup {<<q>> : q \in Request}]
  /\ DOMAIN requests = Request
  /\ \A q \in Request :
       PageTyped(requests[q].answer) /\ (requests[q] = Free \/ requests[q].view \in View)

ShownTyped ==
  /\ PageTyped(page) /\ PageTyped(pageCache)
  /\ loadingPage \in BOOLEAN /\ initialError \in BOOLEAN /\ failed \in BOOLEAN

PickedTyped == selectedRows = DOMAIN picked

TableTyped ==
  /\ table \subseteq Row /\ version \in 0..MaxChanges
  /\ deleting \subseteq Row /\ deleted \subseteq Row
  /\ deleting # {} => version < MaxChanges

PagesTypes == ViewTyped /\ LoadsTyped /\ ShownTyped /\ PickedTyped /\ TableTyped

LEMMA PagesTypesAreTypes == ASSUME PagesInv, PagesTypes PROVE PagesTypeOK
<1>1. /\ mounted \in {0, mounts} /\ mounts \in 0..MaxMounts /\ refetched \in 0..version
      /\ \A q \in Request : requests[q].grid <= mounts
  BY DEF PagesInv, PagesShape
<1>2. page # NoPage => page.view \in View /\ Len(page.rows) <= PageSize
  BY DEF PagesTypes, ShownTyped, PageTyped
<1>3. QED
  BY <1>1, <1>2
  DEF PagesTypes, ViewTyped, LoadsTyped, ShownTyped, PickedTyped, TableTyped, PagesTypeOK

LEMMA NothingPicked == Unselect => PickedTyped'
<1>1. <<>> \in Seq({}) /\ Len(<<>>) = 0
  OBVIOUS
<1>2. DOMAIN <<>> = 1..0
  BY <1>1
<1>3. 1..0 = {}
  OBVIOUS
<1>4. QED
  BY <1>2, <1>3 DEF Unselect, PickedTyped

LEMMA RowsAreCounted == Cardinality(Row) \in Nat
  BY PagesAssumption, FS_CardinalityType

LEMMA Offsets ==
  ASSUME NEW n \in Nat, NEW size \in Nat \ {0}, NEW most \in Nat, n <= most
  PROVE  /\ n * size \in Nat
         /\ n * size + size < most => \E m \in 0..most : n * size + size = m * size
         /\ n * size - size >= 0 => \E m \in 0..most : n * size - size = m * size
<1>1. n * size \in Nat /\ (n + 1) * size = n * size + size /\ (n - 1) * size = n * size - size
  OBVIOUS
<1>2. ASSUME n * size + size < most PROVE n + 1 \in 0..most
  <2>1. n <= n * size
    OBVIOUS
  <2>2. QED
    BY <1>1, <1>2, <2>1
<1>3. ASSUME n * size - size >= 0 PROVE n - 1 \in 0..most
  <2>1. n # 0
    BY <1>3
  <2>2. QED
    BY <2>1
<1>4. QED
  BY <1>1, <1>2, <1>3

\* What is asked for: an offset is where a page begins.
LEMMA ViewFacts ==
  ASSUME NEW v \in View
  PROVE  /\ v.sort \in Orders /\ v.filter \in Filters /\ v.offset \in Nat
         /\ \E n \in 0..Cardinality(Row) : v.offset = n * PageSize
         /\ \A sort \in Orders : [v EXCEPT !.sort = sort, !.offset = 0] \in View
         /\ \A filter \in Filters : [v EXCEPT !.filter = filter, !.offset = 0] \in View
         /\ [v EXCEPT !.offset = 0] \in View
         /\ \A n \in 0..Cardinality(Row) : [v EXCEPT !.offset = n * PageSize] \in View
<1>1. PageSize \in Nat \ {0} /\ Cardinality(Row) \in Nat
  BY PagesAssumption, RowsAreCounted
<1> DEFINE Offset == {n * PageSize : n \in 0..Cardinality(Row)}
<1>2. 0 \in Offset /\ Offset \subseteq Nat
  <2>1. 0 * PageSize = 0 /\ 0 \in 0..Cardinality(Row)
    BY <1>1
  <2>2. ASSUME NEW n \in 0..Cardinality(Row) PROVE n * PageSize \in Nat
    BY <1>1, Offsets
  <2>3. QED
    BY <2>1, <2>2
<1>3. View = [sort : Orders, filter : Filters, offset : Offset]
  BY DEF View
<1>4. \E n \in 0..Cardinality(Row) : v.offset = n * PageSize
  BY <1>3
<1>5. \A n \in 0..Cardinality(Row) : n * PageSize \in Offset
  OBVIOUS
<1> HIDE DEF Offset
<1>6. QED
  BY <1>2, <1>3, <1>4, <1>5

\* The database answers with a page of its rows.
LEMMA AnswerTyped == ASSUME NEW v \in View PROVE PageTyped(PageOf(v))
<1> DEFINE all == OnlyIn(v.sort, table \cap v.filter)
           end == IF v.offset + PageSize < Len(all) THEN v.offset + PageSize ELSE Len(all)
           rows == SubSeq(all, v.offset + 1, end)
<1>1. PageOf(v) = [view |-> v, rows |-> rows, total |-> Len(all), version |-> version]
  BY DEF PageOf
<1>2. all \in Seq(Row) /\ Len(all) \in 0..Cardinality(Row)
  <2>1. v.sort \in [1..Cardinality(Row) -> Row] /\ Cardinality(Row) \in Nat
    BY ViewFacts, RowsAreCounted, PagesAssumption
  <2>2. v.sort \in Seq(Row) /\ Len(v.sort) = Cardinality(Row)
    BY <2>1
  <2>3. OnlyIn(v.sort, table \cap v.filter) \in Seq(Row \cap (table \cap v.filter))
    BY <2>2, OnlyInPlaces
  <2>4. all \in Seq(Row)
    BY <2>3
  <2> DEFINE kept == {i \in DOMAIN v.sort : v.sort[i] \in table \cap v.filter}
  <2>5. Cardinality(kept) \in 0..Cardinality(Row)
    <3>1. kept \subseteq 1..Cardinality(Row)
      BY <2>1
    <3>2. IsFiniteSet(1..Cardinality(Row)) /\ Cardinality(1..Cardinality(Row)) = Cardinality(Row)
      BY <2>1, FS_Interval
    <3>3. QED
      BY <2>1, <3>1, <3>2, FS_Subset, FS_CardinalityType
  <2>6. Len(all) = Cardinality(kept)
    <3>1. DOMAIN all = 1..Cardinality(kept)
      BY DEF OnlyIn
    <3> HIDE DEF kept, all
    <3>2. QED
      BY <2>4, <2>5, <3>1
  <2>7. QED
    BY <2>4, <2>5, <2>6
<1>3. v.offset \in Nat /\ PageSize \in Nat \ {0}
  BY ViewFacts, PagesAssumption
<1> HIDE DEF all
<1>4. rows \in Seq(Row) /\ Len(rows) <= PageSize
  <2>1. v.offset + 1 \in Int /\ end \in Int /\ end <= v.offset + PageSize /\ end <= Len(all)
    BY <1>2, <1>3
  <2> HIDE DEF end
  <2>2. \A i \in (v.offset + 1)..end : all[i] \in Row
    BY <1>2, <1>3, <2>1
  <2>3. /\ rows \in Seq(Row)
        /\ Len(rows) = IF v.offset + 1 <= end THEN end - (v.offset + 1) + 1 ELSE 0
    BY <2>1, <2>2, SubSeqProperties
  <2>4. QED
    BY <1>3, <2>1, <2>3
<1> HIDE DEF rows
<1>5. QED
  BY <1>1, <1>2, <1>4 DEF PageTyped

-----------------------------------------------------------------------------
\* A load is for a view there is.
LEMMA FetchTypes ==
  ASSUME LoadsTyped, NEW v \in View, Fetch(v), mounted' \in 1..MaxMounts
  PROVE  LoadsTyped' /\ failed' = FALSE
<1>1. PICK q \in Request :
        /\ requests' = [requests EXCEPT ![q] = [Free EXCEPT !.grid = mounted', !.view = v]]
        /\ generation' = [generation EXCEPT ![mounted'] = <<q>>]
        /\ failed' = FALSE
  BY DEF Fetch
<1> DEFINE r == [Free EXCEPT !.grid = mounted', !.view = v]
<1>2. r.view = v /\ r.answer = NoPage
  BY DEF Free
<1> HIDE DEF r
<1>3. requests' = [requests EXCEPT ![q] = r]
  BY <1>1 DEF r
<1>4. /\ DOMAIN requests' = Request /\ requests'[q] = r
      /\ \A p \in Request : p # q => requests'[p] = requests[p]
  BY <1>3 DEF LoadsTyped
<1>5. PageTyped(r.answer)
  BY <1>2 DEF PageTyped
<1>6. \A p \in Request : PageTyped(requests[p].answer) => PageTyped(requests[p].answer)
  OBVIOUS
<1>7. \A p \in Request :
        PageTyped(requests'[p].answer) /\ (requests'[p] = Free \/ requests'[p].view \in View)
  BY <1>2, <1>4, <1>5 DEF LoadsTyped
<1>8. generation' \in [1..MaxMounts -> {<<>>} \cup {<<p>> : p \in Request}]
  BY <1>1 DEF LoadsTyped
<1>9. (\A p \in Request : PageTyped(requests[p].answer))' <=> \A p \in Request : PageTyped(requests'[p].answer)
  BY DEF PageTyped
<1>10. QED
  BY <1>1, <1>4, <1>7, <1>8, <1>9 DEF LoadsTyped

\* Looking elsewhere.
LEMMA LookTypes ==
  ASSUME PagesShape, PagesTypes, NEW v \in View, Look(v) PROVE PagesTypes'
<1> USE DEF PagesTypes
<1>1. /\ mounted # 0 /\ mounted' = mounted /\ view' = v /\ Load(v)
      /\ Unselect \/ UNCHANGED <<selectedRows, picked>>
      /\ UNCHANGED <<total, table, version, seed, pageCache, deleting, deleted>>
  BY DEF Look
<1>2. Fetch(v) /\ mounted' \in 1..MaxMounts
  BY <1>1, PagesAssumption DEF Load, PagesShape
<1>3. LoadsTyped' /\ failed' = FALSE
  BY <1>2, FetchTypes
<1>4. ViewTyped' /\ TableTyped'
  BY <1>1 DEF ViewTyped, TableTyped
<1>5. PickedTyped'
  BY <1>1, NothingPicked DEF PickedTyped
<1>6. ShownTyped'
  BY <1>1, <1>3 DEF Load, ShownTyped, PageTyped
<1>7. QED
  BY <1>3, <1>4, <1>5, <1>6

LEMMA MountTypes == ASSUME PagesShape, PagesTypes, Mount PROVE PagesTypes'
<1> USE DEF PagesTypes
<1> DEFINE start == [view EXCEPT !.offset = 0]
<1>1. /\ mounts < MaxMounts /\ mounts' = mounts + 1 /\ mounted' = mounts' /\ view' = start
      /\ seed' \in {<<>>, start} /\ page' \in {pageCache, NoPage}
      /\ loadingPage' \in BOOLEAN /\ initialError' = FALSE
      /\ Fetch(start) /\ Unselect
      /\ UNCHANGED <<total, table, version, pageCache, deleting, deleted>>
  BY DEF Mount
<1>2. start \in View
  BY ViewFacts DEF ViewTyped
<1> HIDE DEF start
<1>3. mounted' \in 1..MaxMounts
  BY <1>1, PagesAssumption DEF PagesShape
<1>4. LoadsTyped' /\ failed' = FALSE
  BY <1>1, <1>2, <1>3, FetchTypes
<1>5. ViewTyped' /\ TableTyped'
  BY <1>1, <1>2 DEF ViewTyped, TableTyped
<1>6. PickedTyped'
  BY <1>1, NothingPicked DEF PickedTyped
<1>7. ShownTyped'
  BY <1>1, <1>4 DEF ShownTyped, PageTyped
<1>8. QED
  BY <1>4, <1>5, <1>6, <1>7

\* A refetch, after a delete that reached the table or without one.
LEMMA RefetchTypes ==
  ASSUME PagesShape, PagesTypes, NEW ver, Refetched(ver), UNCHANGED <<view, total, mounted>>
  PROVE  ViewTyped' /\ LoadsTyped' /\ ShownTyped' /\ PickedTyped'
<1> USE DEF PagesTypes
<1>1. pageCache' = NoPage /\ seed' = <<>>
  BY DEF Refetched
<1>2. ViewTyped'
  BY <1>1 DEF ViewTyped
<1>3. CASE mounted # 0
  <2>1. Fetch(view) /\ mounted' \in 1..MaxMounts /\ view \in View
    BY <1>3, PagesAssumption DEF Refetched, PagesShape, ViewTyped
  <2>2. LoadsTyped' /\ failed' = FALSE
    BY <2>1, FetchTypes
  <2>3. page' = NoPage /\ loadingPage' = TRUE /\ initialError' = FALSE /\ Unselect
    BY <1>3 DEF Refetched
  <2>4. ShownTyped' /\ PickedTyped'
    BY <1>1, <2>2, <2>3, NothingPicked DEF ShownTyped, PageTyped
  <2>5. QED
    BY <1>2, <2>2, <2>4
<1>4. CASE mounted = 0
  <2>1. UNCHANGED <<generation, requests, page, loadingPage, initialError, failed, selectedRows, picked>>
    BY <1>4 DEF Refetched
  <2>2. QED
    BY <1>1, <1>2, <2>1 DEF LoadsTyped, ShownTyped, PageTyped, PickedTyped
<1>5. QED
  BY <1>3, <1>4

\* A request is read or answered.
LEMMA RequestTypes ==
  ASSUME PagesTypes, NEW q \in Request, Read(q) \/ Answer(q) \/ Refuse(q) PROVE PagesTypes'
<1> USE DEF PagesTypes
<1>1. /\ UNCHANGED <<table, version, view, generation, seed, selectedRows, picked, deleting, deleted>>
  BY DEF Read, Answer, Refuse
<1>2. TableTyped' /\ PickedTyped'
  BY <1>1 DEF TableTyped, PickedTyped
<1>3. PageTyped(Free.answer) /\ PageTyped(requests[q].answer)
  BY DEF Free, PageTyped, LoadsTyped
<1>4. CASE Read(q)
  <2> DEFINE ans == PageOf(requests[q].view)
  <2>1. PageTyped(ans)
    BY <1>4, AnswerTyped DEF Read, LoadsTyped
  <2>2. /\ requests' = [requests EXCEPT ![q].read = TRUE, ![q].answer = ans]
        /\ requests[q] # Free /\ UNCHANGED <<page, pageCache, total, loadingPage, initialError, failed>>
    BY <1>4 DEF Read
  <2> HIDE DEF ans
  <2>3. /\ DOMAIN requests' = Request /\ \A p \in Request : p # q => requests'[p] = requests[p]
        /\ requests'[q] = [requests[q] EXCEPT !.read = TRUE, !.answer = ans]
    BY <2>2 DEF LoadsTyped
  <2>4. requests'[q].view = requests[q].view /\ requests[q].view \in View
    BY <2>2, <2>3 DEF LoadsTyped
  <2>5. requests'[q].answer = ans \/ requests'[q].answer = requests[q].answer
    BY <2>3
  <2>6. \A p \in Request :
          PageTyped(requests'[p].answer) /\ (requests'[p] = Free \/ requests'[p].view \in View)
    BY <1>3, <2>1, <2>3, <2>4, <2>5 DEF LoadsTyped
  <2>7. LoadsTyped'
    BY <1>1, <2>3, <2>6 DEF LoadsTyped, PageTyped
  <2>8. ViewTyped' /\ ShownTyped'
    BY <1>1, <2>2 DEF ViewTyped, ShownTyped, PageTyped
  <2>9. QED
    BY <1>2, <2>7, <2>8
<1>5. CASE Answer(q) \/ Refuse(q)
  <2>1. requests' = [requests EXCEPT ![q] = Free]
    BY <1>5 DEF Answer, Refuse
  <2>2. /\ DOMAIN requests' = Request /\ requests'[q] = Free
        /\ \A p \in Request : p # q => requests'[p] = requests[p]
    BY <2>1 DEF LoadsTyped
  <2>3. \A p \in Request :
          PageTyped(requests'[p].answer) /\ (requests'[p] = Free \/ requests'[p].view \in View)
    BY <1>3, <2>2 DEF LoadsTyped
  <2>4. LoadsTyped'
    BY <1>1, <2>2, <2>3 DEF LoadsTyped, PageTyped
  <2>5. /\ page' \in {page, requests[q].answer} /\ pageCache' \in {pageCache, requests[q].answer}
        /\ total' \in {total, requests[q].answer.total}
        /\ loadingPage' \in BOOLEAN /\ initialError' \in BOOLEAN /\ failed' \in BOOLEAN
    BY <1>5 DEF Answer, Refuse, ShownTyped
  <2>6. requests[q].answer.total \in -1..Cardinality(Row)
    BY <1>3, RowsAreCounted DEF PageTyped, NoPage
  <2>7. ViewTyped'
    BY <1>1, <2>5, <2>6 DEF ViewTyped
  <2>8. PageTyped(page') /\ PageTyped(pageCache')
    BY <1>3, <2>5 DEF ShownTyped
  <2>9. ShownTyped'
    BY <2>5, <2>8 DEF ShownTyped, PageTyped
  <2>10. QED
    BY <1>2, <2>4, <2>7, <2>9
<1>6. QED
  BY <1>4, <1>5

\* Rows are picked by their place, and those deleted are rows of the page.
LEMMA SelectTypes == ASSUME PagesTypes, NEW places, Select(places) PROVE PagesTypes'
<1>1. PickedTyped'
  BY DEF Select, PickedTyped
<1>2. QED
  BY <1>1
  DEF Select, PagesTypes, ViewTyped, LoadsTyped, ShownTyped, TableTyped, PageTyped

LEMMA DeleteTypes == ASSUME PagesTypes, DeleteSelectedRows PROVE PagesTypes'
<1> DEFINE rows == {RowAt(p) : p \in selectedRows \cap Places}
<1>1. rows \subseteq Row
  <2> SUFFICES ASSUME NEW p \in Places PROVE RowAt(p) \in Row
    OBVIOUS
  <2>1. /\ page # NoPage /\ PageTyped(page)
        /\ \E i \in DOMAIN page.rows : p = page.view.offset + i
    BY DEF Places, Place, PagesTypes, ShownTyped
  <2>2. page.rows \in Seq(Row) /\ page.view \in View
    BY <2>1 DEF PageTyped
  <2>3. PICK i \in DOMAIN page.rows : p = page.view.offset + i
    BY <2>1
  <2>4. page.view.offset \in Nat /\ i \in Nat
    <3>1. page.view.offset \in Nat
      BY <2>2, ViewFacts
    <3>2. DOMAIN page.rows = 1..Len(page.rows)
      BY <2>2
    <3>3. QED
      BY <3>1, <3>2
  <2>5. RowAt(p) = page.rows[i]
    BY <2>3, <2>4 DEF RowAt
  <2>6. QED
    BY <2>2, <2>5
<1>2. /\ deleting' = rows /\ version < MaxChanges
      /\ deleted' = deleted \cup (rows \ {picked[p] : p \in selectedRows})
      /\ UNCHANGED <<total, table, version, view, generation, page, loadingPage, initialError, failed,
                     seed, requests, pageCache, selectedRows, picked>>
  BY DEF DeleteSelectedRows
<1> HIDE DEF rows
<1>3. TableTyped'
  BY <1>1, <1>2 DEF PagesTypes, TableTyped
<1>4. QED
  BY <1>2, <1>3 DEF PagesTypes, ViewTyped, LoadsTyped, ShownTyped, PickedTyped, PageTyped

\* The table is changed by others, or a delete is refused.
LEMMA TableTypes ==
  ASSUME PagesTypes, DeleteRefused \/ \E r \in Row : ChangeTable(r) PROVE PagesTypes'
<1>1. UNCHANGED <<total, view, generation, page, loadingPage, initialError, failed, seed, requests,
                  pageCache, selectedRows, picked, deleted>>
  BY DEF DeleteRefused, ChangeTable
<1>2. CASE DeleteRefused
  BY <1>2 DEF DeleteRefused, PagesTypes, TableTyped, ViewTyped, LoadsTyped, ShownTyped, PickedTyped, PageTyped
<1>3. ASSUME NEW r \in Row, ChangeTable(r) PROVE TableTyped'
  <2>1. table' \in {table \ {r}, table \cup {r}} /\ version' = version + 1 /\ version < MaxChanges
        /\ deleting = {} /\ UNCHANGED <<deleting, deleted>>
    BY <1>3 DEF ChangeTable
  <2>2. QED
    BY <2>1, PagesAssumption DEF PagesTypes, TableTyped
<1>4. QED
  BY <1>1, <1>2, <1>3 DEF PagesTypes, ViewTyped, LoadsTyped, ShownTyped, PickedTyped, PageTyped

LEMMA PagesTypesStart == PagesInit => PagesTypes
<1> SUFFICES ASSUME PagesInit PROVE PagesTypes
  OBVIOUS
<1>1. ViewTyped /\ TableTyped
  BY PagesAssumption, RowsAreCounted DEF PagesInit, ViewTyped, TableTyped
<1>2. LoadsTyped
  BY DEF PagesInit, LoadsTyped, Free, PageTyped
<1>3. ShownTyped /\ PickedTyped
  <2>1. ShownTyped
    BY DEF PagesInit, ShownTyped, PageTyped
  <2>2. <<>> \in Seq({}) /\ Len(<<>>) = 0
    OBVIOUS
  <2>3. DOMAIN <<>> = {}
    BY <2>2
  <2>4. QED
    BY <2>1, <2>3 DEF PagesInit, PickedTyped
<1>4. QED
  BY <1>1, <1>2, <1>3 DEF PagesTypes

LEMMA PagesTypesStep == PagesInv /\ PagesTypes /\ [PagesNext]_pagesVars => PagesTypes'
<1> SUFFICES ASSUME PagesInv, PagesTypes, [PagesNext]_pagesVars PROVE PagesTypes'
  OBVIOUS
<1>0. PagesShape /\ view \in View
  BY DEF PagesInv, PagesTypes, ViewTyped
<1>1. CASE Mount
  BY <1>0, <1>1, MountTypes
<1>2. CASE Leave
  <2>1. UNCHANGED <<total, table, version, view, generation, requests, pageCache, deleting, deleted>>
    BY <1>2 DEF Leave
  <2>2. seed' = <<>> /\ page' = NoPage /\ loadingPage' = FALSE /\ initialError' = FALSE /\ failed' = FALSE /\ Unselect
    BY <1>2 DEF Leave
  <2>3. PickedTyped' /\ ShownTyped' /\ ViewTyped'
    BY <2>1, <2>2, NothingPicked DEF PagesTypes, ViewTyped, ShownTyped, PageTyped
  <2>4. QED
    BY <2>1, <2>3 DEF PagesTypes, LoadsTyped, TableTyped, PageTyped
<1>3. CASE RequestRefetch
  <2>1. /\ Refetched(version)
        /\ UNCHANGED <<view, total, mounted, table, version, deleting, deleted>>
    BY <1>3 DEF RequestRefetch
  <2>2. ViewTyped' /\ LoadsTyped' /\ ShownTyped' /\ PickedTyped'
    BY <1>0, <2>1, RefetchTypes
  <2>3. QED
    BY <2>1, <2>2 DEF PagesTypes, TableTyped
<1>4. CASE \E sort \in Orders : SetSort(sort)
  BY <1>0, <1>4, ViewFacts, LookTypes DEF SetSort
<1>5. CASE \E filter \in Filters : SetFilter(filter)
  BY <1>0, <1>5, ViewFacts, LookTypes DEF SetFilter
<1>6. ASSUME NEW pages \in {-1, 1}, TurnPage(pages) PROVE PagesTypes'
  <2> DEFINE offset == view.offset + pages * PageSize
  <2>1. PICK n \in 0..Cardinality(Row) : view.offset = n * PageSize
    BY <1>0, ViewFacts
  <2>2. total \in -1..Cardinality(Row) /\ Cardinality(Row) \in Nat /\ PageSize \in Nat \ {0} /\ n \in Nat
        /\ n <= Cardinality(Row)
    BY PagesAssumption, RowsAreCounted DEF PagesTypes, ViewTyped
  <2>3. n * PageSize \in Nat
    BY <2>2, Offsets
  <2>4. \E m \in 0..Cardinality(Row) : offset = m * PageSize
    <3>1. CASE pages = 1
      <4>1. offset = n * PageSize + PageSize /\ offset < total
        BY <1>6, <2>1, <2>2, <2>3, <3>1 DEF TurnPage
      <4>2. n * PageSize + PageSize < Cardinality(Row)
        BY <2>2, <2>3, <4>1
      <4>3. \E m \in 0..Cardinality(Row) : n * PageSize + PageSize = m * PageSize
        BY <2>2, <4>2, Offsets
      <4>4. QED
        BY <4>1, <4>3
    <3>2. CASE pages = -1
      <4>1. offset = n * PageSize - PageSize /\ offset >= 0
        BY <1>6, <2>1, <2>2, <2>3, <3>2 DEF TurnPage
      <4>2. n * PageSize - PageSize >= 0
        BY <4>1
      <4>3. \E m \in 0..Cardinality(Row) : n * PageSize - PageSize = m * PageSize
        BY <2>2, <4>2, Offsets
      <4>4. QED
        BY <4>1, <4>3
    <3>3. QED
      BY <3>1, <3>2
  <2>5. Look([view EXCEPT !.offset = offset])
    BY <1>6 DEF TurnPage
  <2> HIDE DEF offset
  <2>6. [view EXCEPT !.offset = offset] \in View
    BY <1>0, <2>4, ViewFacts
  <2>7. QED
    BY <1>0, <2>5, <2>6, LookTypes
<1>7. CASE \E q \in Request : Read(q) \/ Answer(q) \/ Refuse(q)
  BY <1>7, RequestTypes
<1>8. CASE (\E p \in 1..Cardinality(Row) : ToggleRowSel(p)) \/ ToggleSelectAllRows
  BY <1>8, SelectTypes DEF ToggleRowSel, ToggleSelectAllRows
<1>9. CASE DeleteSelectedRows
  BY <1>9, DeleteTypes
<1>10. CASE RowsDeleted
  <2>1. /\ Refetched(version + 1) /\ UNCHANGED <<view, total, mounted, deleted>>
        /\ deleting # {} /\ deleting' = {} /\ table' = table \ deleting /\ version' = version + 1
    BY <1>10 DEF RowsDeleted
  <2>2. ViewTyped' /\ LoadsTyped' /\ ShownTyped' /\ PickedTyped'
    BY <1>0, <2>1, RefetchTypes
  <2>3. TableTyped'
    BY <2>1, PagesAssumption DEF PagesTypes, TableTyped
  <2>4. QED
    BY <2>2, <2>3 DEF PagesTypes
<1>11. CASE DeleteRefused \/ \E r \in Row : ChangeTable(r)
  BY <1>11, TableTypes
<1>12. CASE UNCHANGED pagesVars
  BY <1>12 DEF pagesVars, PagesTypes, ViewTyped, LoadsTyped, ShownTyped, PickedTyped, TableTyped, PageTyped
<1>13. QED
  BY <1>1, <1>2, <1>3, <1>4, <1>5, <1>6, <1>7, <1>8, <1>9, <1>10, <1>11, <1>12 DEF PagesNext

\* Every variable of the pages keeps its type: what is asked for begins where a page begins and
\* what is shown is no longer than one, for any table, sorts, filters and page size.
THEOREM PagesTypeCorrect == PagesSpec => []PagesTypeOK
<1>1. PagesInit => PagesInv /\ PagesTypes
  BY PagesStart, PagesTypesStart
<1>2. PagesInv /\ PagesTypes /\ [PagesNext]_pagesVars => PagesInv' /\ PagesTypes'
  BY PagesStep, PagesTypesStep
<1>3. PagesInv /\ PagesTypes => PagesTypeOK
  BY PagesTypesAreTypes
<1>4. QED
  BY <1>1, <1>2, <1>3, PTL DEF PagesSpec

-----------------------------------------------------------------------------
(* Staged edits.                                                           *)

\* The rows of a batch are rows that were staged.
RowsStaged(rows) == \A i \in DOMAIN rows : rows[i].id <= stagedRows

\* Keys go up with the rows staged, also when an instance starts over above the highest
\* it finds, and no two staged rows have one.
KeysGoUp ==
  /\ stagedKeySeq <= stagedRows
  /\ \A i \in DOMAIN newRows : newRows[i].key <= stagedKeySeq
  /\ \A i, j \in DOMAIN newRows : newRows[i].key = newRows[j].key => i = j

\* A confirmation is asked by a grid on screen, for rows that were staged; so is what was sent.
BatchesStaged ==
  /\ DOMAIN saves = Saving
  /\ RowsStaged(newRows)
  /\ saveConfirm # NoBatch => grid # 0 /\ saveConfirm \in Batch /\ RowsStaged(saveConfirm.rows)
  /\ \A s \in Saving : saves[s] # Unused => RowsStaged(saves[s].batch.rows)

EditsInv == EditsTypeOK /\ KeysGoUp /\ BatchesStaged

\* What is typed in a staged row changes what it holds, not which row it is.
LEMMA RowsWithKeeps ==
  ASSUME EditsTypeOK
  PROVE  /\ RowsWith(editing) \in Seq(NewRowType)
         /\ DOMAIN RowsWith(editing) = DOMAIN newRows
         /\ \A i \in DOMAIN newRows :
              RowsWith(editing)[i].key = newRows[i].key /\ RowsWith(editing)[i].id = newRows[i].id
<1> DEFINE rows == RowsWith(editing)
<1>1. /\ newRows \in Seq(NewRowType)
      /\ \A i \in DOMAIN newRows : newRows[i] \in NewRowType
      /\ editing = NoDraft \/ editing.value \in Value \cup {Original}
  BY DEF EditsTypeOK
<1>2. ASSUME NEW i \in DOMAIN newRows
      PROVE  rows[i] \in NewRowType /\ rows[i].key = newRows[i].key /\ rows[i].id = newRows[i].id
  <2>1. rows[i] = IF editing # NoDraft /\ newRows[i].key = editing.at
                  THEN [newRows[i] EXCEPT !.value = editing.value] ELSE newRows[i]
    BY DEF RowsWith
  <2>2. QED
    BY <1>1, <2>1 DEF NewRowType
<1>3. DOMAIN rows = DOMAIN newRows
  BY DEF RowsWith
<1>4. DOMAIN newRows = 1..Len(newRows) /\ Len(newRows) \in Nat
  BY <1>1, LenProperties
<1> HIDE DEF rows
<1>5. rows \in [1..Len(newRows) -> NewRowType]
  <2>1. rows = [i \in DOMAIN newRows |-> rows[i]]
    BY DEF rows, RowsWith
  <2>2. QED
    BY <1>2, <1>4, <2>1
<1>6. rows \in Seq(NewRowType)
  BY <1>4, <1>5, SeqDef
<1>7. QED
  BY <1>2, <1>3, <1>6 DEF rows

LEMMA EditsWithKeeps ==
  ASSUME EditsTypeOK
  PROVE  EditsWith(editing) \in [Cell -> Value \cup {Original}]
<1>1. pendingEdits \in [Cell -> Value \cup {Original}] /\ (editing = NoDraft \/ editing.value \in Value \cup {Original})
  BY DEF EditsTypeOK
<1>2. QED
  BY <1>1 DEF EditsWith

\* A row staged on top has a key and a number of its own and moves the others down.
LEMMA AddRowEffect ==
  ASSUME EditsInv, NEW duplicated \in BOOLEAN, AddRow(duplicated)
  PROVE  /\ newRows' \in Seq(NewRowType)
         /\ DOMAIN newRows' = 1..(Len(newRows) + 1)
         /\ newRows'[1].key = stagedKeySeq + 1 /\ newRows'[1].id = stagedRows + 1
         /\ \A i \in 1..Len(newRows) : newRows'[i + 1] = newRows[i]
<1> DEFINE r == [key |-> stagedKeySeq + 1, value |-> Original, id |-> stagedRows + 1]
<1>1. newRows \in Seq(NewRowType) /\ stagedRows \in 0..MaxStaged /\ stagedKeySeq \in 0..MaxStaged
      /\ stagedKeySeq <= stagedRows
  BY DEF EditsInv, EditsTypeOK, KeysGoUp
<1>2. r \in NewRowType /\ r.key = stagedKeySeq + 1 /\ r.id = stagedRows + 1
  BY <1>1, EditsAssumption DEF AddRow, NewRowType
<1>3. newRows' = <<r>> \o newRows
  BY DEF AddRow
<1> HIDE DEF r
<1>4. <<r>> \in Seq(NewRowType) /\ Len(<<r>>) = 1 /\ <<r>>[1] = r
  BY <1>2
<1>5. /\ newRows' \in Seq(NewRowType) /\ Len(newRows') = 1 + Len(newRows)
      /\ \A i \in 1..(1 + Len(newRows)) : newRows'[i] = IF i <= 1 THEN <<r>>[i] ELSE newRows[i - 1]
  BY <1>1, <1>3, <1>4, ConcatProperties
<1>6. Len(newRows) \in Nat /\ DOMAIN newRows' = 1..Len(newRows')
  BY <1>1, <1>5, LenProperties
<1>7. newRows'[1] = r
  BY <1>4, <1>5, <1>6
<1>8. ASSUME NEW i \in 1..Len(newRows) PROVE newRows'[i + 1] = newRows[i]
  BY <1>5, <1>6
<1>9. QED
  BY <1>2, <1>5, <1>6, <1>7, <1>8

\* Escape takes the newest and moves the others up.
LEMMA CancelEffect ==
  ASSUME EditsInv, CancelNewRow
  PROVE  /\ newRows' \in Seq(NewRowType) /\ Len(newRows) \in Nat \ {0}
         /\ DOMAIN newRows' = 1..(Len(newRows) - 1)
         /\ \A i \in 1..(Len(newRows) - 1) : newRows'[i] = newRows[i + 1]
<1>1. newRows \in Seq(NewRowType) /\ newRows # <<>> /\ newRows' = Tail(newRows)
  BY DEF EditsInv, EditsTypeOK, CancelNewRow
<1>2. Len(newRows) \in Nat \ {0}
  BY <1>1, EmptySeq
<1>3. /\ newRows' \in Seq(NewRowType) /\ Len(newRows') = Len(newRows) - 1
      /\ \A i \in 1..Len(newRows') : newRows'[i] = newRows[i + 1]
  BY <1>1, HeadTailProperties
<1>4. DOMAIN newRows' = 1..Len(newRows')
  BY <1>3, LenProperties
<1>5. QED
  BY <1>2, <1>3, <1>4

\* The batch comes back and keys go on above the highest of it.
LEMMA ShowEffect ==
  ASSUME EditsInv, ShowGrid
  PROVE  /\ stagedKeySeq' \in 0..MaxStaged /\ stagedKeySeq' <= stagedRows
         /\ \A i \in DOMAIN newRows : newRows[i].key <= stagedKeySeq'
<1>1. /\ newRows \in Seq(NewRowType) /\ stagedRows \in 0..MaxStaged /\ stagedKeySeq \in 0..MaxStaged
      /\ stagedKeySeq <= stagedRows
      /\ \A i \in DOMAIN newRows : newRows[i] \in NewRowType /\ newRows[i].key <= stagedKeySeq
  BY DEF EditsInv, EditsTypeOK, KeysGoUp
<1>2. KeysOf(newRows) \in SUBSET (1..MaxStaged) /\ \A k \in KeysOf(newRows) : k <= stagedKeySeq
  BY <1>1 DEF KeysOf, NewRowType
<1>3. CASE newRows = <<>>
  BY <1>1, <1>3, EditsAssumption DEF ShowGrid
<1>4. CASE newRows # <<>>
  <2>1. 1 \in DOMAIN newRows
    BY <1>1, <1>4, EmptySeq, LenProperties
  <2>2. KeysOf(newRows) # {}
    BY <2>1 DEF KeysOf
  <2>3. PICK k \in KeysOf(newRows) : \A other \in KeysOf(newRows) : other <= k
    <3>1. /\ KeysOf(newRows) \in SUBSET Nat /\ stagedKeySeq \in Nat
          /\ \A x \in KeysOf(newRows) : x <= stagedKeySeq
      BY <1>1, <1>2
    <3>2. QED
      BY <2>2, <3>1, GreatestExists
  <2>4. stagedKeySeq' = CHOOSE k2 \in KeysOf(newRows) : \A other \in KeysOf(newRows) : other <= k2
    BY <1>4 DEF ShowGrid
  <2>5. stagedKeySeq' \in KeysOf(newRows) /\ \A other \in KeysOf(newRows) : other <= stagedKeySeq'
    BY <2>3, <2>4
  <2>6. \A i \in DOMAIN newRows : newRows[i].key \in KeysOf(newRows)
    BY DEF KeysOf
  <2>7. QED
    BY <1>1, <1>2, <2>5, <2>6, EditsAssumption
<1>5. QED
  BY <1>3, <1>4

\* Every step keeps the variables in their types.
LEMMA StepEditsTypeOK == EditsInv /\ [EditsNext]_editsVars => EditsTypeOK'
<1> SUFFICES ASSUME EditsInv, [EditsNext]_editsVars PROVE EditsTypeOK'
  OBVIOUS
<1>0. EditsTypeOK /\ stagedKeySeq <= stagedRows /\ BatchesStaged
  BY DEF EditsInv, KeysGoUp
<1> USE EditsAssumption
<1>1. CASE ShowGrid
  <2>1. stagedKeySeq' \in 0..MaxStaged
    BY <1>1, ShowEffect
  <2>2. grid' \in {0, grids'} /\ grids' \in 0..MaxGrids /\ grids <= grids' /\ grids \in Nat
    BY <1>0, <1>1 DEF ShowGrid, EditsTypeOK
  <2>3. \A s \in Saving : saves[s] = Unused \/ (saves[s].batch \in Batch /\ saves[s].grid \in 1..grids')
    BY <1>0, <2>2 DEF EditsTypeOK
  <2>4. QED
    BY <1>0, <1>1, <2>1, <2>2, <2>3 DEF ShowGrid, EditsTypeOK
<1>2. CASE LeaveGrid
  BY <1>0, <1>2 DEF LeaveGrid, EditsTypeOK
<1>3. CASE CommitEdit
  BY <1>0, <1>3, RowsWithKeeps, EditsWithKeeps DEF CommitEdit, EditsTypeOK
<1>4. CASE CancelEdit
  BY <1>0, <1>4 DEF CancelEdit, EditsTypeOK
<1>5. CASE CancelNewRow
  BY <1>0, <1>5, CancelEffect DEF CancelNewRow, EditsTypeOK
<1>6. ASSUME NEW on \in BOOLEAN, SetReadOnly(on) PROVE EditsTypeOK'
  BY <1>0, <1>6 DEF SetReadOnly, EditsTypeOK
<1>7. ASSUME NEW duplicated \in BOOLEAN, AddRow(duplicated) PROVE EditsTypeOK'
  <2>1. newRows' \in Seq(NewRowType)
    BY <1>7, AddRowEffect
  <2>2. stagedRows' \in 0..MaxStaged /\ stagedKeySeq' \in 0..MaxStaged /\ committed \subseteq 1..stagedRows'
    BY <1>0, <1>7 DEF AddRow, EditsTypeOK
  <2>3. QED
    BY <1>0, <1>7, <2>1, <2>2 DEF AddRow, EditsTypeOK
<1>8. ASSUME NEW everyTab \in BOOLEAN, Discard(everyTab) PROVE EditsTypeOK'
  <2>1. pendingEdits' \in [Cell -> Value \cup {Original}] /\ newRows' \in Seq(NewRowType)
    BY <1>8, EmptySeq DEF Discard, Clean
  <2>2. QED
    BY <1>0, <1>8, <2>1 DEF Discard, EditsTypeOK
<1>9. ASSUME NEW target \in Cell \cup (1..MaxStaged), NEW value \in Value \cup {Original}, StartEdit(target, value)
      PROVE EditsTypeOK'
  BY <1>0, <1>9 DEF StartEdit, EditsTypeOK
<1>10. ASSUME NEW batch \in Batch, grid # 0, RunSave(batch)
       PROVE  \A s \in Saving : saves'[s] = Unused \/ (saves'[s].batch \in Batch /\ saves'[s].grid \in 1..grids)
  <2>1. PICK s \in Saving : saves' = [saves EXCEPT ![s] = [batch |-> batch, grid |-> grid]]
    BY <1>10 DEF RunSave
  <2>2. grid \in 1..grids
    BY <1>0, <1>10 DEF EditsTypeOK
  <2>3. QED
    BY <1>0, <2>1, <2>2 DEF EditsTypeOK, BatchesStaged
<1>11. CASE Save
  <2> DEFINE batch == [edits |-> EditsWith(editing), rows |-> RowsWith(editing)]
  <2>1. batch \in Batch
    BY <1>0, RowsWithKeeps, EditsWithKeeps DEF Batch
  <2>2. /\ grid # 0
        /\ \/ UNCHANGED <<saves, saveConfirm>>
           \/ saveConfirm' = batch /\ UNCHANGED saves
           \/ RunSave(batch) /\ UNCHANGED saveConfirm
        /\ editing' = NoDraft
        /\ UNCHANGED <<production, workspaceReadOnly, grid, grids, pendingEdits, newRows,
                       stagedKeySeq, stagedRows, committed>>
    BY <1>11 DEF Save
  <2> HIDE DEF batch
  <2>3. \A s \in Saving : saves'[s] = Unused \/ (saves'[s].batch \in Batch /\ saves'[s].grid \in 1..grids)
    BY <1>0, <1>10, <2>1, <2>2 DEF EditsTypeOK
  <2>4. QED
    BY <1>0, <2>1, <2>2, <2>3 DEF EditsTypeOK
<1>12. CASE ConfirmSave
  <2>1. saveConfirm \in Batch /\ grid # 0
    BY <1>0, <1>12 DEF ConfirmSave, BatchesStaged
  <2>2. \A s \in Saving : saves'[s] = Unused \/ (saves'[s].batch \in Batch /\ saves'[s].grid \in 1..grids)
    BY <1>10, <1>12, <2>1 DEF ConfirmSave
  <2>3. QED
    BY <1>0, <1>12, <2>2 DEF ConfirmSave, EditsTypeOK
<1>13. CASE CancelSave
  BY <1>0, <1>13 DEF CancelSave, EditsTypeOK
<1>14. ASSUME NEW s \in Saving, saves' = [saves EXCEPT ![s] = Unused]
       PROVE  \A t \in Saving : saves'[t] = Unused \/ (saves'[t].batch \in Batch /\ saves'[t].grid \in 1..grids)
  BY <1>0, <1>14 DEF EditsTypeOK, BatchesStaged
<1>15. ASSUME NEW s \in Saving, SaveDone(s) PROVE EditsTypeOK'
  <2> DEFINE rows == saves[s].batch.rows
  <2>1. rows \in Seq(NewRowType) /\ RowsStaged(rows)
    BY <1>0, <1>15 DEF SaveDone, EditsTypeOK, Batch, BatchesStaged
  <2>2. \A i \in DOMAIN rows : rows[i].id \in 1..MaxStaged /\ rows[i].id <= stagedRows
    <3>1. \A i \in DOMAIN rows : rows[i] \in NewRowType
      BY <2>1
    <3>2. QED
      BY <2>1, <3>1 DEF RowsStaged, NewRowType
  <2>3. IdsOf(rows) \subseteq 1..stagedRows
    BY <1>0, <2>2 DEF IdsOf, EditsTypeOK
  <2>4. committed' \subseteq 1..stagedRows
    BY <1>0, <1>15, <2>3 DEF SaveDone, EditsTypeOK
  <2>5. pendingEdits' \in [Cell -> Value \cup {Original}] /\ newRows' \in Seq(NewRowType)
    BY <1>0, <1>15, EmptySeq DEF SaveDone, EditsTypeOK, Clean
  <2>6. QED
    BY <1>0, <1>14, <1>15, <2>4, <2>5 DEF SaveDone, EditsTypeOK
<1>16. ASSUME NEW s \in Saving, SaveFailed(s) PROVE EditsTypeOK'
  BY <1>0, <1>14, <1>16 DEF SaveFailed, EditsTypeOK
<1>17. CASE UNCHANGED editsVars
  BY <1>0, <1>17 DEF editsVars, EditsTypeOK
<1>18. QED
  BY <1>1, <1>2, <1>3, <1>4, <1>5, <1>6, <1>7, <1>8, <1>9, <1>11, <1>12, <1>13, <1>15, <1>16, <1>17
     DEF EditsNext

\* Keys go on going up, and none is given twice: an instance that starts over begins above
\* the highest key it finds.
LEMMA StepKeysGoUp == EditsInv /\ [EditsNext]_editsVars => KeysGoUp'
<1> SUFFICES ASSUME EditsInv, [EditsNext]_editsVars PROVE KeysGoUp'
  OBVIOUS
<1>0. EditsTypeOK /\ KeysGoUp
  BY DEF EditsInv
<1>1. CASE ShowGrid
  BY <1>0, <1>1, ShowEffect DEF ShowGrid, KeysGoUp
<1>2. CASE CommitEdit
  BY <1>0, <1>2, RowsWithKeeps DEF CommitEdit, KeysGoUp
<1>3. CASE CancelNewRow
  <2>1. /\ DOMAIN newRows' = 1..(Len(newRows) - 1) /\ Len(newRows) \in Nat /\ DOMAIN newRows = 1..Len(newRows)
        /\ \A i \in 1..(Len(newRows) - 1) : newRows'[i] = newRows[i + 1]
    BY <1>0, <1>3, CancelEffect, LenProperties DEF EditsTypeOK
  <2>2. UNCHANGED <<stagedRows, stagedKeySeq>>
    BY <1>3 DEF CancelNewRow
  <2>3. \A i \in DOMAIN newRows' : i + 1 \in DOMAIN newRows /\ newRows'[i] = newRows[i + 1]
    BY <2>1
  <2>4. \A i, j \in DOMAIN newRows' : newRows'[i].key = newRows'[j].key => i = j
    <3>1. ASSUME NEW i \in DOMAIN newRows', NEW j \in DOMAIN newRows', newRows'[i].key = newRows'[j].key
          PROVE  i = j
      <4>1. i + 1 = j + 1
        BY <1>0, <2>3, <3>1 DEF KeysGoUp
      <4>2. QED
        BY <2>1, <4>1
    <3>2. QED
      BY <3>1
  <2>5. QED
    BY <1>0, <2>2, <2>3, <2>4 DEF KeysGoUp
<1>4. ASSUME NEW duplicated \in BOOLEAN, AddRow(duplicated) PROVE KeysGoUp'
  <2>1. /\ DOMAIN newRows' = 1..(Len(newRows) + 1) /\ newRows'[1].key = stagedKeySeq + 1
        /\ \A i \in 1..Len(newRows) : newRows'[i + 1] = newRows[i]
    BY <1>4, AddRowEffect
  <2>2. /\ Len(newRows) \in Nat /\ DOMAIN newRows = 1..Len(newRows)
        /\ \A i \in DOMAIN newRows : newRows[i].key \in Nat
        /\ stagedKeySeq \in Nat /\ stagedRows \in Nat
    <3>1. \A i \in DOMAIN newRows : newRows[i] \in NewRowType
      BY <1>0 DEF EditsTypeOK
    <3>2. QED
      BY <1>0, <3>1, LenProperties DEF EditsTypeOK, NewRowType
  <2>3. stagedRows' = stagedRows + 1 /\ stagedKeySeq' = stagedKeySeq + 1
    BY <1>4 DEF AddRow
  <2>4. ASSUME NEW i \in DOMAIN newRows'
        PROVE  i = 1 \/ (i - 1 \in DOMAIN newRows /\ newRows'[i] = newRows[i - 1])
    BY <2>1, <2>2
  <2>5. \A i \in DOMAIN newRows' : newRows'[i].key <= stagedKeySeq'
    BY <1>0, <2>1, <2>2, <2>3, <2>4 DEF KeysGoUp
  <2>6. ASSUME NEW i \in DOMAIN newRows', NEW j \in DOMAIN newRows', newRows'[i].key = newRows'[j].key
        PROVE  i = j
    <3>1. CASE i = 1 \/ j = 1
      BY <1>0, <2>1, <2>2, <2>4, <2>6, <3>1 DEF KeysGoUp
    <3>2. CASE i # 1 /\ j # 1
      <4>1. i - 1 = j - 1
        BY <1>0, <2>4, <2>6, <3>2 DEF KeysGoUp
      <4>2. QED
        BY <2>1, <4>1
    <3>3. QED
      BY <3>1, <3>2
  <2>7. QED
    BY <1>0, <2>2, <2>3, <2>5, <2>6 DEF KeysGoUp
<1>5. ASSUME newRows' \in {<<>>, newRows}, UNCHANGED <<stagedRows, stagedKeySeq>> PROVE KeysGoUp'
  BY <1>0, <1>5 DEF KeysGoUp
<1>6. CASE LeaveGrid \/ CancelEdit \/ CancelSave \/ ConfirmSave \/ UNCHANGED editsVars
  BY <1>5, <1>6 DEF LeaveGrid, CancelEdit, CancelSave, ConfirmSave, editsVars
<1>7. CASE \E on \in BOOLEAN : SetReadOnly(on) \/ Discard(on)
  BY <1>5, <1>7 DEF SetReadOnly, Discard
<1>8. CASE \E target \in Cell \cup (1..MaxStaged), value \in Value \cup {Original} : StartEdit(target, value)
  BY <1>5, <1>8 DEF StartEdit
<1>9. CASE Save
  BY <1>5, <1>9 DEF Save
<1>10. CASE \E s \in Saving : SaveDone(s) \/ SaveFailed(s)
  BY <1>5, <1>10 DEF SaveDone, SaveFailed
<1>11. QED
  BY <1>1, <1>2, <1>3, <1>4, <1>6, <1>7, <1>8, <1>9, <1>10 DEF EditsNext

\* What is shown or sent stays what was staged when it was, and a confirmation keeps the grid
\* that asks for it on screen.
LEMMA StepBatchesStaged == EditsInv /\ [EditsNext]_editsVars => BatchesStaged'
<1> SUFFICES ASSUME EditsInv, [EditsNext]_editsVars PROVE BatchesStaged'
  OBVIOUS
<1>0. EditsTypeOK /\ BatchesStaged
  BY DEF EditsInv
<1>1. CASE ShowGrid
  <2>1. saveConfirm = NoBatch
    BY <1>0, <1>1 DEF ShowGrid, BatchesStaged
  <2>2. QED
    BY <1>0, <1>1, <2>1 DEF ShowGrid, BatchesStaged, RowsStaged
<1>2. CASE CommitEdit
  BY <1>0, <1>2, RowsWithKeeps DEF CommitEdit, BatchesStaged, RowsStaged
<1>3. CASE CancelNewRow
  <2>1. /\ DOMAIN newRows' = 1..(Len(newRows) - 1) /\ Len(newRows) \in Nat /\ DOMAIN newRows = 1..Len(newRows)
        /\ \A i \in 1..(Len(newRows) - 1) : newRows'[i] = newRows[i + 1]
    BY <1>0, <1>3, CancelEffect, LenProperties DEF EditsInv, EditsTypeOK
  <2>2. \A i \in DOMAIN newRows' : i + 1 \in DOMAIN newRows /\ newRows'[i] = newRows[i + 1]
    BY <2>1
  <2>3. QED
    BY <1>0, <1>3, <2>2 DEF CancelNewRow, BatchesStaged, RowsStaged
<1>4. ASSUME NEW duplicated \in BOOLEAN, AddRow(duplicated) PROVE BatchesStaged'
  <2>1. /\ DOMAIN newRows' = 1..(Len(newRows) + 1) /\ newRows'[1].id = stagedRows + 1
        /\ \A i \in 1..Len(newRows) : newRows'[i + 1] = newRows[i]
    BY <1>4, AddRowEffect
  <2>2. /\ Len(newRows) \in Nat /\ DOMAIN newRows = 1..Len(newRows) /\ stagedRows \in Nat
    BY <1>0, LenProperties DEF EditsTypeOK
  <2>3. stagedRows' = stagedRows + 1
    BY <1>4 DEF AddRow
  <2>4. ASSUME NEW rows \in Seq(NewRowType), RowsStaged(rows) PROVE RowsStaged(rows)'
    <3>1. \A i \in DOMAIN rows : rows[i] \in NewRowType
      BY <2>4
    <3>2. \A i \in DOMAIN rows : rows[i].id \in Int
      BY <3>1 DEF NewRowType
    <3>3. QED
      BY <2>2, <2>3, <2>4, <3>2 DEF RowsStaged
  <2>5. ASSUME NEW i \in DOMAIN newRows'
        PROVE  i = 1 \/ (i - 1 \in DOMAIN newRows /\ newRows'[i] = newRows[i - 1])
    BY <2>1, <2>2
  <2>6. RowsStaged(newRows)'
    <3>1. \A i \in DOMAIN newRows : newRows[i].id <= stagedRows'
      BY <1>0, <2>4 DEF EditsTypeOK, BatchesStaged, RowsStaged
    <3>2. QED
      BY <2>1, <2>2, <2>3, <2>5, <3>1 DEF RowsStaged
  <2>7. UNCHANGED <<grid, saves, saveConfirm>>
    BY <1>4 DEF AddRow
  <2>8. saveConfirm # NoBatch => RowsStaged(saveConfirm.rows)'
    BY <1>0, <2>4, <2>7 DEF BatchesStaged, Batch
  <2>9. \A s \in Saving : saves[s] # Unused => RowsStaged(saves[s].batch.rows)'
    BY <1>0, <2>4, <2>7 DEF EditsTypeOK, BatchesStaged, Batch
  <2>10. QED
    BY <1>0, <2>6, <2>7, <2>8, <2>9 DEF BatchesStaged, RowsStaged
<1>5. ASSUME newRows' \in {<<>>, newRows}, saveConfirm' \in {NoBatch, saveConfirm}, UNCHANGED <<stagedRows, saves>>,
             grid' = grid \/ saveConfirm' = NoBatch
      PROVE  BatchesStaged'
  BY <1>0, <1>5 DEF BatchesStaged, RowsStaged
<1>6. CASE LeaveGrid \/ CancelEdit \/ CancelSave \/ UNCHANGED editsVars
  BY <1>5, <1>6 DEF LeaveGrid, CancelEdit, CancelSave, editsVars
<1>7. CASE \E on \in BOOLEAN : SetReadOnly(on) \/ Discard(on)
  BY <1>5, <1>7 DEF SetReadOnly, Discard
<1>8. CASE \E target \in Cell \cup (1..MaxStaged), value \in Value \cup {Original} : StartEdit(target, value)
  BY <1>5, <1>8 DEF StartEdit
<1>9. ASSUME NEW batch, RowsStaged(batch.rows), RunSave(batch)
      PROVE  DOMAIN saves' = Saving /\ \A s \in Saving : saves'[s] # Unused => RowsStaged(saves'[s].batch.rows)
  BY <1>0, <1>9 DEF RunSave, BatchesStaged
<1>10. CASE Save
  <2> DEFINE batch == [edits |-> EditsWith(editing), rows |-> RowsWith(editing)]
  <2>1. batch \in Batch
    BY <1>0, RowsWithKeeps, EditsWithKeeps DEF Batch
  <2>2. RowsStaged(batch.rows)
    BY <1>0, RowsWithKeeps DEF BatchesStaged, RowsStaged
  <2>3. /\ grid # 0
        /\ \/ UNCHANGED <<saves, saveConfirm>>
           \/ saveConfirm' = batch /\ UNCHANGED saves
           \/ RunSave(batch) /\ UNCHANGED saveConfirm
        /\ UNCHANGED <<grid, newRows, stagedRows>>
    BY <1>10 DEF Save
  <2> HIDE DEF batch
  <2>4. CASE UNCHANGED saves
    BY <1>0, <2>1, <2>2, <2>3, <2>4 DEF BatchesStaged, RowsStaged
  <2>5. CASE RunSave(batch) /\ UNCHANGED saveConfirm
    BY <1>0, <1>9, <2>2, <2>3, <2>5 DEF BatchesStaged, RowsStaged
  <2>6. QED
    BY <2>3, <2>4, <2>5
<1>11. CASE ConfirmSave
  <2>1. RowsStaged(saveConfirm.rows) /\ RunSave(saveConfirm) /\ saveConfirm' = NoBatch
        /\ UNCHANGED <<newRows, stagedRows>>
    BY <1>0, <1>11 DEF ConfirmSave, BatchesStaged
  <2>2. QED
    BY <1>0, <1>9, <2>1 DEF BatchesStaged, RowsStaged
<1>12. CASE \E s \in Saving : SaveDone(s) \/ SaveFailed(s)
  <2>1. PICK s \in Saving : SaveDone(s) \/ SaveFailed(s)
    BY <1>12
  <2>2. saves' = [saves EXCEPT ![s] = Unused] /\ newRows' \in {<<>>, newRows} /\ UNCHANGED <<stagedRows, saveConfirm, grid>>
    BY <2>1 DEF SaveDone, SaveFailed
  <2>3. DOMAIN saves' = Saving /\ \A t \in Saving : saves'[t] = Unused \/ saves'[t] = saves[t]
    BY <1>0, <2>2 DEF BatchesStaged
  <2>4. QED
    BY <1>0, <2>2, <2>3 DEF BatchesStaged, RowsStaged
<1>13. QED
  BY <1>1, <1>2, <1>3, <1>4, <1>6, <1>7, <1>8, <1>10, <1>11, <1>12 DEF EditsNext

LEMMA EditsStart == EditsInit => EditsInv
<1> SUFFICES ASSUME EditsInit PROVE EditsInv
  OBVIOUS
<1> USE EditsAssumption DEF EditsInit
<1>1. EditsTypeOK
  <2>1. newRows \in Seq(NewRowType) /\ pendingEdits \in [Cell -> Value \cup {Original}]
    BY EmptySeq DEF Clean
  <2>2. \A s \in Saving : saves[s] = Unused
    OBVIOUS
  <2>3. grid \in {0, grids} /\ grids \in 0..MaxGrids /\ stagedKeySeq \in 0..MaxStaged /\ stagedRows \in 0..MaxStaged
    OBVIOUS
  <2>4. /\ production \in BOOLEAN /\ workspaceReadOnly \in BOOLEAN /\ editing = NoDraft /\ saveConfirm = NoBatch
        /\ committed = {}
    OBVIOUS
  <2> HIDE DEF EditsInit
  <2>5. QED
    BY <2>1, <2>2, <2>3, <2>4 DEF EditsTypeOK
<1>2. KeysGoUp /\ BatchesStaged
  BY DEF KeysGoUp, BatchesStaged, RowsStaged
<1>3. QED
  BY <1>1, <1>2 DEF EditsInv

LEMMA EditsStep == EditsInv /\ [EditsNext]_editsVars => EditsInv'
  BY StepEditsTypeOK, StepKeysGoUp, StepBatchesStaged DEF EditsInv

\* EditsInv is an inductive invariant of what is staged.
THEOREM EditsInvariant == EditsSpec => []EditsInv
  BY EditsStart, EditsStep, PTL DEF EditsSpec

\* Staged edits keep their types.
THEOREM EditsTypeCorrect == EditsSpec => []EditsTypeOK
<1>1. EditsInv => EditsTypeOK
  BY DEF EditsInv
<1>2. QED
  BY <1>1, EditsInvariant, PTL

LEMMA EditsInvDistinct == ASSUME EditsInv PROVE StagedKeysDistinct
<1>1. Len(newRows) \in Nat /\ DOMAIN newRows = 1..Len(newRows)
  BY LenProperties DEF EditsInv, EditsTypeOK
<1> DEFINE f == [i \in 1..Len(newRows) |-> newRows[i].key]
<1>2. f \in [1..Len(newRows) -> KeysOf(newRows)]
  BY <1>1 DEF KeysOf
<1>3. \A i, j \in 1..Len(newRows) : f[i] = f[j] => i = j
  BY <1>1 DEF EditsInv, KeysGoUp
<1>4. \A k \in KeysOf(newRows) : \E i \in 1..Len(newRows) : f[i] = k
  BY <1>1 DEF KeysOf
<1> HIDE DEF f
<1>5. ExistsBijection(1..Len(newRows), KeysOf(newRows))
  BY <1>2, <1>3, <1>4 DEF ExistsBijection, Bijection, Injection, Surjection, IsInjective
<1>6. QED
  BY <1>1, <1>5, FS_CountingElements DEF StagedKeysDistinct

\* No two staged rows have one key, also among rows that were restored (DataGrid.tsx).
THEOREM KeysAreDistinct == EditsSpec => []StagedKeysDistinct
  BY EditsInvDistinct, EditsInvariant, PTL

\* On production, what runs is the batch that was shown for confirmation.
THEOREM ShownIsWhatRuns == EditsSpec => ProductionRunsWhatWasShown
<1> DEFINE Shown == \A s \in Saving :
                      production /\ saves[s] = Unused /\ saves'[s] # Unused
                        => saves'[s].batch = saveConfirm
<1>1. ASSUME EditsInv, EditsNext PROVE Shown
  <2>0. DOMAIN saves = Saving
    BY <1>1 DEF EditsInv, BatchesStaged
  <2>1. CASE UNCHANGED saves
    BY <2>1
  <2>2. CASE Save
    BY <2>1, <2>2 DEF Save
  <2>3. CASE ConfirmSave
    BY <2>0, <2>3 DEF ConfirmSave, RunSave
  <2>4. CASE \E s \in Saving : SaveDone(s) \/ SaveFailed(s)
    BY <2>0, <2>4 DEF SaveDone, SaveFailed
  <2>5. QED
    BY <1>1, <2>1, <2>2, <2>3, <2>4 DEF EditsNext, ShowGrid, LeaveGrid, CommitEdit, CancelEdit,
       CancelNewRow, SetReadOnly, AddRow, Discard, StartEdit, CancelSave
<1>2. EditsInv /\ [EditsNext]_editsVars => [Shown]_editsVars
  BY <1>1
<1>3. QED
  BY <1>2, EditsInvariant, PTL DEF EditsSpec, ProductionRunsWhatWasShown

\* A staged row goes only with a save that was answered well, a discard, or Escape.
THEOREM RowsAreKept == EditsSpec => StagedRowsAreKept
<1>1. ASSUME EditsInv, EditsNext PROVE RowsGoByIntent
  <2> USE DEF RowsGoByIntent
  <2>0. /\ EditsTypeOK /\ DOMAIN saves = Saving
        /\ DOMAIN newRows = 1..Len(newRows) /\ Len(newRows) \in Nat
    BY <1>1, LenProperties DEF EditsInv, BatchesStaged, EditsTypeOK
  <2>1. CASE UNCHANGED newRows
    BY <2>1 DEF IdsOf
  <2>2. CASE CommitEdit
    BY <2>0, <2>2, RowsWithKeeps DEF CommitEdit, IdsOf
  <2>3. CASE CancelNewRow
    <3>1. /\ DOMAIN newRows' = 1..(Len(newRows) - 1)
          /\ \A i \in 1..(Len(newRows) - 1) : newRows'[i] = newRows[i + 1]
      BY <1>1, <2>3, CancelEffect
    <3>2. ASSUME NEW i \in DOMAIN newRows, i # 1 PROVE newRows[i].id \in IdsOf(newRows')
      <4>1. i - 1 \in DOMAIN newRows' /\ newRows'[i - 1] = newRows[i]
        BY <2>0, <3>1, <3>2
      <4>2. QED
        BY <4>1 DEF IdsOf
    <3>3. newRows' = Tail(newRows)
      BY <2>3 DEF CancelNewRow
    <3>4. QED
      BY <3>2, <3>3
  <2>4. CASE \E on \in BOOLEAN : AddRow(on)
    <3>1. /\ DOMAIN newRows' = 1..(Len(newRows) + 1)
          /\ \A i \in 1..Len(newRows) : newRows'[i + 1] = newRows[i]
      BY <1>1, <2>4, AddRowEffect
    <3>2. ASSUME NEW i \in DOMAIN newRows PROVE newRows[i].id \in IdsOf(newRows')
      <4>1. i + 1 \in DOMAIN newRows' /\ newRows'[i + 1] = newRows[i]
        BY <2>0, <3>1
      <4>2. QED
        BY <4>1 DEF IdsOf
    <3>3. QED
      BY <3>2
  <2>5. CASE \E on \in BOOLEAN : Discard(on)
    BY <2>5 DEF Discard
  <2>6. CASE \E s \in Saving : SaveDone(s)
    BY <2>0, <2>6 DEF SaveDone
  <2>7. QED
    BY <1>1, <2>1, <2>2, <2>3, <2>4, <2>5, <2>6 DEF EditsNext, ShowGrid, LeaveGrid, CancelEdit,
       SetReadOnly, StartEdit, Save, ConfirmSave, CancelSave, SaveFailed
<1>2. EditsInv /\ [EditsNext]_editsVars => [RowsGoByIntent]_editsVars
  BY <1>1
<1>3. QED
  BY <1>2, EditsInvariant, PTL DEF EditsSpec, StagedRowsAreKept

-----------------------------------------------------------------------------
(* The run that drives one of them: each keeps its own invariant, and leaves   *)
(* the other's variables alone.                                                *)

GridInv == PagesInv /\ PagesTypes /\ EditsInv

LEMMA GridStart == GridInit => GridInv
  BY PagesStart, PagesTypesStart, EditsStart DEF GridInit, GridInv

LEMMA GridStep == GridInv /\ [GridNext]_gridVars => GridInv'
<1> SUFFICES ASSUME PagesInv, PagesTypes, EditsInv, [GridNext]_gridVars
             PROVE  PagesInv' /\ PagesTypes' /\ EditsInv'
  BY DEF GridInv
<1>1. [PagesNext]_pagesVars /\ [EditsNext]_editsVars
  BY DEF GridNext, gridVars
<1>2. PagesInv' /\ PagesTypes'
  BY <1>1, PagesStep, PagesTypesStep
<1>3. EditsInv'
  BY <1>1, EditsStep
<1>4. QED
  BY <1>2, <1>3

\* Types, keys of staged rows that differ, no loading line without a load: whichever of the
\* parts is driven.
THEOREM GridRunIsWellFormed == GridSpec => []GridWellFormed
<1>1. GridInv => GridWellFormed
  BY PagesTypesAreTypes, EditsInvDistinct DEF GridInv, PagesInv, EditsInv, GridWellFormed
<1>2. QED
  BY <1>1, GridStart, GridStep, PTL DEF GridSpec
===============================================================================
