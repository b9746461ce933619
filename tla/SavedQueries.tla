----------------------------- MODULE SavedQueries -----------------------------
(***************************************************************************)
(* Saved queries: the list the app shows (saved_queries/state.ts), the     *)
(* file it stands for (saved_queries of the backend), and the query tabs   *)
(* linked to its entries (SqlEditorTab.tsx, WorkspaceContent.tsx). The     *)
(* snippets of snippets/state.ts are kept the same way.                    *)
(***************************************************************************)
EXTENDS Integers, FiniteSets

CONSTANTS
  QueryTab,    \* the query tabs of the workspace on screen
  Text,        \* what a buffer can hold
  Filled,      \* what a parameter of it can be filled with
  Query,       \* ids the backend gives saved queries
  None,        \* no entry, no value
  Call,        \* bound: calls to the backend in flight
  MaxCalls     \* bound: calls in a behaviour

ASSUME QueriesAssumption == None \notin Query \cup Filled /\ MaxCalls \in Nat \ {0}

VARIABLES
  shownTab,     \* the query tab on screen
  buffer,       \* by tab: text, savedQueryId, the value filled in
  source,       \* history: the entry the buffer was last loaded from or saved as
  savedQueries, \* the list: text and value by id, or None
  loaded,       \* a load has settled, or a save came first
  storedQueries, \* the file
  calls,        \* calls in flight
  called,       \* calls so far
  alone         \* history: no two calls were ever in flight together, and none failed

queriesVars ==
  <<shownTab, buffer, source, savedQueries, loaded, storedQueries, calls, called, alone>>

Entry == [text : Text, value : Filled \cup {None}]
NoCall == [kind |-> "none"]
Sent(kind, id, entry, from) ==
  [kind |-> kind, id |-> id, entry |-> entry, from |-> from, kept |-> TRUE, done |-> FALSE]
NoQueries == [q \in Query |-> None]

QueriesTypeOK ==
  /\ shownTab \in QueryTab
  /\ \A t \in QueryTab : buffer[t].saved \in Query \cup {None}
                         /\ [text |-> buffer[t].text, value |-> buffer[t].value] \in Entry
  /\ source \in [QueryTab -> Query \cup {None}]
  /\ savedQueries \in [Query -> Entry \cup {None}]
  /\ storedQueries \in [Query -> Entry \cup {None}]
  /\ \A q \in Query : savedQueries[q] # None => loaded
  /\ loaded \in BOOLEAN /\ alone \in BOOLEAN /\ called \in 0..MaxCalls

\* The first tab asks for the list as it is mounted.
QueriesInit ==
  /\ shownTab \in QueryTab
  /\ buffer \in [QueryTab -> {[text |-> x, saved |-> None, value |-> None] : x \in Text}]
  /\ source = [t \in QueryTab |-> None]
  /\ savedQueries = NoQueries /\ loaded = FALSE
  /\ \E q \in Query, x \in Text :
       storedQueries \in {NoQueries, [NoQueries EXCEPT ![q] = [text |-> x, value |-> None]]}
  /\ \E c \in Call :
       calls = [d \in Call |-> IF d = c THEN Sent("list", None, None, shownTab) ELSE NoCall]
  /\ called = 1 /\ alone = TRUE

-----------------------------------------------------------------------------
(* The tabs.                                                               *)

\* The entry the tab on screen is linked to, when the list still has it.
Linked ==
  LET id == buffer[shownTab].saved  IN  IF id # None /\ savedQueries[id] # None THEN id ELSE None

\* A save in flight is then of a text the tab no longer holds.
Replace(text, saved, value) ==
  /\ buffer' = [buffer EXCEPT ![shownTab] = [text |-> text, saved |-> saved, value |-> value]]
  /\ source' = [source EXCEPT ![shownTab] = saved]
  /\ calls' = [c \in Call |-> IF calls[c] # NoCall /\ calls[c].from = shownTab
                              THEN [calls[c] EXCEPT !.kept = FALSE] ELSE calls[c]]
  /\ UNCHANGED <<shownTab, savedQueries, loaded, storedQueries, called, alone>>

\* setSqlText
EditText(text) ==
  /\ buffer' = [buffer EXCEPT ![shownTab].text = text]
  /\ UNCHANGED <<shownTab, source, savedQueries, loaded, storedQueries, calls, called, alone>>

\* A history entry, a snippet or a file: the tab stops being linked.
LoadOther(text) == Replace(text, None, None)

LoadSavedQuery(q) ==
  /\ savedQueries[q] # None
  /\ Replace(savedQueries[q].text, q, savedQueries[q].value)

\* setSqlParam
FillIn(value) ==
  /\ buffer' = [buffer EXCEPT ![shownTab].value = value]
  /\ UNCHANGED <<shownTab, source, savedQueries, loaded, storedQueries, calls, called, alone>>

ShowQueryTab(t) ==
  /\ shownTab' = t
  /\ UNCHANGED <<buffer, source, savedQueries, loaded, storedQueries, calls, called, alone>>

-----------------------------------------------------------------------------
(* The calls.                                                              *)

Send(kind, id, entry) ==
  /\ called < MaxCalls /\ called' = called + 1
  /\ \E c \in Call :
       /\ calls[c] = NoCall
       /\ calls' = [calls EXCEPT ![c] = Sent(kind, id, entry, shownTab)]
  /\ alone' = (alone /\ \A c \in Call : calls[c] = NoCall)
  /\ UNCHANGED <<shownTab, buffer, source, savedQueries, loaded, storedQueries>>

\* load: so do the other tabs, the drawer and the palette, until one has settled.
LoadList == ~loaded /\ Send("list", None, None)

\* doSave updates the entry the tab is linked to, unless a copy is asked for.
UpdatedId(asNew) == IF asNew THEN None ELSE Linked

DoSave(asNew) ==
  Send("save", UpdatedId(asNew), [text |-> buffer[shownTab].text, value |-> buffer[shownTab].value])

\* rememberParamValues after a run: the linked entry, as the list has it, with the value.
RememberParamValues ==
  /\ Linked # None /\ savedQueries[Linked].value # buffer[shownTab].value
  /\ Send("remember", Linked, [savedQueries[Linked] EXCEPT !.value = buffer[shownTab].value])

RemoveQuery(q) == savedQueries[q] # None /\ Send("remove", q, None)

\* An id nothing has had: a UUID.
Fresh(q) ==
  /\ storedQueries[q] = None /\ savedQueries[q] = None
  /\ \A t \in QueryTab : q \notin {buffer[t].saved, source[t]}
  /\ \A c \in Call : calls[c] # NoCall => calls[c].id # q

\* The backend: one write at a time, in any order. A new entry gets its id, an update of
\* an entry that is gone puts it back, and only what is there can be removed.
Reach(c) ==
  LET call == calls[c]
      ids == IF call.id = None /\ call.kind = "save"
             THEN {q \in Query : Fresh(q)} ELSE {call.id}
  IN
  /\ call # NoCall /\ ~call.done
  /\ call.kind = "remove" => storedQueries[call.id] # None
  /\ \E id \in ids :
       /\ storedQueries' = IF call.kind = "list" THEN storedQueries
                           ELSE [storedQueries EXCEPT ![id] = call.entry]
       /\ calls' = [calls EXCEPT ![c] = [call EXCEPT !.done = TRUE, !.id = id,
                      !.entry = IF call.kind = "list" THEN storedQueries ELSE call.entry]]
  /\ UNCHANGED <<shownTab, buffer, source, savedQueries, loaded, called, alone>>

\* Bug variant: a removal leaves the list to the next load.
ListedKeepingRemoved(call) ==
  CASE call.kind = "list" -> call.entry
    [] call.kind = "remove" -> savedQueries
    [] OTHER -> [savedQueries EXCEPT ![call.id] = call.entry]

\* The list after an answer.
ListAfter(call) ==
  IF call.kind = "list" THEN call.entry ELSE [savedQueries EXCEPT ![call.id] = call.entry]

\* "A successful save proves the backend store is reachable."
LoadedAfter(call) == loaded \/ call.kind # "remove"

\* A save also links its tab to the entry.
Reply(c) ==
  LET call == calls[c]
      links == call.kind = "save"
  IN
  /\ call # NoCall /\ call.done /\ calls' = [calls EXCEPT ![c] = NoCall]
  /\ savedQueries' = ListAfter(call)
  /\ loaded' = LoadedAfter(call)
  /\ buffer' = IF links THEN [buffer EXCEPT ![call.from].saved = call.id] ELSE buffer
  /\ source' = IF links /\ call.kept THEN [source EXCEPT ![call.from] = call.id] ELSE source
  /\ UNCHANGED <<shownTab, storedQueries, called, alone>>

\* A file that cannot be read is shown as an empty list with its error.
CallFails(c) ==
  /\ calls[c] # NoCall /\ ~calls[c].done /\ calls' = [calls EXCEPT ![c] = NoCall]
  /\ IF calls[c].kind = "list" THEN loaded' = TRUE /\ savedQueries' = NoQueries
     ELSE UNCHANGED <<loaded, savedQueries>>
  /\ alone' = FALSE
  /\ UNCHANGED <<shownTab, buffer, source, storedQueries, called>>

-----------------------------------------------------------------------------
QueriesNext ==
  \/ \E x \in Text : EditText(x) \/ LoadOther(x)
  \/ \E v \in Filled : FillIn(v)
  \/ \E q \in Query : LoadSavedQuery(q) \/ RemoveQuery(q)
  \/ \E t \in QueryTab : ShowQueryTab(t)
  \/ LoadList \/ RememberParamValues
  \/ \E asNew \in BOOLEAN : DoSave(asNew)
  \/ \E c \in Call : Reach(c) \/ Reply(c) \/ CallFails(c)

QueriesSpec == QueriesInit /\ [][QueriesNext]_queriesVars

-----------------------------------------------------------------------------
(* Properties.                                                             *)

\* "The JSON store is the source of truth" (saved_queries/state.ts): while calls go one
\* at a time and are answered, what the drawer shows is what the file holds.
ListIsTheFile ==
  loaded /\ alone /\ (\A c \in Call : calls[c] = NoCall)
  => savedQueries = storedQueries

\* Does not hold: what a tab saves over is the entry its text came from (SqlEditorTab load,
\* "the next save must not overwrite the entry the previous text came from"). A save may be
\* answered after another text was loaded.
LinkIsOfTheText == \A t \in QueryTab : buffer[t].saved # None => buffer[t].saved = source[t]
=============================================================================
