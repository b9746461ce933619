# ByteTable: a verification project

ByteTable is a desktop database client: a Rust core (`src-tauri/src`, Tauri commands on a
multi-threaded async runtime) and a React renderer (`src`), talking through asynchronous IPC
calls. This directory holds TLA+ models of its stateful parts, TLC configurations that check
them on small instances, and TLAPS proofs of what some of the models promise for every instance.

Paths below are relative to the repository. Abbreviations: `connections` stands for
`src-tauri/src/features/connections`, `schedules` for `src-tauri/src/features/schedules`,
`workspaces` for `src/features/workspaces`, `DataGrid.tsx` and the like for the file of that
name under `src/features`.

Contents: 1 inventory, 2 modules, 3 runs, 4 properties, 5 proofs, 6 disagreements, 7 what is
not covered, 8 plan.

## 1. Inventory

"Modelled in" names the module; what a module leaves out is said in section 2, what has none
in section 7.

### Rust core

| Component | State it keeps | Operations | Interacts with | What makes it correct | Modelled in |
|---|---|---|---|---|---|
| open handles (`connections/application/mod.rs`) | map of open connections and set of read-only handles, each behind its OWN async lock | open, close, set read-only, gate of writing commands, lookup, close-all on exit | every command that names a handle; the scheduler; the exit hook of `lib.rs` | a connection is closed exactly once; a write never passes the gate of a locked handle | `ConnectionManager` |
| connection registry, keychain cache, bundles (`connections`, `connection_bundle`) | one JSON file behind a mutex; two keychain accounts per entry; a process-lifetime cache of hits and misses | list, save, duplicate, delete, open, export, import | the file, then the OS keychain, without a transaction | cache and keychain agree; no secret without its entry | `Registry` |
| schedules (`schedules`) | two JSON files (schedules, run log), a run gate, the background loop's copies of store and clock | save, pause/resume, delete, run now, tick | opens a read-only connection per run; writes report files | one run at a time; an occurrence runs at most once; a due schedule is served; the log keeps the newest | `Schedules` |
| recurrence (`schedules/domain/mod.rs`) | none (pure) | next due time after an instant | the time zone | the first occurrence strictly after, through short months and clock changes | `Recurrence` |
| report output (`schedules`) | files in a folder that schedules share | name and write one file per run, prune older ones | file times, the clock | the newest stay, another's are not touched | `ReportFiles` |
| opening files from the OS (`file_open`) | queue of paths | push (argv, Apple event, second instance), take all | a payload-less nudge to the renderer | every path is opened once | `OsFileOpen` |
| data generation (`generate`) | cancel flag; per run: order, deferred columns, key pools | plan, insert in chunks, cancel, wire the deferred columns | engine connection of a handle | parents before children; no reference left empty without an error | `Generate` |
| schema diff (`schema_diff`) | none (differ and planner are pure) | snapshot, compare, plan | engine connection | carrying out the plan makes the target like the source | `MigrationPlan` |
| structure changes on SQLite (`engines/sqlite/structure.rs`) | none | native statements or a rebuild of the table | the database | the result is what the editor showed, indexes are kept | `StructureEdits` |
| saved queries and snippets (`saved_queries`, `snippets`) | one JSON file each behind a mutex | list, save, delete | renderer copies | read-all, change, write-all is atomic | `SavedQueries` |
| browse, mutate, introspection, explain, insights, processes, privileges, export and import, key-value, document, search slices | none | stateless delegation to an engine through a handle | the manager's gate and lookup | that they go through the gate | |
| engine adapters and SSH tunnels (`engines`) | driver pools, per-connection mutexes | SQL dialects and wire protocols | database servers | session pinning of a batch, life of a tunnel | |
| settings, preferences, diagram layouts, app metrics, shell | one JSON file each; tray and menu | get, set | renderer copies | last writer wins | |

### Renderer

| Component | State it keeps | Operations | Interacts with | What makes it correct | Modelled in |
|---|---|---|---|---|---|
| workspace rail (`workspaces/state.ts`, `data_file/open.ts`) | ordered workspaces, the active one; several share a handle | open, open a schema, keep, close, focus, lock, switch node, replace file | IPC open and close | the active one exists; children sit below their parent; a handle lives as long as its users | `Workspaces` |
| read-only sync (`useHandleReadOnlySync.ts`) | what it last ran for, the mode it believes each handle has | an effect that pushes the active workspace's mode | the rail; `connection_set_read_only` | the backend's mode is the active workspace's | `ReadOnlySync` |
| connection form (`NewConnectionModal.tsx`) | one flat form for ten engines, a test verdict | type, pick an engine, paste a URL, test, save, edit an entry | the registry | an entry reopens as it was saved | `ConnectionForm` |
| tab strips and the close prompt (`workspaces/state.ts`, `WorkspaceContent.tsx`) | tabs, the active one, what is kept per tab id; one parked close | open by subject, focus, close one or many, prompt, discard | editors and grids of the tabs | staged work is asked for; nothing is kept for a tab that is gone | `Tabs` |
| running SQL (`SqlEditorTab.tsx`) | text, parameters, result tabs, history, runs in flight | run, fill parameters, close results | IPC queries | results belong to the run's tab; a parameter is never passed over | `SqlRuns` |
| saved queries (`saved_queries/state.ts`) | the list, the link of a tab to an entry | load, save, remove, remember parameters | the file, through IPC | the list is the file | `SavedQueries` |
| data grid (`DataGrid.tsx`) | page, sort, filter, selection; staged edits and rows | fetch, page, refetch, select, delete; stage, save, confirm, discard | IPC reads and writes; a page cache per tab | the page is of the view; staged rows are kept; production runs what was shown | `GridPages`, `GridEdits` |
| structure editor (`StructureView.tsx`, `structure/ops.ts`) | staged operations, preview | stage, unstage, review, apply | the engine's structure change | what is applied is what is on screen | `StructureEdits` |
| schema map, edit mode (`useSchemaEditor.ts`) | an editable copy, staged statements, a snapshot | edit, unstage, reorder, discard, commit | one script through IPC | the diagram is what the statements make | `MapEdits` |
| brainstorm board (`brainstorm_board`) | document, undo and redo, gesture, stored copy | draw, link, group, promote, undo | local storage | undo loses nothing; no document names what it does not hold | `Board` |
| introspection cache (`introspection/state.ts`) | results by handle and schema, fetches in flight | load, force, invalidate | IPC reads | nothing from before an invalidation is cached after it | `Introspection` |
| session persistence (`session.ts`, `sessionSync.ts`) | local storage, a pending snapshot and a timer | debounced write, restore, setting off | the rail | a session is the one of the connection it is kept under | `Sessions` |
| files from the OS (`osFileOpen.ts`) | drains under way, the viewer | drain on mount and on a nudge | `file_open` | every file is handled in the end, once | `OsFileOpen` |
| schema comparison (`schema_diff/components/SchemaDiff.tsx`) | two cards, borrowed and opened handles, snapshots, the diff | pick, swap, retry, close | the rail's handles, IPC reads | the pane shows the pair on the cards; handles are released | `SchemaDiff` |
| console, data-file viewer, NoSQL tables, board diff, settings, updater | local interface state | synchronous changes, reads and writes over IPC | | | |

### What is hard in this system

- **Two locks for one fact.** A handle's connection and its read-only mark live in two maps, an
  entry and its secrets in a file and a keychain. Whatever touches both has a middle.
- **Copies acted on later.** The scheduler works through copies of the store and of the clock
  while commands rewrite the store; the renderer believes what it last heard; a replay
  starts from a snapshot.
- **Shared handles.** Parent and schema workspaces share a connection, a comparison borrows one.
- **Answers that come late.** IPC calls are served concurrently; results land on whatever the
  state has become: another tab, another view, an edited form, a component that is gone.
- **Staged work.** Four editors stage changes that are shown before they exist, and lose, double
  or reorder them if a save, a reload or a close comes in between.
- **Steps that fail in the middle.** A keychain refuses after the file was written, a disk refuses
  a reschedule, an engine rolls a plan back.
- **Time.** Runs take longer than a tick, the clock is set back, local clocks skip and repeat
  hours, months are short, timers are re-armed.
- **The end of the process.** A crash between two writes; the exit hook racing commands still
  running on the worker threads; a window that closes while a save waits.

The list of hazards, each at its line with the properties that watch it, is the `hazards`
section of `PROJECT.json`.

## 2. Modules

    ConnectionManager <- MCConnectionManager           Schedules <- MCSchedules
    Workspaces <- ReadOnlySync <- MCWorkspaces         SessionPromise  (INSTANCE in Sessions)

    MCConnections = MCConnectionManager + Registry + Generate
    MCReports     = MCSchedules + Recurrence
    MCBackground  = MCSchedules + Sessions + OsFileOpen
    MCRail        = MCWorkspaces + ConnectionForm
    MCQueryTabs   = Tabs + SqlRuns + SavedQueries
    MCGrid        = GridPages + GridEdits
    MCDesign      = Introspection + Board + StructureEdits + MapEdits
    MCSlices      = SchemaDiff + MigrationPlan + ReportFiles

    ConnectionsProofs of MCConnections: ConnectionManager, Registry, Generate
    BackgroundProofs  of Schedules, Recurrence, Sessions, OsFileOpen
    RailProofs        of MCRail: Workspaces, ReadOnlySync, ConnectionForm
    BrowseProofs      of MCQueryTabs: Tabs, SqlRuns, SavedQueries; of MCGrid: GridPages, GridEdits
    StructureProofs   of StructureEdits
    DesignProofs      of MCDesign: Introspection, Board, MapEdits, with StructureProofs
    SlicesProofs      of MCSlices: SchemaDiff, MigrationPlan, ReportFiles

`A <- B` reads "A is extended by B", `+` "extends". `Selections` (what several components do with
sequences and functions) and `SequenceFacts` (lemmas about that, and about folds) serve the modules
above. The variable `driven` of the composites and of `MCWorkspaces` (`half` in `MCGrid`) is the component
a behaviour drives; it never changes. The others stay in one initial state, pinned where the
component has several. The components of such a composite do not influence each other: it is a
way to check independent parts in one run, and a property of one is checked over exactly the behaviours it would have alone. The parts
that do interact are composed for real: the hook and the store it follows, the two stores of the
schedules, tabs and the editors that hold work for them, the queue and its drains, sessions and
the rail they snapshot.

`PROJECT.json` maps every definition to its lines. Operators under a "Bug variant" comment are no
part of a specification: each is a plausible mistake in the definition next to it, and replacing
that definition by it breaks a property. Properties under "does not hold" or "NOT a property" are
checked to be false and listed in section 6.

Conventions: one action per store action, event handler, effect run or locked section, with
everything it changes. A renderer's store actions are synchronous, hence atomic; a call over IPC is
a step that sends, one in which the backend serves it where the order of service matters,
and one in which the answer arrives, in any order. Values are told apart only as far as a property
looks at them; counters called `rev`, `version`, `floor` or under a comment "history" exist for the
properties.

### ConnectionManager

One action per lock acquisition or driver call of `ConnectionManager` and of the commands over
it. A *task* is a command in flight; `pc`, `handle`, `flag` are where it is and what it holds.
Main-thread `close_all` is the variable `exit` (`running`, `cleared`, `drained`, `exited`) with
the connections it has still to close in `doomed`.

| Code | Actions |
|---|---|
| `open_connection`, `insert_with_mode` | `StartOpen`, `ConnectFails`, `Insert`, `InsertMode` |
| `set_read_only` | `CheckOpen`, `SetMode` |
| `ensure_writable` and `refuse_writes_in_read_only`, the getters, the driver call | `Gate`, `Get`, `Execute` |
| `remove`, `close_connection` | `ForgetMode`, `RemoveOpen`, `CloseConnection` |
| `close_all`, exit hook of `lib.rs` | `ExitClear`, `ExitDrain`, `ExitClose`, `ExitDone` |

Left out: which engine family a connection belongs to, what the driver does, and the
classification of SQL text into reading and writing (a command's `flag` says which it is).
History variables remember the mode a handle was last given (`mode`), which handles a close has
begun on (`closing`), and what the mode was when a task passed its gate.

### Registry

`registry` is the JSON file (which accounts each entry uses), `keychain` the OS keychain, `cache`
what `KeyringSecretStore` holds of it. A command is the list of its steps: one read-modify-write of
the file under its lock, one keychain call under no lock, one insertion into the cache. `Advance`
runs the next step of a command, which may be refused; a refused step abandons its group. Steps of
two commands interleave; `Restart` ends the process between any two.

| Code | Steps or actions |
|---|---|
| `save_connection`, `duplicate_connection`, `delete_connection` | `SaveConnection`, `DuplicateConnection`, `DeleteConnection` |
| `resolve_open_secret`; `export_bundle`, `read_secret`; `import_bundle` | `ResolveOpenSecret`; `ExportBundle`; `ImportBundle` |
| `KeyringSecretStore::get`, `set`, `delete` | `LookUp`, `Fetch`, `WriteSecret`, `EraseSecret`, `PasteSecret`, `Fill` |
| `JsonConnectionRepository` | `PutEntry`, `DropEntry` |

Left out: the parameters but for which accounts they use, the encryption of a bundle, recents.

### Generate

The planner (`build_deps`, `break_cycles`, `topo_order` as `Defer`, `BackEdges`, `Order`; the walk and the
order are folds, one step of the code's loop each) and the run:
`BeginTable` looks at the cancel flag and reads the key pools the table needs, `InsertChunk`
inserts, fails or sees the cancel flag, `WireTable` is the last pass over the deferred columns.
A row is told apart by whether a foreign key of it is NULL. Left out: the values, the counts, the
collisions of unique values (the outcome of an insert), composite keys, foreign keys to
other schemas.

### Schedules

One action per locked access to a store or step on the gate (`RunGate`, a fair async mutex, so
its waiters are a queue). `Tick` takes `snap` and `tickNow`, the scheduler's copies; everything it
does afterwards is computed from them and lands in `store`.

| Code | Actions |
|---|---|
| `schedule_save`, `schedule_set_enabled` | `SaveNew`, `Edit`, `SetEnabled`, then `Write` |
| `schedule_delete` | `Delete` (the entry), `Forget` (its log): two locks |
| `schedule_run_now`, `run_one` | `RunNow`, `RunStart`, `RunEnd` |
| `tick` | `Tick`, `StampMissing`, `StampsDone`, `Reschedule`, `RunStart`, `RunEnd`, `Sleep` |
| the world | `Advance`, `SetBack`, `Crash` |

`Edit` and `SetEnabled` read the entry before they take the lock their write takes, as the code
does; a delete in between is undone by the write. `SetNextRunAt` may fail (`DiskOutcome`), which the
loop ignores. `Crash` forgets everything but the two files, which are replaced by a rename.
`NextDue` stands for `next_due_after`; the module assumes of it only that what it returns is later
than what it is given. For the cases where the code returns nothing, see section 6.

### Recurrence

`next_due_after` over a calendar of slots: `Reading` is the clock on the wall, an instant plus
the zone's offset, with one jump; `Named` is the inverse, with none, one or two results. The
daily, weekly and monthly rules (`FirstAfter`), the walk out of a gap (`LocalAt`) and the clamp
of the day of the month (`ClampedDay`) follow the code. The state machine computes a next run,
waits for some instant at or after it and computes the next. The recurrences are those
`validation_error` lets through; a zone's clock skips less than `local_at` walks (`ZonesAssumption`,
the code's comment on the tz database), and the table of months reaches beyond the last clock.

### ReportFiles

Two schedules write to one folder. `RunReport` is `query_and_write` of a run that succeeds: the
name its pattern gives (`OutputFilename`, with `Sanitized`), the file in place of one of that name,
the pruning of what `OwnsFilename` takes for the schedule's own. A name is a sequence of symbols,
of which only "." is special. Two runs fall on a day, so runs of a day share a file unless the
pattern has no date at all. `ClockBack` sets the clock back a day. What else
lies in the folder is older than any report. Left out: queries, tokens of the
SQL, formats, write failures, the `time` tokens (two runs on one day then never share a name).

### Workspaces and ReadOnlySync

`rail`, `active` and the actions of `workspaces/state.ts` on them with the IPC opens and closes they
cause in `backend`. Switching a Redis cluster node and re-opening a data file span an IPC call:
`BeginReopen` remembers what the code captured, and `SwitchNode`, `ReplaceFile` or `ReopenFails` lands
on the rail as it then is. A workspace's id is a sequence: a root's is its number, a child's its
parent's with the scope appended, as `schemaWorkspaceId` builds it.

`ReadOnlySync` is the hook over that store. `Effect` is one run of the React effect: the cleanup
makes the answer of the previous call unwelcome (`live`), then the mode is pushed unless `pushed`
already has it. `Apply` serves a call in the backend, in any order, `Answer` delivers the result. The
effect also reruns when the translation function changes, and twice in development; both repeat
what `Effect` does and neither is modelled.

### ConnectionForm

`form` is `FormState`, every field of it. `BuildParams` and `Secrets` are what a save sends, `FormOf`
is `formStateFromConnection`, `ImportInto` is `applyImport`, each field by field for ten engines.
`EditField`, `EditEngine`, `ImportUrl` change the form, `Test`/`Tested` are a connection test and its
answer, `Save`, `Dismiss`, `NewConnection`, `EditEntry` open and close it. Texts are blank,
unparsable or good; a save is one step.

### Tabs, SqlRuns, SavedQueries

`Tabs`: the strips of the open workspaces with every action that opens, focuses, changes or closes
a tab, what is kept by tab id (`held`: views, structure edits, grid edits), and the one prompt
(`closeRequest`) every close goes through; the answers of an apply and of a save that arrive after
their tab changed or closed; a reconnect that restores a strip without the kinds the reader does not
know. Panel sizes, titles but for "Query N", and what a tab shows are left out.

`SqlRuns`: query tabs of two workspaces. `Run` asks for parameters (`PromptForRun`, `FillPrompt`) or
starts; `RunEnds` appends a result per statement to the tab's results and one history entry.
`here` says whether the editor that started a run is still mounted.

`SavedQueries`: `Send` puts a call in flight, `Reach` is the locked read-change-write of the file,
`Reply` and `CallFails` the answer, which the store applies to its list and the tab to its link.

### GridPages, GridEdits

`GridPages`: one grid tab and its table. A load takes a `generation`; `Read` is the moment the
database is read, `Answer`/`Refuse` the arrival, which a newer generation discards. The page last
shown is kept in `pageCache` and painted by the next mount (`seed`). Rows are selected by
their place and deleted by what stands there (`DeleteSelectedRows`). `ChangeTable` is anyone else.

`GridEdits`: edited cells and new rows of one tab, kept in the tab's store while it is off
screen. `Save` builds the batch and, on production, shows it (`saveConfirm`); `ConfirmSave` runs what
was shown; `SaveDone` and `SaveFailed` are the answer, to the instance that asked if it still is.

### Introspection

Tables, columns, structures, object lists and definitions of each schema. `Load` serves a cached
value, joins the fetch of its key or starts one (always, when forced); `Execute` is the read at the
database, at some `ddl` version; `Land` and `Fail` the answers; `Invalidate` and the object variants
drop by prefix. `floor` is the version at the last drop, lifted for a fetch that was under way.

### Board

The document as objects, edges, groups and promotions; the pure functions of `doc.ts`; the undo
stacks of `useBoardDoc.ts` with the edits that do not go through them (drags); gestures, shortcuts
and in-place text; the save timer and the stored copy. Geometry, text and colours are one
number, `rev`.

### StructureEdits

`ops` is the staged list; `applyOpsToColumns` and `applyOpsToIndexes` replay it for the screen,
`toWireBatch` puts it in the order of phases for the backend. `Applied` is SQLite's
`alter_table_blocking`: `Valid` (`validate_ops`), then native statements or `Rebuilt`, with
`TargetColumns` and `TargetIndexes`. `ApplyPending`, `Alter`, `ApplyAnswered`, `ApplyFailed` are an
apply; the Review panel asks for previews that may arrive late. The columns of a table have names that
differ (`StructAssumption`), as a database sees to.

### MapEdits

A schema is its tables with columns and foreign keys; `Stage` clones the schema on the first edit,
mutates it and appends the statement with its mutation. `Replay` folds the mutations over the
snapshot for `Unstage` and `Reorder`. `cells` is the object each created table's closure holds: a
replay pushes that very object and later mutations write to it, as in the code. The metas are
read again after a commit or a reload (`Reload`, `Loaded`). The history variable `reused` is whether
the last replay began from an object that an earlier one had written to.

### OsFileOpen

`QueueOpen` is a delivery by the OS and its nudge, `Take` the taking of the whole queue by a drain,
`OpenOne` one file of a drain; `Subscribed` is the moment the listener is installed, after the
drain on mount; `Rerun` a rerun of the effect. `missed` marks the window between the two.

### Sessions and SessionPromise

`Change`-type actions arm the timer and take a snapshot of the rail, `Flush` writes it, `Quit` writes
at once, `ProcessDies` loses it. Opening a workspace restores what is kept, with its kept
sub-workspaces; pruning keeps `MaxKept` connections. `SessionPromise` is what Settings promise of
"Restore tabs", with no snapshot and no timer. `Sessions` implements it under the mapping `on` is the
setting, `kept` the stored entries, `shown` the last workspace of each connection that will be
written; the run checks `Promise!Spec` as a property.

### SchemaDiff

The two cards (`side`), the handle cache (`handles`) with opens in flight (`opening`), the snapshot
cache, the comparison under way (`run`) and the one shown. A card asks for the handle of its
connection and gets the cached one, the open in flight, a workspace's or a new one, in that order (`Acquired`). An effect runs in the step of the change
it depends on (`Effects`, `Compare`). `Unmount` releases what was opened; an open that arrives later
is closed at once. `WorkspaceOpens` and `WorkspaceCloses` are the rail, as far as it lends handles.
The migration pane is left out: every use of the component compares only.

### MigrationPlan

`Status`, `Added`, `Altered` and `IndexesAdded` are the differ, `Plan` the planner, `Execute` (external)
what Postgres makes of a statement when nothing but the two snapshots and the statements before it matter.
What else may make it refuse one is in `Outcomes`, which lets any plan with a statement be rolled back: no
USING is written for a type that has no cast (`domain/mod.rs:493`), the index dropped may be that of a UNIQUE
constraint (`359`), a table or column may have dependents (`507`). `Migrate` compares and runs the whole
plan; it is repeated until two plans were taken, however many were refused. The statements of a kind are a family over the names of what they are about, taken in the
order of the names. Left out: other dialects, partitions and inheritance, nullability and uniqueness (which
the differ does not compare), plans run in part.


## 3. Runs

TLC explores every state of each passing run and finds the violation in each violation run.
Numbers of states are of distinct ones, about.

| Run | Module | Instance | States |
|---|---|---|---|
| `manager` | `MCConnections` | handles: 2, with 2 commands; registry: 2 ids, 2 secrets, 2 commands, a bundle of 2; generation: 3 tables with up to 2 foreign keys each and 3 in all, 2 chunks, pools of 2 keys, 1 run, 1 failing pool read | 750 000 |
| `reports` | `MCReports` | 1 schedule, 2 commands, failing disk, 1 crash, 1 setback, 3 ticks of the clock, log of 2; calendar: days of 4 slots, months of 2 to 9 days, clocks jumping up to half a day either way at each of 8 instants | 1 910 000 |
| `background` | `MCBackground` | 1 schedule, 1 command, 1 crash, 1 setback; sessions: 2 connections, 1 entry kept, 5 changes; files: 1 database, 2 scripts, 2 drains, 3 deliveries, 2 mounts | 476 000 |
| `workspaces_safety` | `MCRail` | rail: 2 handles, 2 scopes, 2 opens, rail of 3, ids of 3 parts, 1 re-open in flight; hook: rail of 2, 1 scope, 2 calls; form: an entry of every engine, 2 edits, 1 test, 6 URLs | 1 730 000 |
| `query_tabs` | `MCQueryTabs` | 2 strips, 2 subjects, 3 tabs opened; 3 SQL tabs, 2 runs at a time, 3 in all, history of 2; 2 queries, 2 calls at a time, 3 in all | 1 200 000 |
| `grid` | `MCGrid` | 2 rows, pages of 1, 2 orders, 2 filters, 2 requests, 1 change by others, 2 mounts; 1 cell, 2 new rows, 2 saves, 2 grids | 2 730 000 |
| `design` | `MCDesign` | cache: 1 schema, 2 fetches, 1 change; board: 2 sketches, 1 card, history of 2; structure: 2 columns and a new one, 2 index names, 3 operations, 1 apply; map: 2 tables and a new one, 2 statements, 3 replays, 1 reload | 964 000 |
| `slices` | `MCSlices` | comparison: 2 connections, 2 schemas, 2 handles, 1 lent, 1 late read; plans: 2 tables, 2 columns, 2 types, 1 index; reports: 2, names of 1 to 4 symbols, stems cut at 4, 3 days of 2 runs, 1 or 2 kept, clock set back once | 457 000 |
| `generate_appends` | `MCConnections` | as `manager` | violation |
| `handle_mode` | `MCWorkspaces` | as the hook in `workspaces_safety` | violation |
| `index_kept` | `MCDesign` | as the structure editor in `design` | violation |
| `prune_foreign` | `MCSlices` | as the reports in `slices`, in a folder with no file at first | violation |

**Why the bounds are enough.** *Handles*: two let one be closed while another is opened and let a
mode meant for one reach the other; two commands and `close_all` are a closer, a writer and the
exit hook at once. *Registry*: two commands are the least that can interleave, two ids let one
bundle's entry fail while the other succeeds. *Generation*: every graph of three tables has all
shapes that matter: chains, self references, cycles of two and three, two columns to one parent;
a pool of two keys overflows. *Schedules*: the scheduler's actions touch one entry at a time; the gate
is contended by two manual runs and the loop; a log of two overflows; a clock of three units
has room for a run, the reschedule it missed and the tick after. *Calendar*: a gap of two slots is
half a day, longer than any real one; months include some shorter than every day a rule names. *Sessions*:
one entry is kept and there are two connections, so pruning happens. *Files*: two drains split a
queue of three. *Rail*: three hold a parent with two children, or a promoted child with a child of its
own; two calls in flight are the least that can be reordered. *Tabs*: two strips tell a tab's
workspace from the one on screen, two subjects a duplicate from another tab. *Grid*: two pages,
two requests that cross, two instances so that one that is gone still answers. *Cache*: two fetches
can be answered in the wrong order around one change. *Structure*: three operations are a rename, a use
of the name it freed and a drop; with two indexes names can be swapped. *Map*: two statements can
be reordered, three replays write twice to one created object. *Comparison*: two connections are
a swap, and the pair picked before. *Plans*: every pair of schemas with two tables of which one can
lose or gain a column or move its index. *Reports*: three runs with one kept prune twice;
four symbols hold two stems of which one begins with the other, and a name that is cut.

Where a bound stops the system (`MaxOpens`, `LastClock`, ...) the cfg turns the deadlock check
off; connection handles and the scheduler's loop never stop, and in `manager` and `background` it
is on. Symmetry is used in runs without temporal properties only.

**Fairness.** *Handles*: weak fairness of each started command and of a connect, which has a
timeout; of the exit hook once begun. Nobody is obliged to issue a command or to quit. Drivers'
calls are assumed to return: `close_all` waits for each without a timeout. *Schedules*: weak
fairness of a started command's write, of a run (its connect has a timeout; its query is ASSUMED to
return, see section 6) and of the loop, an endless `loop { tick; sleep }`. Not strong fairness:
the gate is a FIFO mutex. *Sessions*: weak fairness of the timer's flush. *Files*: weak fairness of
the listener's registration and of each drain. In the composites these are guarded by `driven`.
The other components state no liveness property: nothing in them obliges the user to act.

## 4. What the properties say

`manager`

- `ConnectionOwnedOnce`: every stored connection belongs to the table, to `close_all`, or to the
  one closer that removed it, until it is closed; none is closed twice. This is why a
  double-fired close, or one racing `close_all`, is benign.
- `LockedHandleRefusesWrites`: a writing command that was gated while its handle's session was
  read-only gets past only during that handle's teardown. It relies on the handle's id not being
  known to anybody before its mode is stored.
- `StaleModeNeverHit`: marks of closed handles left behind by `set_read_only` never come to
  gate a live connection.
- `ClosesComplete`: what is taken out of the table is closed in the end, unless the process is gone
  first, and quitting ends whatever commands still do to the table.
- `CacheIsTheKeychain`: once the calls on an account have ended the cache holds what the keychain
  does, known misses and refused calls included; excepted is an account changed while another
  command stood between its keychain call and its insertion.
- `SecretsHaveARow`: no secret outlives its registry entry, except where the erase itself was
  refused or cut off, or a write was under way when the entry was deleted.
- `ForeignKeysAreFilled`: a run that reports no error leaves no foreign key empty, whatever refers
  to what; the exceptions of the code are spelled out in it.
- `WellFormed`: types; the insert order is whole, parents first.

`reports`

- `StoresAndGateSound`: types; manual runs and the loop share one gate, and one runs at a time.
- `LogKeepsNewestInOrder`: the log keeps the newest runs in the order they started.
- `BoundedCatchUp`: a scheduled run starts only for an occurrence later than the tick that
  started the previous one, crashes, sleep and racing edits included; a command's write starts
  the schedule afresh, and a reschedule the disk refused is not counted, since the code then runs
  it again on the next tick.
- `DueIsNextOccurrence`: the next run is later than the clock, is an occurrence, and no occurrence
  lies between. An occurrence is defined without the algorithm: the wall clock first shows, or
  jumps over, the time of a matching day.

`background`

- `DueIsServed`: a schedule that is due, or has no next run, does not stay so.
- `SavesWhatIsShown`: `Sessions` implements `SessionPromise`: the throttled snapshot
  behaves as if every save wrote what is on screen right then.
- `ChangeIsStored`: a change is stored in the end, or undone or overtaken by the setting, a close
  or the end of the process.
- `QueuedIsHandledOnce`, `FilesAreHandled`: a file of the OS is in the queue, in the hands of one
  drain, or was handled, and each is handled in the end, unless it came between the drain on mount
  and the listener.

`workspaces_safety`

- `HandleLivesAsLongAsItsUsers`: no workspace is cut off by what another does, and a database
  connection is released with its last user.
- `ModeSettles`: once calls are answered, the active workspace's handle has its mode and the
  hook knows, unless a call for that handle was abandoned in flight and none has been sent alone
  since.
- `EntryReopensAsSaved`: a form opened on an entry sends back the entry, for every engine and
  however the entry came about.
- `WellFormed`: types; the focus never dangles; every child directly follows its parent or
  a sibling; importing a URL twice is importing it once.

`query_tabs`

- `StagedWorkIsAskedFor`: a tab with staged work goes only by the prompt that named it, or with
  the table it shows or its connection.
- `ResultsOfOwnRun`: results are put where their run was started, however the tabs changed since.
- `ParametersAreFilled`: SQL with a parameter runs only with a value given since the text was last
  replaced.
- `ListIsTheFile`: while calls go one at a time and are answered, the drawer shows the file.
- `WellFormed`: types; the focused tab and result exist; one tab per subject; "Query N" titles
  differ; everything kept under a tab's id belongs to a tab that is open; no text twice in a history.

`grid`

- `SettledPageIsTheView`: when the loads have ended well, the page shown is the one the tab asks
  for and at least as new as the last refetch, whatever an instance that is gone put back.
- `ProductionRunsWhatWasShown`: on production what runs is the batch that was confirmed.
- `StagedRowsAreKept`: a staged row goes by a save answered well, a discard or Escape, and by
  nothing else.
- `GridWellFormed`: types; keys of staged rows differ; no loading line without a load.

`design`

- `NewerThanDrop`: a value cached after a drop was read after it, or by a fetch under way at it.
- `AcceptedIsAsShown`: a batch SQLite takes leaves the columns on screen behind; the two replays
  agree as long as no renamed column is changed otherwise and no name it gave up is used again.
- `DiagramIsTheMigration`: the diagram is the introspected schema with the staged statements done in
  their order, unless the last replay began from a created table's object an earlier one had written
  to, or the metas were read again without a commit.
- `UndoLosesNothing`: moving along the documents of a board loses none of them.
- `BoardsAreWhole`: no document on screen, in the history or on disk names what it does not hold:
  no line, group or promotion of an object that an undo, a delete or a reload took away.
- `WellFormed`: types; fetches are shared and the keys shown as loading have one; a preview is of
  its batch; an index operation has a card.

`slices`

- `PaneIsOfThePair`: a pane that is neither busy nor failed shows the pair on the cards; a busy one is
  at work on it.
- `PlanConverges`: whatever Postgres refuses, a plan it takes makes the tables, columns and types the
  source's and leaves the next only indexes to create, under names that are free; after a second one
  each table has indexes of the same names as the source's, on whatever columns those found there
  were. Plans that defeat themselves (`DefeatsItself`) are never taken. That a plan is taken is not
  claimed: one with an index of a UNIQUE constraint to drop never is.
- `LastReportsKept`: as long as the clock goes forward, the newest reports of a schedule are there,
  unless it shares names with another.
- `WellFormed`: types; a comparison releases the connections it opened and no other.

## 5. Proofs

Each theorem holds for every value of the constants that the named assumptions of its modules
allow: any handles, tasks, connections, tabs, rows, any lengths and any bounds.

| Theorem | What it states of the specification |
|---|---|
| `ConnectionsProofs!TypeCorrect`, `ConnectionsClosedOnce`, `ReadOnlyGate`, `StaleEntriesInert` | `TypeOK`, `ConnectionOwnedOnce`, `LockedHandleRefusesWrites`, `StaleModeNeverHit` of `ConnectionManager` |
| `ConnectionsProofs!RegistryInvariant`, `CacheIsCoherent`, `NoSecretOutlivesItsRow` | `RegistryInv`, `CacheIsTheKeychain`, `SecretsHaveARow` |
| `ConnectionsProofs!EveryForeignKeyFilled`, `ConnectionsRunIsWellFormed` | `ForeignKeysAreFilled`, `WellFormed` of `MCConnections` |
| `BackgroundProofs!TypeCorrect`, `GateAdmitsOne`, `StoresAndGateStaySound`, `CatchUpBounded`, `LogInOrder` | `TypeOK`, `OneRunAtATime`, both together, `BoundedCatchUp`, `LogKeepsNewestInOrder` of `Schedules` |
| `BackgroundProofs!NextRunIsNextOccurrence` | `DueIsNextOccurrence` |
| `BackgroundProofs!SessInvariant`, `SessTypeCorrect`, `SavesKeepThePromise` | `SessInv`, `SessTypeOK`, the refinement `SavesWhatIsShown` |
| `BackgroundProofs!FilesSplitAmongDrains` | `QueuedIsHandledOnce` |
| `RailProofs!RailInvariant`, `RailTypeCorrect`, `RailReadsInGroups`, `HandlesOutliveTheirUsers`, `ModesSettle` | `SyncInv`, `SyncTypeOK`, `RailGrouped` with `ActiveExists`, `HandleLivesAsLongAsItsUsers`, `ModeSettles` |
| `RailProofs!FormTypeCorrect`, `EntriesReopen`, `ImportsAreIdempotent` | `FormTypeOK`, `EntryReopensAsSaved`, `ImportTwiceIsOnce` |
| `RailProofs!RailRunIsWellFormed` | `WellFormed` of `MCRail` |
| `BrowseProofs!TabsInvariant`, `TabsTypeCorrect`, `FocusIsOnATab`, `NothingHeldForClosedTabs`, `TabsShowDifferentThings`, `StagedWorkIsSafe` | `TabsInv`, `TabsTypeOK`, `ActiveTabIsOpen`, `HeldByOpenTabs`, `OnePerSubject` with `QueryTitlesDistinct`, `StagedWorkIsAskedFor` |
| `BrowseProofs!RunsInvariant`, `RunsTypeCorrect`, `HistoryAndFocus`, `ResultsComeHome`, `ParametersInvariant`, `NothingRunsUnfilled` | `RunsInv`, `RunsTypeOK`, `HistoryHasEachOnce` with `AResultHasTheFocus`, `ResultsOfOwnRun`, `ParametersInv`, `ParametersAreFilled` |
| `BrowseProofs!QueriesInvariant`, `ListShowsTheFile` | `QueriesInv`, `ListIsTheFile` |
| `BrowseProofs!QueryTabsRunIsWellFormed` | `WellFormed` of `MCQueryTabs` |
| `BrowseProofs!PagesInvariant`, `PagesTypeCorrect`, `SettledPages`, `LoadingLineEnds` | `PagesInv`, `PagesTypeOK`, `SettledPageIsTheView`, `LoadingEnds` |
| `BrowseProofs!EditsInvariant`, `EditsTypeCorrect`, `KeysAreDistinct`, `ShownIsWhatRuns`, `RowsAreKept` | `EditsInv`, `EditsTypeOK`, `StagedKeysDistinct`, `ProductionRunsWhatWasShown`, `StagedRowsAreKept` |
| `BrowseProofs!GridRunIsWellFormed` | `GridWellFormed` of `MCGrid` |
| `DesignProofs!IntroInvariant`, `IntroTypeCorrect`, `FetchesAreShared`, `LoadingStops`, `CachedSinceTheDrop` | `IntroInv`, `IntroTypeOK`, `FetchesShared`, `LoadingHasFetch`, `NewerThanDrop` |
| `DesignProofs!BoardInvariant`, `BoardTypeCorrect`, `BoardsStayWhole`, `NothingIsLostToUndo` | `BoardInv`, `BoardTypeOK`, `BoardsAreWhole`, `UndoLosesNothing` |
| `StructureProofs!PreviewOfWhatIsStaged`, `StructTypeCorrect`, `EveryIndexOpHasACard`, `AcceptedIsWhatIsShown` | `PreviewIsOfTheBatch`, `StructTypeOK`, `IndexOpsHaveACard`, `AcceptedIsAsShown` |
| `DesignProofs!EditedDiagramIsTheMigration`, `DesignRunIsWellFormed` | `DiagramIsTheMigration`, `WellFormed` of `MCDesign` |
| `SlicesProofs!DiffInvariant`, `DiffTypeCorrect`, `ComparisonReleases`, `PaneShowsItsPair` | `DiffInv`, `DiffTypeOK`, `HandlesReleased`, `PaneIsOfThePair` |
| `SlicesProofs!FilesInvariant`, `NewestReportsStay` | `FilesInv`, `LastReportsKept` |
| `SlicesProofs!FilesTypeCorrect`, `PlanInvariant`, `PlansConverge` | `FilesTypeOK`, `PlanInv`, `PlanConverges` |
| `SlicesProofs!SlicesRunIsWellFormed` | `WellFormed` of `MCSlices` |

Every invariant and every action property without fairness that a passing run checks has its theorem.

**Assumptions.** They are the `ASSUME`s of the modules, which TLC evaluates on the runs' instances:
values that stand for "none" are none of the others; limits of the code are positive
(`MAX_HISTORY`, `MAX_CONNECTIONS`, the board's and the SQL history's length, a page's size, the
`keep` of a report); what is counted is finite (connections, schemas in a rail, the rows of a
table, the files found in a folder); constants that stand for data have its shape (a bundle's
entries, the URLs and entries of the form, whole boards in storage, foreign keys that refer to tables of
the schema, introspected schemas whose tables have columns of known types, files whose stems are not
too long); names of tables, columns and indexes that are taken in order are numbers; the columns of a
table have names that differ. `Schedules` assumes that
`NextDue` is later than the time it is given; `BackgroundProofs!NextDueIsLater` proves that of
`Recurrence`, except where it finds nothing.

**Arguments.** Hardly any of the properties is inductive. What the invariants add:

*Handles* (`IInv`). `Containment` (whatever is open, marked, known or closing was minted, so a fresh
id is fresh everywhere), `Held` (a task inserting a mode is the only one that can name its handle;
any other task's handle is known) and `ModeEnforced` (outside a teardown the set holds exactly
the known handles whose mode is read-only). The last carries `ReadOnlyGate`: the gate reads the set,
and the set is the mode. One lemma per conjunct, one step per action.

*Registry* (`RegistryInv`). What a command is about to insert into the cache is what the keychain holds,
except where a change raced it (`FillsAreCurrent`). A command is a sequence of groups of steps, and a
group that drops an entry erases both its accounts next, so a secret without an entry was
stranded or is in the hands of a group that has begun to erase (`LeftToErase`).

*Generation* (`GenerateInv`). First the planner, for any graph of foreign keys: its walk ends (each turn
visits a table or leaves one, so a measure goes down), a cycle has an edge it turns back at, and
the order then has every table once, each after those it takes keys from (`PlanSound`). Then the run: by
the table it is at, what lies behind is filled (`FilledSoFar`), every key of a pool was there
(`PoolsFound`), and what is empty is excused or will be wired (`EmptiesExcused`).

*Schedules* (`IInv`, `LogInv`). `JobInHand`, `GateHeld` (whoever runs heads the queue; two heads are
equal), `TickPlan` (what a tick has still to do is what its copies said) and `NextAfterLast`: a
stored next run, and one a tick will act on, lies beyond the last scheduled run. It needs to know
that while the scheduler waits for the gate the stored next run is already past its `tickNow`,
because the reschedule comes BEFORE the run; that is what makes a crash during a run harmless.
`LogInv` adds that no recorded run began later than the clock or the run under way.

*Calendar* (`CalendarInv`). `LocalAtIsFirstShown`: a time after the clock's first reading is answered by
the instant at which the furthest the clock has been reaches it, in a gap, in a repeated hour or
elsewhere. That furthest reading never goes back, so if a recurrence names no day between two
candidates and the second is ahead, `first_after` finds the next occurrence (`FirstAfterIsNext`). The
candidates of each kind are shown to be such days: for months this is where clamping matters, and why
the month after the current one is enough.

*Sessions* (`SessInv`, `SessStep`). A snapshot waiting for the timer is the rail itself and newer than
every entry, so pruning never drops what it is about to write. With that every step is one of
`SessionPromise` under the mapping or leaves it alone, which is the refinement.

*Files of the OS* (`FilesOnce`). What drains hold is a set of places; a drain that goes on moves them
one to one, so a file is counted once over queue, drains and what was handled.

*Rail and hook* (`RailInv`, `SyncInv`). What may be closed and what follows what depends on where a
workspace came from, the number its id begins with, which it keeps for life. Children of an
parent form a run behind it, which an insertion after the last of them and a removal keep
(`Grouped`); a file's handle is its own, also the one a re-open will close (`FilesApart`). For the
hook: the call whose answer is awaited is for what the effect last saw (`LiveIsForDeps`), and
where no call was abandoned it is the only one, and the hook is right (`HookIsRight`).

*Form.* One engine's fields are sent at a time; a form opened on an entry has the entry's value in
each field its engine sends, whatever the field is kept under.

*Tabs* (`TabsInv`). Each strip is sound (its focus is on a tab of it, what is held is for its tabs), its
tabs show different things, and their numbers were given out before. Closing several tabs is closing one after another, so what holds
before each of them is shown by least counterexample (`ClosedInTurn`).

*Runs, parameters, queries* (`RunsInv`, `ParametersInv`, `QueriesInv`). While a tab has results one has the
focus, and a text is in a history once; no value outlives the text it was given for; calls that
never overlapped leave the list as the file is, or one answer away from it (`OneAnswerAway`).

*Grid* (`PagesInv`, `EditsInv`). The newest load of the grid on screen is for the view the tab asks for and,
once read, as new as the last refetch (`NewestIsOfTheView`). Keys go up with the rows staged, also
when an instance starts over above the highest it finds (`KeysGoUp`), and every batch, shown for
confirmation or sent, is of rows that were staged.

*Cache* (`IntroInv`). What the cache holds is written by answers, so the invariant speaks of the
fetches: an answer nobody raced is as new as every key it will write.

*Board* (`BoardInv`). Every document an undo can bring back or a return can read is whole, because
every change makes a whole one; undo and redo move one document from a stack to the other.

*Structure editor* (`StructInv`, `ColumnsInv`). The cards are replayed from the staged operations, so
`StructInv` says that each operation is about an index, or a column, of its own. `ColumnsInv` says of what
is staged over a table that is still the one read: an operation renames or changes a column once at
most, gives a name once, and gives a column's name only after it was given up. Of untangled operations
the rows they leave are then determined by which operations there are and by the order of the additions
(`IsRowOf`, `Replayed`), so the order of staging and `toWireBatch`'s order of phases give the same rows. The engine's
columns follow these rows operation by operation, as the ones still standing in their order
(`Alike`, `Mirrors`); so what is accepted is what is shown. Two enumerations of a set of places
in order are equal (`SequenceFacts!EnumerationsAgree`, `SelectionIsUnique`).

*Edit mode of the map* (`MapInv`). The list has numbers of its own and objects not in it are new
(`UnlistedFresh`); while a schema is edited, the diagram is the snapshot with the statements done from the
objects the last replay began from (`SessionIsOfItsSchema`). What a replay makes depends on no object
but those its list creates, so starting from new ones it makes what the statements say. The premise that
is needed is that the last replay began from new objects; that all are new NOW is not enough,
since a replay may leave an object as it was and have used one that was not.

*Comparison* (`DiffInv`). While the pane is busy every read its run waits for is in flight, and no read
counts for a run that is gone; a handle is opened once and held by one side.

*Plans* (`PlanInv`). A family of statements is run as a fold over names in order; what is left once
those below a name have run is stated per family and joined into what a whole plan makes of
a target (`PlanRun`). A plan that was taken leaves a target with the tables, columns and types of the source
and with some of its indexes (`LacksOnlyIndexes`); the next has no statement in the way of another, and once
taken leaves all of them (`Matches`). A refused plan leaves the target as it was, so the invariant
counts the plans taken only. `RefusedPlans` shows that with nothing else in the way the plans that fail are
those that defeat themselves.

*Reports* (`FilesInv`). The times of files follow the order of writing while the clock goes forward: a
report that is gone was followed by as many of its schedule's as are kept.

*Composites.* `ConnectionsRunIsWellFormed`, `RailRunIsWellFormed`, `QueryTabsRunIsWellFormed`,
`GridRunIsWellFormed`, `DesignRunIsWellFormed` and `SlicesRunIsWellFormed` are of the very specifications TLC
runs: whichever component a behaviour drives keeps its invariant, the others stay in their
initial states. For `DesignRunIsWellFormed` that is `IntroInv`, `BoardInv`, `PreviewInv`, `StructInv`,
`MapInv` and the types of the map together.

**Forms the provers need.** `OnlyIn` of `Selections` says what a filter of a sequence returns, because
`SelectSeq` is opaque to them; TLC evaluates that the two agree (`SelectionAssumption` of
`MCBackground`). Its `++` updates a function likewise, for `@@`. Induction on numbers goes by least
counterexample (`LeastExists`, `CountingUp` of `SequenceFacts`), the theorems on
induction being out of the provers' reach. Folds are reasoned about through instances of
`SequenceFacts` with `FoldStep` for the step of the fold (`FoldRuns`: a fold is the end of a run of its
steps; `FoldKeeps`, `FoldFlattened`), since a lemma cannot take the step as a parameter.

**Only model-checked:** all liveness (`ClosesComplete`, `DueIsServed`, `ChangeIsStored`, `FilesAreHandled`):
TLAPS has no support for `ENABLED`. And, by their nature, the violations of section 6.

## 6. Where code and comments disagree

Each of these is a violation run:

1. `handle_mode`: toggling a workspace's lock and back before the push is answered leaves the
   handle in the mode in between (`useHandleReadOnlySync.ts:52`), against its comment at 17.
2. `generate_appends`: the pass that wires self references and cycles updates every row of the
   table, so rows from before the run get another parent (`generate/application.rs:414`), against
   `docs/M16-generate-data.md:211`.
3. `index_kept`: renaming an indexed column in a batch that rebuilds the SQLite table loses the
   index (`engines/sqlite/structure.rs:806`), against the comment at 652.
4. `prune_foreign`: the report "orders" prunes those the report "reorders" wrote to the same folder
   (`schedules/domain/mod.rs:396`), against `schedules/application/mod.rs:343`.

The quotes are under `findings` in `PROJECT.json`.

The modules also define the following, which TLC
finds violated on the same instances; the comment above each says what it takes:

| Module | Defined, does not hold |
|---|---|
| `ConnectionManager` | `WritesRefusedWhileReadOnly`: `remove` and `close_all` forget a mode before they take the connection out (`connections/application/mod.rs:340`, `351`, comment at 99). `ExitClosesEveryConnection`: `close_all` drains once (352); a connect that ends later is not waited for (`lib.rs:736`) |
| `Schedules` | `RescheduledFromThePresent`: the next run is computed from the start of the tick (comment `schedules/application/mod.rs:161`). `NextRunFollowsRecurrence`: a tick that read an entry before its edit stamps it with the old recurrence's next run (`scheduler.rs:86`, `108`; comment `application/mod.rs:66`) |
| `Tabs`, `SqlRuns`, `SavedQueries` | `ParkedCloseIsPrompted`, `ResultsSurviveSwitches`, `LinkIsOfTheText` |
| `GridPages`, `GridEdits` | `DeletesWhatWasPicked`, `PageIsOfTheView`, `CommittedRowsAreNotStaged` |
| `Introspection`, `Board` | `RefetchShowsTruth`, `NothingIsLostToATabClose` |
| `StructureEdits`, `MapEdits` | `WorkingSetIsTheResult`, `AppliedBatchIsCleared`, `RebuildFollowsTheList` (a replay writes to the object a created table's statement holds, `useSchemaEditor.ts:459`, comment at 448) |
| `OsFileOpen`, `Sessions`, `ConnectionForm` | `MissedNudgeLosesNothing`, `OwnTabsOnly`, `VerdictIsOfTheForm` |
| `SchemaDiff`, `MigrationPlan`, `ReportFiles` | `ChipsAreOfThePair`, `SpinnerIsAtWork`, `PlanMatches`, `RunLeavesItsReport`, `KeepIsEnforced` |

Also seen while modelling, not stated as properties:

*Rail and hook.* Closing the active workspace focuses its RIGHT neighbour; the doc of
`closeWorkspace` (`workspaces/state.ts:122`) says the left one. Two re-opens of a file in flight leak
the first scratch database (`data_file/open.ts:110`); a node switch that lands after its workspace
was closed leaks the new connection (`RedisWorkspace.tsx:255`).

*Sessions.* A kept child promoted by its parent's close is written as the connection's own
(`sessionSync.ts:51`, comment at 42). Turning "Restore tabs" off and on stores nothing until the next
change. A kept child of a connection with an empty strip is not restored, and the next flush erases
it. The history of a strip is not stored although `workspaces/state.ts:43` says "PERSISTED". With more
than 20 connections open, an open one is pruned.

*Schedules.* A paused schedule gets a next run if it is paused while a tick that saw it
enabled is at work (`scheduler.rs:86`); a deleted one is revived by a pause whose read came first
(`application/mod.rs:118`); a run that ends after the delete leaves a log entry (228). A reschedule the
disk refuses is ignored, and the schedule runs on every tick until a write succeeds. After the
clock is set back, next runs computed before wait for the far date. A run's query has no timeout: one
that never returns holds the gate. `next_due_after` returns nothing for a time of day inside a
jump longer than three hours that both candidates fall into, and where clocks go back over
midnight (some zones' past rules); its comment calls this unreachable in practice, and
`ZonesAssumption` and `DatesAdvance` exclude such zones.

*Report files.* Reports of the same name share files and prune each other's. Renaming a report
or switching its environment orphans what it wrote. Names that were trimmed, or cut at 120
characters, are never pruned. With the clock set back the newest file is the oldest, is pruned by the run
that wrote it, and the run's record points to it.

*Handles and registry.* `set_read_only` racing a close leaves the mark of a closed handle for the
rest of the session (`connections/application/mod.rs:142`); `StaleModeNeverHit` is why it does no harm.
A keychain read racing a change leaves the old value cached. A delete the keychain refuses cannot be
repeated (the entry is gone), while the renderer still lists it. A new entry whose keychain
write fails stays, and saving again makes a second one. An imported entry counted as failed has
already replaced the row. Saving an entry deleted meanwhile brings it back.

*Connection form.* The verdict of a test is shown over a form edited since. An imported secret
stays when a URL without one is imported after it, or the host is changed. The tunnel secret of another
engine is sent along.

*Generation.* Of two foreign keys to one parent on a cycle only the last is deferred: the other is
NULL, and the parent's pool is cached empty for later tables. Composite keys defer their first
column only. Tables without a primary key, and rows beyond `POOL_CAP`, are not wired, and nothing
says so. A pool that cannot be read is taken as empty. The offset of unique values counts rows up to
`POOL_CAP`, so it repeats after deletions and beyond it (`application.rs:266`, `M16:133`). A cancel
before the run registers is lost; the wiring cannot be cancelled.

*Grid.* Two quick saves run the batch twice; edits typed during a save are cleared by its answer; an
open cell editor folded into a save that fails or is cancelled is lost; duplicating rows has no
read-only check.

*Structure editor.* Swapping two index names edits the wrong card. A column dropped with its
index is refused by the native path. Operations staged while an apply runs are cleared by its
answer. A drop after a rename is not shown and can be staged twice. Cancelling a new column
removes every operation with its name. An edited index is not checked for duplicates.

*Schema map.* Statements staged while a commit is in flight are cleared; discarding meanwhile says
"discarded" although the script commits. Reading the metas again (also after a change of language)
drops staged statements and keeps the old snapshot. A rename does not repoint the foreign keys of
other tables, a drop leaves them, and unstaging leaves later statements whose subject is gone.

*Board.* A click, or opening an editor and leaving it with Escape, is an undo step that changes
nothing and discards redo; text typed in place is lost when the tab is switched by keyboard.

*Saved queries.* Saving an unlinked tab twice makes two entries; the call that remembers
parameters sends the list's text and can undo a save; updating a removed entry brings it back.

*Files from the OS.* Two drains interleave although a batch promises the given order
(`osFileOpen.ts:141`); of two scripts the second is dropped while the viewer shows the first.

*Comparison and plans.* A borrowed handle whose workspace closes stays cached, and Try again fails
until the dialog is closed. Snapshots are never read again while mounted. Nullability, uniqueness
and the columns of an index are not compared. A new table with a composite key gets two PRIMARY KEY
lines; a column is dropped before its index, whose DROP INDEX then fails; an index moved to a table
listed earlier clashes with itself. The type of a column is changed without USING, and the index of a
UNIQUE constraint is dropped by name, both of which Postgres refuses; as the whole plan is rolled back, the
target stays as it is until such a statement is left out. On SQLite the plan says ALTER COLUMN TYPE, on MySQL DROP INDEX without ON.

## 7. Not covered

- Engine adapters, SSH tunnels, encryption and file formats: external protocols and data, where
  TLA+ would restate the code. Slices that only delegate to an engine are covered as far as they go
  through the manager's gate and lookup.
- The contents of reports, results, names and all wording; layout and rendering.
- Settings, preferences, diagram layouts and metrics: one value each, the last writer wins.
- The docked console, the data-file viewer, the updater, the board diff, and the tables of the
  NoSQL engines. Of the last, read but not modelled: the key list of Redis and the pages of Cassandra
  and Dynamo do not check that an answer is still wanted, saving clears edits made meanwhile
  or on rows that are not on the page, and a selection by index survives a new page.
- Of the modelled components, what their part of section 2 says is left out.

The map covers about 5.5 % of the implementation's lines. Most of the rest are translations, markup and
styling of components, SQL dialects and wire protocols.

## 8. Plan

Next to model: the tables of the NoSQL engines (`GridPages` and `GridEdits` are the pattern; there is no
guard against late answers), the docked console, the data-file viewer, the board diff, and
the pinning of a batch to one session in the engine adapters.

Next to prove: what those will promise. Of the modules there are, the safety properties the runs check
are proved; the liveness properties would need their leads-to steps shown without `ENABLED`.
