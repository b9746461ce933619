------------------------- MODULE ConnectionManager -------------------------
(***************************************************************************)
(* The open-connection table of the Rust core,                             *)
(* src-tauri/src/features/connections/application/mod.rs: which handles    *)
(* are open, which of them are read-only sessions, and the commands that   *)
(* race over them.  The table is two maps behind two SEPARATE async locks, *)
(* so every command that touches both does so in two steps, and any other  *)
(* command may run between them: each step below is one lock acquisition   *)
(* or one driver call.                                                     *)
(*                                                                         *)
(* A task is one command in flight on the async runtime (an IPC call of    *)
(* the renderer, or a scheduled run).  The main thread runs close_all when *)
(* the application exits.  A connection is identified with the handle it   *)
(* is stored under: the engine family (get_sql, get_kv, ...) decides only  *)
(* which error a mismatched command gets.                                  *)
(***************************************************************************)
EXTENDS Naturals

CONSTANTS
  Handle,    \* the handle ids that can be minted (fresh UUIDs)
  Task,      \* the commands in flight
  NoHandle   \* what an idle task holds

ASSUME HandleAssumption == NoHandle \notin Handle

VARIABLES
  open,      \* ConnectionManager.open: the handles with a stored connection
  readOnly,  \* ConnectionManager.read_only
  minted,    \* every id insert_with_mode has generated
  known,     \* the ids a reply has carried back to the renderer
  closes,    \* how often close() was called on a handle's connection
  exit,      \* how far the teardown hook's close_all is
  doomed,    \* connections close_all has drained and not yet closed
  pc,        \* the next step of each task
  handle,    \* the handle a task works on
  flag,      \* a task's argument: the mode to set, or "this command writes"
  mode,      \* history: the mode last asked for, and granted, per handle
  closing,   \* history: the handles some close has begun to forget
  lockedAtGate \* history: whether the mode was read-only when a task passed its gate

manager == <<open, readOnly, minted, known, closes>>
teardown == <<exit, doomed>>
task == <<pc, handle, flag>>
history == <<mode, closing, lockedAtGate>>
vars == <<manager, teardown, task, history>>

PC == {"idle", "connect", "insertMode", "setMode", "get", "execute", "remove", "teardown"}

TypeOK ==
  /\ open \subseteq Handle
  /\ readOnly \subseteq Handle
  /\ minted \subseteq Handle
  /\ known \subseteq Handle
  /\ closes \in [Handle -> Nat]
  /\ exit \in {"running", "cleared", "drained", "exited"}
  /\ doomed \subseteq Handle
  /\ pc \in [Task -> PC]
  /\ handle \in [Task -> Handle \cup {NoHandle}]
  /\ flag \in [Task -> BOOLEAN]
  /\ mode \in [Handle -> BOOLEAN]
  /\ closing \subseteq Handle
  /\ lockedAtGate \in [Task -> BOOLEAN]

Init ==
  /\ open = {}
  /\ readOnly = {}
  /\ minted = {}
  /\ known = {}
  /\ closes = [h \in Handle |-> 0]
  /\ exit = "running"
  /\ doomed = {}
  /\ pc = [t \in Task |-> "idle"]
  /\ handle = [t \in Task |-> NoHandle]
  /\ flag = [t \in Task |-> FALSE]
  /\ mode = [h \in Handle |-> FALSE]
  /\ closing = {}
  /\ lockedAtGate = [t \in Task |-> FALSE]

-----------------------------------------------------------------------------
(* A task between its steps.                                               *)

At(t, label) == exit # "exited" /\ pc[t] = label

Goto(t, label, h, f) ==
  /\ pc' = [pc EXCEPT ![t] = label]
  /\ handle' = [handle EXCEPT ![t] = h]
  /\ flag' = [flag EXCEPT ![t] = f]

Finish(t) == Goto(t, "idle", NoHandle, FALSE)

-----------------------------------------------------------------------------
(* open_connection.                                                        *)

\* The saved entry's flag is a floor: a request can only tighten it.
SessionMode(saved, requested) == saved \/ requested

StartOpen(t) ==
  /\ At(t, "idle")
  /\ \E saved, requested \in BOOLEAN :
       Goto(t, "connect", NoHandle, SessionMode(saved, requested))
  /\ UNCHANGED <<manager, teardown, history>>

\* The connect, its initial payload or the shared timeout fails: the future
\* and any half-built connection are dropped, nothing was stored.
ConnectFails(t) ==
  /\ At(t, "connect")
  /\ Finish(t)
  /\ UNCHANGED <<manager, teardown, history>>

\* Bug variant: the handle is handed out before its mode is recorded.
InsertPublishedEarly(t) ==
  /\ At(t, "connect")
  /\ \E h \in Handle \ minted :
       /\ minted' = minted \cup {h}
       /\ open' = open \cup {h}
       /\ mode' = [mode EXCEPT ![h] = flag[t]]
       /\ known' = known \cup {h}
       /\ IF flag[t] THEN Goto(t, "insertMode", h, TRUE) ELSE Finish(t)
  /\ UNCHANGED <<readOnly, closes, teardown, closing, lockedAtGate>>

\* Bug variant: an id is free again once its connection has left the table.
InsertReusingIds(t) ==
  /\ At(t, "connect")
  /\ \E h \in Handle \ open :
       /\ minted' = minted \cup {h}
       /\ open' = open \cup {h}
       /\ mode' = [mode EXCEPT ![h] = flag[t]]
       /\ IF flag[t]
          THEN known' = known /\ Goto(t, "insertMode", h, TRUE)
          ELSE known' = known \cup {h} /\ Finish(t)
  /\ UNCHANGED <<readOnly, closes, teardown, closing, lockedAtGate>>

\* The connection goes into the table under a fresh id. The reply carries the
\* id only after the mode is stored too.
Insert(t) ==
  /\ At(t, "connect")
  /\ \E h \in Handle \ minted :
       /\ minted' = minted \cup {h}
       /\ open' = open \cup {h}
       /\ mode' = [mode EXCEPT ![h] = flag[t]]
       /\ IF flag[t]
          THEN known' = known /\ Goto(t, "insertMode", h, TRUE)
          ELSE known' = known \cup {h} /\ Finish(t)
  /\ UNCHANGED <<readOnly, closes, teardown, closing, lockedAtGate>>

InsertMode(t) ==
  /\ At(t, "insertMode")
  /\ readOnly' = readOnly \cup {handle[t]}
  /\ known' = known \cup {handle[t]}
  /\ Finish(t)
  /\ UNCHANGED <<open, minted, closes, teardown, history>>

-----------------------------------------------------------------------------
(* set_read_only: the open check and the change are two locks.             *)

\* Bug variant: the check is dropped, so any id the renderer sends is accepted.
SetUnchecked(t) ==
  /\ At(t, "idle")
  /\ \E h \in known \cup {NoHandle}, ro \in BOOLEAN : Goto(t, "setMode", h, ro)
  /\ UNCHANGED <<manager, teardown, history>>

CheckOpen(t) ==
  /\ At(t, "idle")
  /\ \E h \in known, ro \in BOOLEAN : h \in open /\ Goto(t, "setMode", h, ro)
  /\ UNCHANGED <<manager, teardown, history>>

SetMode(t) ==
  /\ At(t, "setMode")
  /\ readOnly' = IF flag[t] THEN readOnly \cup {handle[t]} ELSE readOnly \ {handle[t]}
  /\ mode' = [mode EXCEPT ![handle[t]] = flag[t]]
  /\ Finish(t)
  /\ UNCHANGED <<open, minted, known, closes, teardown, closing, lockedAtGate>>

-----------------------------------------------------------------------------
(* A command on a handle: the gate, the lookup, the driver call.           *)

\* ensure_writable, and refuse_writes_in_read_only for SQL text: a handle that
\* is not in the set passes, an unknown one included.
Passes(h, writes) == ~(writes /\ h \in readOnly)

Gate(t) ==
  /\ At(t, "idle")
  /\ \E h \in known, writes \in BOOLEAN :
       /\ Passes(h, writes)
       /\ Goto(t, "get", h, writes)
       /\ lockedAtGate' = [lockedAtGate EXCEPT ![t] = mode[h]]
  /\ UNCHANGED <<manager, teardown, mode, closing>>

\* get_sql and its siblings: the connection is cloned out of the table, so a
\* later close does not take it away from this command.
Get(t) ==
  /\ At(t, "get")
  /\ IF handle[t] \in open
     THEN Goto(t, "execute", handle[t], flag[t])
     ELSE Finish(t)
  /\ UNCHANGED <<manager, teardown, history>>

Execute(t) ==
  /\ At(t, "execute")
  /\ Finish(t)
  /\ UNCHANGED <<manager, teardown, history>>

-----------------------------------------------------------------------------
(* close_connection: remove forgets the mode first, then the connection.   *)

ForgetMode(t) ==
  /\ At(t, "idle")
  /\ \E h \in known :
       /\ readOnly' = readOnly \ {h}
       /\ closing' = closing \cup {h}
       /\ Goto(t, "remove", h, FALSE)
  /\ UNCHANGED <<open, minted, known, closes, teardown, mode, lockedAtGate>>

\* Bug variant: every closer tears down, whether or not it found the handle.
RemoveWithoutLooking(t) ==
  /\ At(t, "remove")
  /\ open' = open \ {handle[t]}
  /\ Goto(t, "teardown", handle[t], FALSE)
  /\ UNCHANGED <<readOnly, minted, known, closes, teardown, history>>

\* Of two closers of one handle only the one that finds it gets the connection.
RemoveOpen(t) ==
  /\ At(t, "remove")
  /\ IF handle[t] \in open
     THEN open' = open \ {handle[t]} /\ Goto(t, "teardown", handle[t], FALSE)
     ELSE open' = open /\ Finish(t)
  /\ UNCHANGED <<readOnly, minted, known, closes, teardown, history>>

CloseConnection(t) ==
  /\ At(t, "teardown")
  /\ closes' = [closes EXCEPT ![handle[t]] = @ + 1]
  /\ Finish(t)
  /\ UNCHANGED <<open, readOnly, minted, known, teardown, history>>

-----------------------------------------------------------------------------
(* close_all, on the main thread, while the runtime's workers keep going.  *)

ExitClear ==
  /\ exit = "running"
  /\ exit' = "cleared"
  /\ readOnly' = {}
  /\ UNCHANGED <<open, minted, known, closes, doomed, task, history>>

ExitDrain ==
  /\ exit = "cleared"
  /\ exit' = "drained"
  /\ doomed' = open
  /\ open' = {}
  /\ UNCHANGED <<readOnly, minted, known, closes, task, history>>

ExitClose ==
  /\ exit = "drained"
  /\ \E h \in doomed :
       /\ doomed' = doomed \ {h}
       /\ closes' = [closes EXCEPT ![h] = @ + 1]
  /\ UNCHANGED <<open, readOnly, minted, known, exit, task, history>>

\* Bug variant: the hook waits for the table to be empty, which a connect that
\* finishes late can prevent for ever.
DoneWhenTableEmpty ==
  /\ exit = "drained" /\ doomed = {} /\ open = {}
  /\ exit' = "exited"
  /\ UNCHANGED <<manager, doomed, task, history>>

\* The hook returns and the process ends with whatever is still in flight.
ExitDone ==
  /\ exit = "drained" /\ doomed = {}
  /\ exit' = "exited"
  /\ UNCHANGED <<manager, doomed, task, history>>

Exited == exit = "exited" /\ UNCHANGED vars

-----------------------------------------------------------------------------
\* The steps of a command that has begun: the runtime keeps polling it.
Continue(t) ==
  \/ InsertMode(t) \/ SetMode(t) \/ Get(t) \/ Execute(t)
  \/ RemoveOpen(t) \/ CloseConnection(t)

Begin(t) == StartOpen(t) \/ CheckOpen(t) \/ Gate(t) \/ ForgetMode(t)

Connect(t) == ConnectFails(t) \/ Insert(t)

Exiting == ExitDrain \/ ExitClose \/ ExitDone

Next ==
  \/ \E t \in Task : Begin(t) \/ Connect(t) \/ Continue(t)
  \/ ExitClear \/ Exiting
  \/ Exited

\* Nobody is obliged to issue a command or to quit. A connect ends within its
\* timeout, a started command is polled to its end, and the teardown hook
\* blocks the main thread until it is through; the drivers' calls return.
Fairness ==
  /\ \A t \in Task : WF_vars(Continue(t)) /\ WF_vars(Connect(t))
  /\ WF_vars(Exiting)

Spec == Init /\ [][Next]_vars /\ Fairness

-----------------------------------------------------------------------------
(* Properties.                                                             *)

TearingDown(t, h) == pc[t] = "teardown" /\ handle[t] = h

\* Every stored connection has exactly one owner until it is closed, and is
\* closed at most once: the table, close_all's drained list, or the one closer
\* that removed it. Double-fired closes and a close racing close_all are benign
\* (close_connection's comment) because of this.
ConnectionOwnedOnce ==
  \A h \in Handle :
    /\ closes[h] \in {0, 1}
    /\ h \in open => h \notin doomed /\ closes[h] = 0
    /\ h \in doomed => closes[h] = 0
    /\ \A t \in Task : TearingDown(t, h) =>
         /\ h \notin open \cup doomed
         /\ closes[h] = 0
         /\ \A u \in Task : TearingDown(u, h) => u = t
    /\ h \in minted /\ closes[h] = 0 =>
         h \in open \cup doomed \/ \E t \in Task : TearingDown(t, h)

BeingClosed(h) == h \in closing \/ exit # "running"

\* A command that writes, on a handle whose session was read-only when the
\* command was gated, gets past the gate only while that handle is being torn
\* down: neither the two-step insert nor racing mode changes let one through.
LockedHandleRefusesWrites ==
  \A t \in Task :
    pc[t] \in {"get", "execute"} /\ flag[t] /\ lockedAtGate[t] => BeingClosed(handle[t])

\* The stronger promise of insert_with_mode's comment: "Every mutating command
\* refuses a handle inserted with `read_only`". remove and close_all forget the
\* mode while the connection is still in the table, so it does not hold.
WritesRefusedWhileReadOnly ==
  \A t \in Task : pc[t] = "execute" /\ flag[t] => ~lockedAtGate[t]

\* remove's comment, "ids are fresh UUIDs, so a stale entry could never be hit":
\* set_read_only, which checks the handle under one lock and inserts under another,
\* leaves such entries behind, and none of them ever comes to gate a connection.
StaleModeNeverHit == [][\A h \in readOnly : h \notin open => h \notin open']_vars

\* lib.rs on its teardown hook: it blocks "so every connection's `close()`
\* completes before the process exits". A connect that finishes after the drain,
\* or a close still between its remove and its teardown, is not waited for.
ExitClosesEveryConnection == exit = "exited" => \A h \in minted : closes[h] = 1

\* A connection taken out of the table is closed in the end, unless the process
\* is gone first; and quitting, which closes them one at a time, ends, whatever
\* the commands in flight do to the table meanwhile (remove, close_all and the
\* exit hook of lib.rs).
ClosesComplete ==
  /\ \A h \in Handle : h \in minted \ open ~> closes[h] = 1 \/ exit = "exited"
  /\ exit # "running" ~> exit = "exited"

-----------------------------------------------------------------------------
(* The inductive invariant behind the safety properties.                   *)

Containment ==
  /\ open \subseteq minted
  /\ known \subseteq minted
  /\ readOnly \subseteq minted
  /\ doomed \subseteq minted
  /\ \A h \in Handle : closes[h] > 0 => h \in minted
  /\ exit \in {"running", "cleared", "exited"} => doomed = {}

\* What a task between two steps knows of the handle it holds.
Held ==
  \A t \in Task :
    /\ pc[t] = "insertMode" =>
         /\ handle[t] \in minted \ known
         /\ mode[handle[t]]
         /\ \A u \in Task : pc[u] = "insertMode" /\ handle[u] = handle[t] => u = t
    /\ pc[t] \in {"setMode", "get", "execute", "remove", "teardown"} => handle[t] \in known

\* Outside a teardown, the read-only set holds exactly the handles whose
\* session was last made read-only.
ModeEnforced ==
  \A h \in known : BeingClosed(h) \/ (h \in readOnly <=> mode[h])

IInv ==
  /\ TypeOK
  /\ Containment
  /\ Held
  /\ ModeEnforced
  /\ ConnectionOwnedOnce
  /\ LockedHandleRefusesWrites
=============================================================================
