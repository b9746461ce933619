----------------------------- MODULE Schedules -----------------------------
(***************************************************************************)
(* Scheduled reports, src-tauri/src/features/schedules: the schedule store *)
(* and its run log (two JSON files, each rewritten under its own lock),    *)
(* the background scheduler, and the commands of the manager's window that *)
(* run concurrently with it.                                               *)
(*                                                                         *)
(* Every action is one locked access to a store, or one step on the gate,  *)
(* an async mutex that lets one run happen at a time.  The scheduler reads *)
(* the store and the clock ONCE per tick and works through what it read;   *)
(* whatever the user does meanwhile, it does to the store, not to the      *)
(* scheduler's copy.  Time is a count of clock units; when a recurrence    *)
(* falls due is left to NextDue (module Recurrence has the calendar).      *)
(***************************************************************************)
EXTENDS Integers, Sequences

CONSTANTS
  Id,             \* schedule ids (UUIDs, assigned at creation)
  Rec,            \* recurrences
  NextDue(_, _),  \* Recurrence::next_due_after
  Task,           \* commands in flight
  Scheduler,      \* the background loop
  Absent,         \* no such schedule in the store
  None,           \* no schedule in hand
  DiskOutcome,    \* whether a bookkeeping write can fail: {TRUE} or BOOLEAN
  MaxHistory,     \* MAX_HISTORY, the length a run log is trimmed to
  MaxTime,        \* bound: the clock stops here
  MaxCrashes,     \* bound: how often the process is killed
  MaxSetbacks     \* bound: how often the clock is set back

ASSUME ScheduleAssumption ==
  /\ \A r \in Rec, t \in 0..MaxTime : NextDue(r, t) \in Nat /\ NextDue(r, t) > t
  /\ None \notin Id
  /\ Scheduler \notin Task
  /\ DiskOutcome \subseteq BOOLEAN
  /\ MaxHistory \in Nat \ {0}
  /\ MaxTime \in Nat \ {0} /\ MaxCrashes \in Nat /\ MaxSetbacks \in Nat

Actor == Task \cup {Scheduler}

Schedule == [enabled : BOOLEAN, rec : Rec, next : Nat]

ASSUME AbsentAssumption == Absent \notin Schedule

VARIABLES
  store,     \* schedules.json: a schedule or Absent, per id
  created,   \* the ids ever assigned
  log,       \* schedule_runs.json: the starting times of the runs, newest last
  now,       \* the wall clock
  gate,      \* the actors waiting for the gate, its holder first
  pc,        \* what each actor does next
  job,       \* the schedule each actor works on
  payload,   \* the entry a task is about to save
  startedAt, \* when the run an actor is in began
  snap,      \* the scheduler's copy of the store
  tickNow,   \* the scheduler's copy of the clock
  missing,   \* never-scheduled ids the tick has still to stamp
  due,       \* due ids the tick has still to run
  crashes, setbacks,
  afresh,    \* history: ids whose stored next run is no longer this tick's doing:
             \*   a command wrote it, or the disk refused the tick's own
  ranAt      \* history: the tick of the last scheduled run since such a write

disk == <<store, log>>
tick == <<snap, tickNow, missing, due>>
actors == <<gate, pc, job, payload, startedAt>>
clock == <<now, crashes, setbacks>>
history == <<afresh, ranAt>>
vars == <<disk, created, tick, actors, clock, history>>

-----------------------------------------------------------------------------
Present(id) == store[id] # Absent

\* next_run_at: a disabled schedule has no next run.
NextRun(enabled, rec, t) == IF enabled THEN NextDue(rec, t) ELSE 0

IsDue(s, t) == s # Absent /\ s.enabled /\ s.next > 0 /\ s.next <= t

IsMissing(s) == s # Absent /\ s.enabled /\ s.next = 0

\* Bug variant: the length is tested before the append.
RecordedLate(entries, at) ==
  IF Len(entries) > MaxHistory THEN Tail(Append(entries, at)) ELSE Append(entries, at)

\* RunLogRepository::record: append, then drop the oldest beyond the limit.
Recorded(entries, at) ==
  LET all == Append(entries, at)
  IN  IF Len(all) > MaxHistory THEN Tail(all) ELSE all

Goto(a, label, id) ==
  /\ pc' = [pc EXCEPT ![a] = label]
  /\ job' = [job EXCEPT ![a] = id]

Idle(a) == Goto(a, IF a = Scheduler THEN "due" ELSE "idle", None)

-----------------------------------------------------------------------------
TaskPC == {"idle", "write", "forget", "queued", "running"}
LoopPC == {"asleep", "missing", "due", "queued", "running"}

TypeOK ==
  /\ store \in [Id -> Schedule \cup {Absent}]
  /\ created \subseteq Id
  /\ log \in [Id -> Seq(Nat)]
  /\ now \in 0..MaxTime
  /\ gate \in Seq(Actor)
  /\ pc \in [Actor -> TaskPC \cup LoopPC]
  /\ \A t \in Task : pc[t] \in TaskPC
  /\ pc[Scheduler] \in LoopPC
  /\ job \in [Actor -> Id \cup {None}]
  /\ payload \in [Task -> Schedule \cup {Absent}]
  /\ startedAt \in [Actor -> Nat]
  /\ snap \in [Id -> Schedule \cup {Absent}]
  /\ tickNow \in 0..MaxTime
  /\ missing \subseteq Id
  /\ due \subseteq Id
  /\ crashes \in Nat
  /\ setbacks \in Nat
  /\ afresh \subseteq Id
  /\ ranAt \in [Id -> Nat]

\* A process that has just started: nothing is in flight and the loop is asleep.
FreshPc == [a \in Actor |-> IF a = Scheduler THEN "asleep" ELSE "idle"]
NoJob == [a \in Actor |-> None]
NoPayload == [t \in Task |-> Absent]
NotRunning == [a \in Actor |-> 0]
NoSnapshot == [id \in Id |-> Absent]

\* An entry written by hand, or by a build that had no next-run field.
NeverScheduled == {[enabled |-> TRUE, rec |-> rec, next |-> 0] : rec \in Rec}

Init ==
  /\ store \in [Id -> NeverScheduled \cup {Absent}]
  /\ created = {id \in Id : store[id] # Absent}
  /\ log = [id \in Id |-> <<>>]
  /\ now = 1
  /\ gate = <<>> /\ pc = FreshPc /\ job = NoJob /\ payload = NoPayload
  /\ startedAt = NotRunning
  /\ snap = NoSnapshot /\ tickNow = 0 /\ missing = {} /\ due = {}
  /\ crashes = 0
  /\ setbacks = 0
  /\ afresh = {}
  /\ ranAt = [id \in Id |-> 0]

-----------------------------------------------------------------------------
(* Commands of the schedule manager.                                       *)

\* schedule_save of a new entry, and of an edited one: the next run is computed
\* from the clock, then the entry is upserted under the store's lock.
SaveNew(t) ==
  /\ pc[t] = "idle"
  /\ \E id \in Id \ created, enabled \in BOOLEAN, rec \in Rec :
       /\ created' = created \cup {id}
       /\ payload' = [payload EXCEPT ![t] =
            [enabled |-> enabled, rec |-> rec, next |-> NextRun(enabled, rec, now)]]
       /\ Goto(t, "write", id)
  /\ UNCHANGED <<disk, tick, gate, startedAt, clock, history>>

Edit(t) ==
  /\ pc[t] = "idle"
  /\ \E id \in Id, enabled \in BOOLEAN, rec \in Rec :
       /\ Present(id)
       /\ payload' = [payload EXCEPT ![t] =
            [enabled |-> enabled, rec |-> rec, next |-> NextRun(enabled, rec, now)]]
       /\ Goto(t, "write", id)
  /\ UNCHANGED <<disk, created, tick, gate, startedAt, clock, history>>

\* schedule_set_enabled: the entry is read without the lock it is written under.
SetEnabled(t) ==
  /\ pc[t] = "idle"
  /\ \E id \in Id, enabled \in BOOLEAN :
       /\ Present(id)
       /\ payload' = [payload EXCEPT ![t] =
            [store[id] EXCEPT !.enabled = enabled,
                              !.next = NextRun(enabled, store[id].rec, now)]]
       /\ Goto(t, "write", id)
  /\ UNCHANGED <<disk, created, tick, gate, startedAt, clock, history>>

\* ScheduleRepository::save, an upsert.
Write(t) ==
  /\ pc[t] = "write"
  /\ store' = [store EXCEPT ![job[t]] = payload[t]]
  /\ afresh' = afresh \cup {job[t]}
  /\ ranAt' = [ranAt EXCEPT ![job[t]] = 0]
  /\ payload' = [payload EXCEPT ![t] = Absent]
  /\ Idle(t)
  /\ UNCHANGED <<log, created, tick, gate, startedAt, clock>>

\* schedule_delete: the entry, then its history, under two locks.
Delete(t) ==
  /\ pc[t] = "idle"
  /\ \E id \in Id :
       /\ Present(id)
       /\ store' = [store EXCEPT ![id] = Absent]
            /\ Goto(t, "forget", id)
  /\ UNCHANGED <<log, created, tick, gate, payload, startedAt, clock, afresh, ranAt>>

Forget(t) ==
  /\ pc[t] = "forget"
  /\ log' = [log EXCEPT ![job[t]] = <<>>]
  /\ Idle(t)
  /\ UNCHANGED <<store, created, tick, gate, payload, startedAt, clock, history>>

\* schedule_run_now: a manual run joins the queue and leaves the next run alone.
RunNow(t) ==
  /\ pc[t] = "idle"
  /\ \E id \in Id : Present(id) /\ Goto(t, "queued", id)
  /\ gate' = Append(gate, t)
  /\ UNCHANGED <<disk, created, tick, payload, startedAt, clock, history>>

-----------------------------------------------------------------------------
(* run_one: wait for the gate, run, record, release.                       *)

\* Bug variant: the run is announced and begun without waiting for the gate.
RunWithoutGate(a) ==
  /\ pc[a] = "queued"
  /\ Goto(a, "running", job[a])
  /\ startedAt' = [startedAt EXCEPT ![a] = now]
  /\ ranAt' = IF a # Scheduler THEN ranAt
              ELSE [ranAt EXCEPT ![job[a]] = IF job[a] \in afresh THEN 0 ELSE tickNow]
  /\ UNCHANGED <<disk, created, tick, gate, payload, clock, afresh>>

RunStart(a) ==
  /\ pc[a] = "queued"
  /\ gate # <<>> /\ Head(gate) = a
  /\ Goto(a, "running", job[a])
  /\ startedAt' = [startedAt EXCEPT ![a] = now]
  /\ ranAt' = IF a # Scheduler THEN ranAt
              ELSE [ranAt EXCEPT ![job[a]] = IF job[a] \in afresh THEN 0 ELSE tickNow]
  /\ UNCHANGED <<disk, created, tick, gate, payload, clock, afresh>>

\* The run ends, well or badly; its record is appended, the gate released.
RunEnd(a) ==
  /\ pc[a] = "running"
  /\ \E ok \in DiskOutcome :
       log' = IF ok THEN [log EXCEPT ![job[a]] = Recorded(@, startedAt[a])] ELSE log
  /\ gate' = Tail(gate)
  /\ startedAt' = [startedAt EXCEPT ![a] = 0]
  /\ Idle(a)
  /\ UNCHANGED <<store, created, tick, payload, clock, history>>

-----------------------------------------------------------------------------
(* The background loop.                                                    *)

\* Bug variant: only entries with a next run are looked at.
TickIgnoringMissing ==
  /\ pc[Scheduler] = "asleep"
  /\ tickNow' = now
  /\ snap' = store
  /\ missing' = {}
  /\ due' = {id \in Id : IsDue(store[id], now)}
  /\ afresh' = {}
  /\ Goto(Scheduler, "missing", None)
  /\ UNCHANGED <<disk, created, gate, payload, startedAt, clock, ranAt>>

\* tick: one look at the clock and at the store.
Tick ==
  /\ pc[Scheduler] = "asleep"
  /\ tickNow' = now
  /\ snap' = store
  /\ missing' = {id \in Id : IsMissing(store[id])}
  /\ due' = {id \in Id : IsDue(store[id], now)}
  /\ afresh' = {}
  /\ Goto(Scheduler, "missing", None)
  /\ UNCHANGED <<disk, created, gate, payload, startedAt, clock, ranAt>>

\* set_next_run_at: the one field of the stored entry, if it is still there.
\* What it is set to comes from the tick's copies; a failed write is ignored.
SetNextRunAt(id, next) ==
  \E ok \in DiskOutcome :
    /\ store' = IF ok /\ Present(id) THEN [store EXCEPT ![id].next = next] ELSE store
    /\ afresh' = IF ok THEN afresh ELSE afresh \cup {id}

StampMissing ==
  /\ pc[Scheduler] = "missing"
  /\ \E id \in missing :
       /\ SetNextRunAt(id, NextRun(snap[id].enabled, snap[id].rec, tickNow))
       /\ missing' = missing \ {id}
  /\ UNCHANGED <<log, created, actors, snap, tickNow, due, clock, ranAt>>

StampsDone ==
  /\ pc[Scheduler] = "missing" /\ missing = {}
  /\ Goto(Scheduler, "due", None)
  /\ UNCHANGED <<disk, created, tick, gate, payload, startedAt, clock, history>>

\* Bug variant: every missed occurrence is caught up with, one by one.
RescheduleFromSlot ==
  /\ pc[Scheduler] = "due"
  /\ \E id \in due :
       /\ SetNextRunAt(id, NextRun(snap[id].enabled, snap[id].rec, snap[id].next))
       /\ due' = due \ {id}
       /\ Goto(Scheduler, "queued", id)
  /\ gate' = Append(gate, Scheduler)
  /\ UNCHANGED <<log, created, snap, tickNow, missing, payload, startedAt, clock, ranAt>>

\* A due schedule is rescheduled BEFORE it queues for its run.
Reschedule ==
  /\ pc[Scheduler] = "due"
  /\ \E id \in due :
       /\ SetNextRunAt(id, NextRun(snap[id].enabled, snap[id].rec, tickNow))
       /\ due' = due \ {id}
       /\ Goto(Scheduler, "queued", id)
  /\ gate' = Append(gate, Scheduler)
  /\ UNCHANGED <<log, created, snap, tickNow, missing, payload, startedAt, clock, ranAt>>

Sleep ==
  /\ pc[Scheduler] = "due" /\ due = {}
  /\ Goto(Scheduler, "asleep", None)
  /\ snap' = NoSnapshot
  /\ tickNow' = 0
  /\ UNCHANGED <<disk, created, missing, due, gate, payload, startedAt, clock, history>>

-----------------------------------------------------------------------------
(* The world: time passes, clocks are reset, processes die.                *)

Advance ==
  /\ now < MaxTime
  /\ now' = now + 1
  /\ UNCHANGED <<disk, created, tick, actors, crashes, setbacks, history>>

SetBack ==
  /\ setbacks < MaxSetbacks
  /\ \E earlier \in 1..(now - 1) : now' = earlier
  /\ setbacks' = setbacks + 1
  /\ UNCHANGED <<disk, created, tick, actors, crashes, history>>

\* Both files are replaced by a rename, so a crash leaves the last written one.
Crash ==
  /\ crashes < MaxCrashes
  /\ crashes' = crashes + 1
  /\ gate' = <<>> /\ pc' = FreshPc /\ job' = NoJob /\ payload' = NoPayload
  /\ startedAt' = NotRunning
  /\ snap' = NoSnapshot /\ tickNow' = 0 /\ missing' = {} /\ due' = {}
  /\ UNCHANGED <<disk, created, now, setbacks, history>>

-----------------------------------------------------------------------------
Command(t) == SaveNew(t) \/ Edit(t) \/ SetEnabled(t) \/ Delete(t) \/ RunNow(t)

Commit(t) == Write(t) \/ Forget(t)

Run(a) == RunStart(a) \/ RunEnd(a)

Loop == Tick \/ StampMissing \/ StampsDone \/ Reschedule \/ Sleep

Next ==
  \/ \E t \in Task : Command(t) \/ Commit(t)
  \/ \E a \in Actor : Run(a)
  \/ Loop
  \/ Advance \/ SetBack \/ Crash

\* A command that has begun is polled to its end, a run ends (its connect has a
\* timeout; its query is assumed to return), the loop never stops ticking.
Fairness ==
  /\ \A t \in Task : WF_vars(Commit(t))
  /\ \A a \in Actor : WF_vars(Run(a))
  /\ WF_vars(Loop)

Spec == Init /\ [][Next]_vars /\ Fairness

-----------------------------------------------------------------------------
(* Properties.                                                             *)

\* The gate: "at most one run happens at a time".
OneRunAtATime ==
  \A a, b \in Actor : pc[a] = "running" /\ pc[b] = "running" => a = b

\* The stores and the loop's copies keep their types, and the gate admits one run
\* (RunGate: "at most one run happens at a time").
StoresAndGateSound == TypeOK /\ OneRunAtATime

\* A run log keeps the newest MAX_HISTORY runs in the order they started,
\* although manual and scheduled runs queue for one gate in any order.
LogKeepsNewestInOrder ==
  \A id \in Id :
    /\ Len(log[id]) <= MaxHistory
    /\ setbacks = 0 => \A i, j \in DOMAIN log[id] : i < j => log[id][i] <= log[id][j]

\* Bounded catch-up ("a schedule whose next_run_at is in the past runs ONCE and
\* is then rescheduled"): a scheduled run starts only for an occurrence later
\* than the tick that started the previous one, crashes, late runs and racing
\* edits included. A command's write starts a schedule afresh, and a reschedule
\* the disk refused is not counted: the schedule then stays due and runs again.
BoundedCatchUp ==
  [][ pc[Scheduler] = "queued" /\ pc'[Scheduler] = "running"
      => snap[job[Scheduler]].next > ranAt[job[Scheduler]] ]_vars

\* What an actor between two steps has in hand.
JobInHand ==
  /\ \A a \in Actor : pc[a] \in {"write", "forget", "queued", "running"} => job[a] \in Id
  /\ \A t \in Task : pc[t] = "write" => payload[t] \in Schedule

\* Whoever runs is at the head of the gate's queue.
GateHeld == \A a \in Actor : pc[a] = "running" => gate # <<>> /\ Head(gate) = a

\* What is left of a tick is what its copies said, and nothing outlives the tick.
TickPlan ==
  /\ \A id \in due : IsDue(snap[id], tickNow)
  /\ \A id \in missing : IsMissing(snap[id])
  /\ pc[Scheduler] # "missing" => missing = {}
  /\ pc[Scheduler] = "asleep" => due = {}
  /\ pc[Scheduler] = "queued" => IsDue(snap[job[Scheduler]], tickNow) /\ job[Scheduler] \notin due

\* A stored next run, and one a tick still means to act on, lies beyond the last
\* scheduled run.
NextAfterLast ==
  /\ \A id \in Id : Present(id) => store[id].next > ranAt[id] \/ ranAt[id] = 0
  /\ \A id \in due : snap[id].next > ranAt[id]
  /\ \A id \in missing : ranAt[id] = 0
  /\ pc[Scheduler] = "queued" =>
       LET id == job[Scheduler] IN
       /\ snap[id].next > ranAt[id]
       /\ id \notin afresh /\ Present(id) => store[id].next > tickNow

\* The inductive invariant the proofs rest on.
IInv == TypeOK /\ JobInHand /\ GateHeld /\ TickPlan /\ NextAfterLast

\* A schedule that is due, or has never been scheduled, does not stay so: the
\* loop reaches it whatever manual runs and commands come in between.
DueIsServed ==
  \A id \in Id : IsDue(store[id], now) \/ IsMissing(store[id])
                 ~> ~(IsDue(store[id], now) \/ IsMissing(store[id]))

\* save_schedule's comment: an edited recurrence "must not keep pointing at the
\* old recurrence's next occurrence". A tick that read the entry before
\* it was edited makes it do so.
NextRunFollowsRecurrence ==
  [][ \A id \in (missing \ missing') \cup (due \ due') :
        store'[id] # store[id] => store[id].rec = snap[id].rec ]_vars

\* next_run_at's comment: "the moment it runs the next time is measured from the
\* present". It is measured from the start of the tick, which earlier runs of the
\* tick, or a manual run holding the gate, may have left far behind: the run then
\* starts with its next one already due.
RescheduledFromThePresent ==
  [][ LET id == job[Scheduler] IN
      pc[Scheduler] = "queued" /\ pc'[Scheduler] = "running" /\ id \notin afresh /\ Present(id)
      => store[id].next > now ]_vars
=============================================================================
