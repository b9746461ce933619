--------------------------- MODULE BackgroundProofs ---------------------------
(***************************************************************************)
(* Proofs about Schedules, Recurrence, Sessions and OsFileOpen, for any    *)
(* schedules, recurrences, clocks, months, commands in flight,             *)
(* connections, files, drains, limits and bounds.                          *)
(*                                                                         *)
(* Schedules: IInv says what the actors hold between their steps, and how  *)
(* a stored next run, the tick's copies and the last run are ordered in    *)
(* time.  It is preserved conjunct by conjunct, with one lemma per         *)
(* conjunct and one step per action in each.  LogInv adds that no recorded *)
(* run began later than the clock or the run under way.                    *)
(*                                                                         *)
(* Recurrence: a time after the clock's first reading is answered by the   *)
(* instant the clock first shows it or jumps over it, and the furthest the *)
(* clock has been never goes back.  So of two days that a recurrence names *)
(* with none between, the second still ahead, first_after finds the next   *)
(* occurrence; there is one lemma for the days of each kind.               *)
(*                                                                         *)
(* Sessions: SessInv says that a snapshot waiting for the timer is the     *)
(* rail itself and newer than every entry, and that no more connections    *)
(* are open than are kept.  SessStep shows with it that every step is one  *)
(* of SessionPromise, seen through the refinement, or leaves it alone.     *)
(*                                                                         *)
(* OsFileOpen: FilesOnce counts where a queued file is.  What drains hold  *)
(* is a set of places, so a drain that goes on to its next file moves them *)
(* one to one.                                                             *)
(***************************************************************************)
EXTENDS Schedules, Recurrence, Sessions, OsFileOpen, SequenceFacts, SequenceTheorems

-----------------------------------------------------------------------------
\* The computed next run of an enabled schedule lies after the time it is
\* computed from, and a disabled schedule has none.
LEMMA NextRunLater ==
  ASSUME NEW enabled \in BOOLEAN, NEW rec \in Rec, NEW t \in 0..MaxTime
  PROVE  /\ NextRun(enabled, rec, t) \in Nat
         /\ enabled => NextRun(enabled, rec, t) > t
  BY ScheduleAssumption DEF NextRun

\* A run log stays a log of times.
LEMMA RecordedType ==
  ASSUME NEW entries \in Seq(Nat), NEW at \in Nat
  PROVE  Recorded(entries, at) \in Seq(Nat)
<1>1. Append(entries, at) \in Seq(Nat) /\ Append(entries, at) # <<>>
  BY AppendProperties
<1>2. Tail(Append(entries, at)) \in Seq(Nat)
  BY <1>1, HeadTailProperties
<1>3. QED
  BY <1>1, <1>2 DEF Recorded

\* Joining a queue does not change its head.
LEMMA HeadStays ==
  ASSUME NEW q \in Seq(Actor), NEW a \in Actor, q # <<>>
  PROVE  Append(q, a) # <<>> /\ Head(Append(q, a)) = Head(q)
<1>1. Len(q) > 0
  BY EmptySeq
<1>2. QED
  BY <1>1, AppendProperties

\* Whatever set_next_run_at's write comes to, the store keeps its type, and
\* only the next run of the entry it was called for may change.
LEMMA SetNextRunAtEffect ==
  ASSUME TypeOK, NEW id \in Id, NEW next \in Nat, SetNextRunAt(id, next)
  PROVE  /\ store' \in [Id -> Schedule \cup {Absent}]
         /\ \A i \in Id : i # id => store'[i] = store[i]
         /\ Present(id)' <=> Present(id)
         /\ store'[id] = store[id] \/ store'[id].next = next
         /\ afresh \subseteq afresh' /\ afresh' \subseteq afresh \cup {id}
         /\ Present(id) /\ id \notin afresh' => store'[id].next = next
<1>1. PICK ok \in DiskOutcome :
        /\ store' = IF ok /\ Present(id) THEN [store EXCEPT ![id].next = next] ELSE store
        /\ afresh' = IF ok THEN afresh ELSE afresh \cup {id}
  BY DEF SetNextRunAt
<1>2. CASE ok /\ Present(id)
  <2>1. store[id] \in Schedule
    BY <1>2 DEF TypeOK, Present
  <2>2. store' = [store EXCEPT ![id].next = next]
    BY <1>1, <1>2
  <2>3. store'[id] = [store[id] EXCEPT !.next = next]
    BY <2>2 DEF TypeOK
  <2>4. store'[id] \in Schedule /\ store'[id].next = next
    BY <2>1, <2>3 DEF Schedule
  <2>5. afresh' = afresh
    BY <1>1, <1>2
  <2>6. QED
    BY <2>2, <2>4, <2>5, <1>2, AbsentAssumption DEF TypeOK, Present
<1>3. CASE ~(ok /\ Present(id))
  <2>1. store' = store
    BY <1>1, <1>3
  <2>2. afresh' = afresh \cup {id} \/ (~Present(id) /\ afresh' = afresh)
    BY <1>1, <1>3, ScheduleAssumption
  <2>3. QED
    BY <2>1, <2>2 DEF TypeOK, Present
<1>4. QED
  BY <1>2, <1>3

\* Every step keeps the variables in their types.
LEMMA StepTypeOK == TypeOK /\ JobInHand /\ GateHeld /\ TickPlan /\ [Next]_vars => TypeOK'
<1> SUFFICES ASSUME TypeOK, JobInHand, GateHeld, TickPlan, [Next]_vars PROVE TypeOK'
  OBVIOUS
<1> USE ScheduleAssumption, AbsentAssumption DEF Actor, Goto, Idle, disk, tick, actors, clock, history,
        TypeOK, JobInHand, TaskPC, LoopPC
<1>1. ASSUME NEW t \in Task, SaveNew(t) PROVE TypeOK'
  <2>1. PICK id \in Id \ created, enabled \in BOOLEAN, rec \in Rec :
          /\ payload' = [payload EXCEPT ![t] =
               [enabled |-> enabled, rec |-> rec, next |-> NextRun(enabled, rec, now)]]
          /\ Goto(t, "write", id)
    BY <1>1 DEF SaveNew
  <2>2. [enabled |-> enabled, rec |-> rec, next |-> NextRun(enabled, rec, now)] \in Schedule
    BY NextRunLater DEF Schedule
  <2>3. QED
    BY <1>1, <2>1, <2>2 DEF SaveNew
<1>2. ASSUME NEW t \in Task, Edit(t) PROVE TypeOK'
  <2>1. PICK id \in Id, enabled \in BOOLEAN, rec \in Rec :
          /\ payload' = [payload EXCEPT ![t] =
               [enabled |-> enabled, rec |-> rec, next |-> NextRun(enabled, rec, now)]]
          /\ Goto(t, "write", id)
    BY <1>2 DEF Edit
  <2>2. [enabled |-> enabled, rec |-> rec, next |-> NextRun(enabled, rec, now)] \in Schedule
    BY NextRunLater DEF Schedule
  <2>3. QED
    BY <1>2, <2>1, <2>2 DEF Edit
<1>3. ASSUME NEW t \in Task, SetEnabled(t) PROVE TypeOK'
  <2>1. PICK id \in Id, enabled \in BOOLEAN :
          /\ Present(id)
          /\ payload' = [payload EXCEPT ![t] =
               [store[id] EXCEPT !.enabled = enabled,
                                 !.next = NextRun(enabled, store[id].rec, now)]]
          /\ Goto(t, "write", id)
    BY <1>3 DEF SetEnabled
  <2>2. store[id] \in Schedule
    BY <2>1 DEF Present, TypeOK
  <2>3. [store[id] EXCEPT !.enabled = enabled, !.next = NextRun(enabled, store[id].rec, now)] \in Schedule
    BY <2>2, NextRunLater DEF Schedule, TypeOK
  <2>4. QED
    BY <1>3, <2>1, <2>3 DEF SetEnabled
<1>4. ASSUME NEW t \in Task, Write(t) PROVE TypeOK'
  BY <1>4 DEF Write
<1>5. ASSUME NEW t \in Task, Delete(t) PROVE TypeOK'
  BY <1>5 DEF Delete
<1>6. ASSUME NEW t \in Task, Forget(t) PROVE TypeOK'
  BY <1>6 DEF Forget
<1>7. ASSUME NEW t \in Task, RunNow(t) PROVE TypeOK'
  BY <1>7 DEF RunNow
<1>8. ASSUME NEW a \in Actor, RunStart(a) PROVE TypeOK'
  BY <1>8 DEF RunStart
<1>9. ASSUME NEW a \in Actor, RunEnd(a) PROVE TypeOK'
  <2>1. PICK ok \in DiskOutcome :
          log' = IF ok THEN [log EXCEPT ![job[a]] = Recorded(@, startedAt[a])] ELSE log
    BY <1>9 DEF RunEnd
  <2>2. job[a] \in Id
    BY <1>9 DEF RunEnd
  <2>3. log' \in [Id -> Seq(Nat)]
    BY <2>1, <2>2, RecordedType
  <2>4. gate' \in Seq(Actor)
    BY <1>9 DEF RunEnd, GateHeld
  <2>5. QED
    BY <1>9, <2>3, <2>4 DEF RunEnd
<1>10. CASE Tick
  BY <1>10 DEF Tick
<1>11. CASE StampMissing
  <2>1. PICK id \in missing : SetNextRunAt(id, NextRun(snap[id].enabled, snap[id].rec, tickNow))
    BY <1>11 DEF StampMissing
  <2>2. snap[id] \in Schedule
    BY <2>1 DEF TickPlan, IsDue, IsMissing, TypeOK
  <2>3. NextRun(snap[id].enabled, snap[id].rec, tickNow) \in Nat
    BY <2>2, NextRunLater DEF Schedule, TypeOK
  <2>4. store' \in [Id -> Schedule \cup {Absent}] /\ afresh' \subseteq Id
    BY <2>1, <2>3, SetNextRunAtEffect
  <2>5. QED
    BY <1>11, <2>1, <2>4 DEF StampMissing, TypeOK
<1>12. CASE StampsDone
  BY <1>12 DEF StampsDone
<1>13. CASE Reschedule
  <2>1. PICK id \in due : SetNextRunAt(id, NextRun(snap[id].enabled, snap[id].rec, tickNow)) /\ Goto(Scheduler, "queued", id)
    BY <1>13 DEF Reschedule
  <2>2. snap[id] \in Schedule
    BY <2>1 DEF TickPlan, IsDue, IsMissing, TypeOK
  <2>3. NextRun(snap[id].enabled, snap[id].rec, tickNow) \in Nat
    BY <2>2, NextRunLater DEF Schedule, TypeOK
  <2>4. store' \in [Id -> Schedule \cup {Absent}] /\ afresh' \subseteq Id
    BY <2>1, <2>3, SetNextRunAtEffect
  <2>5. QED
    BY <1>13, <2>1, <2>4 DEF Reschedule, TypeOK
<1>14. CASE Sleep
  BY <1>14 DEF Sleep, NoSnapshot
<1>15. CASE Advance
  BY <1>15 DEF Advance
<1>16. CASE SetBack
  BY <1>16 DEF SetBack
<1>17. CASE Crash
  BY <1>17 DEF Crash, FreshPc, NoJob, NoPayload, NotRunning, NoSnapshot
<1>18. CASE UNCHANGED vars
  BY <1>18 DEF vars
<1>19. QED
  BY <1>1, <1>2, <1>3, <1>4, <1>5, <1>6, <1>7, <1>8, <1>9,
     <1>10, <1>11, <1>12, <1>13, <1>14, <1>15, <1>16, <1>17, <1>18
     DEF Next, Command, Commit, Run, Loop

\* An actor that has begun knows its schedule, and a task about to save has an
\* entry to save.
LEMMA StepJobInHand == TypeOK /\ JobInHand /\ [Next]_vars => JobInHand'
<1> SUFFICES ASSUME TypeOK, JobInHand, [Next]_vars PROVE JobInHand'
  OBVIOUS
<1> USE ScheduleAssumption, AbsentAssumption DEF Actor, Goto, Idle, disk, tick, actors, clock, history,
        TypeOK, JobInHand, TaskPC, LoopPC
<1>1. ASSUME NEW t \in Task, SaveNew(t) PROVE JobInHand'
  <2>1. PICK id \in Id \ created, enabled \in BOOLEAN, rec \in Rec :
          /\ payload' = [payload EXCEPT ![t] =
               [enabled |-> enabled, rec |-> rec, next |-> NextRun(enabled, rec, now)]]
          /\ Goto(t, "write", id)
    BY <1>1 DEF SaveNew
  <2>2. [enabled |-> enabled, rec |-> rec, next |-> NextRun(enabled, rec, now)] \in Schedule
    BY NextRunLater DEF Schedule
  <2>3. QED
    BY <1>1, <2>1, <2>2 DEF SaveNew
<1>2. ASSUME NEW t \in Task, Edit(t) PROVE JobInHand'
  <2>1. PICK id \in Id, enabled \in BOOLEAN, rec \in Rec :
          /\ payload' = [payload EXCEPT ![t] =
               [enabled |-> enabled, rec |-> rec, next |-> NextRun(enabled, rec, now)]]
          /\ Goto(t, "write", id)
    BY <1>2 DEF Edit
  <2>2. [enabled |-> enabled, rec |-> rec, next |-> NextRun(enabled, rec, now)] \in Schedule
    BY NextRunLater DEF Schedule
  <2>3. QED
    BY <1>2, <2>1, <2>2 DEF Edit
<1>3. ASSUME NEW t \in Task, SetEnabled(t) PROVE JobInHand'
  <2>1. PICK id \in Id, enabled \in BOOLEAN :
          /\ Present(id)
          /\ payload' = [payload EXCEPT ![t] =
               [store[id] EXCEPT !.enabled = enabled,
                                 !.next = NextRun(enabled, store[id].rec, now)]]
          /\ Goto(t, "write", id)
    BY <1>3 DEF SetEnabled
  <2>2. store[id] \in Schedule
    BY <2>1 DEF Present, TypeOK
  <2>3. [store[id] EXCEPT !.enabled = enabled, !.next = NextRun(enabled, store[id].rec, now)] \in Schedule
    BY <2>2, NextRunLater DEF Schedule, TypeOK
  <2>4. QED
    BY <1>3, <2>1, <2>3 DEF SetEnabled
<1>4. ASSUME NEW t \in Task, Write(t) PROVE JobInHand'
  BY <1>4 DEF Write
<1>5. ASSUME NEW t \in Task, Delete(t) PROVE JobInHand'
  BY <1>5 DEF Delete
<1>6. ASSUME NEW t \in Task, Forget(t) PROVE JobInHand'
  BY <1>6 DEF Forget
<1>7. ASSUME NEW t \in Task, RunNow(t) PROVE JobInHand'
  BY <1>7 DEF RunNow
<1>8. ASSUME NEW a \in Actor, RunStart(a) PROVE JobInHand'
  BY <1>8 DEF RunStart
<1>9. ASSUME NEW a \in Actor, RunEnd(a) PROVE JobInHand'
  BY <1>9 DEF RunEnd
<1>10. CASE Tick
  BY <1>10 DEF Tick
<1>11. CASE StampMissing
  BY <1>11 DEF StampMissing
<1>12. CASE StampsDone
  BY <1>12 DEF StampsDone
<1>13. CASE Reschedule
  BY <1>13 DEF Reschedule
<1>14. CASE Sleep
  BY <1>14 DEF Sleep
<1>15. CASE Advance
  BY <1>15 DEF Advance
<1>16. CASE SetBack
  BY <1>16 DEF SetBack
<1>17. CASE Crash
  BY <1>17 DEF Crash, FreshPc, NoJob, NoPayload
<1>18. CASE UNCHANGED vars
  BY <1>18 DEF vars
<1>19. QED
  BY <1>1, <1>2, <1>3, <1>4, <1>5, <1>6, <1>7, <1>8, <1>9,
     <1>10, <1>11, <1>12, <1>13, <1>14, <1>15, <1>16, <1>17, <1>18
     DEF Next, Command, Commit, Run, Loop

\* Only the head of the queue enters, and nobody else is served until it leaves.
LEMMA StepGateHeld == TypeOK /\ GateHeld /\ [Next]_vars => GateHeld'
<1> SUFFICES ASSUME TypeOK, GateHeld, [Next]_vars PROVE GateHeld'
  OBVIOUS
<1> USE ScheduleAssumption, AbsentAssumption DEF Actor, Goto, Idle, disk, tick, actors, clock, history,
        TypeOK, GateHeld, TaskPC, LoopPC
<1>1. ASSUME NEW t \in Task, SaveNew(t) PROVE GateHeld'
  BY <1>1 DEF SaveNew
<1>2. ASSUME NEW t \in Task, Edit(t) PROVE GateHeld'
  BY <1>2 DEF Edit
<1>3. ASSUME NEW t \in Task, SetEnabled(t) PROVE GateHeld'
  BY <1>3 DEF SetEnabled
<1>4. ASSUME NEW t \in Task, Write(t) PROVE GateHeld'
  BY <1>4 DEF Write
<1>5. ASSUME NEW t \in Task, Delete(t) PROVE GateHeld'
  BY <1>5 DEF Delete
<1>6. ASSUME NEW t \in Task, Forget(t) PROVE GateHeld'
  BY <1>6 DEF Forget
<1>7. ASSUME NEW t \in Task, RunNow(t) PROVE GateHeld'
  BY <1>7 DEF RunNow
<1>8. ASSUME NEW a \in Actor, RunStart(a) PROVE GateHeld'
  BY <1>8 DEF RunStart
<1>9. ASSUME NEW a \in Actor, RunEnd(a) PROVE GateHeld'
  BY <1>9 DEF RunEnd
<1>10. CASE Tick
  BY <1>10 DEF Tick
<1>11. CASE StampMissing
  BY <1>11 DEF StampMissing
<1>12. CASE StampsDone
  BY <1>12 DEF StampsDone
<1>13. CASE Reschedule
  <2>1. \A b \in Actor : pc'[b] = "running" => pc[b] = "running"
    BY <1>13 DEF Reschedule
  <2>2. \E b \in Actor : gate' = Append(gate, b)
    BY <1>13 DEF Reschedule
  <2>3. gate # <<>> => gate' # <<>> /\ Head(gate') = Head(gate)
    BY <2>2, HeadStays
  <2>4. QED
    BY <2>1, <2>3
<1>14. CASE Sleep
  BY <1>14 DEF Sleep
<1>15. CASE Advance
  BY <1>15 DEF Advance
<1>16. CASE SetBack
  BY <1>16 DEF SetBack
<1>17. CASE Crash
  BY <1>17 DEF Crash, FreshPc
<1>18. CASE UNCHANGED vars
  BY <1>18 DEF vars
<1>19. QED
  BY <1>1, <1>2, <1>3, <1>4, <1>5, <1>6, <1>7, <1>8, <1>9,
     <1>10, <1>11, <1>12, <1>13, <1>14, <1>15, <1>16, <1>17, <1>18
     DEF Next, Command, Commit, Run, Loop

\* A tick's lists follow from its copies, and shrink as it works through them.
LEMMA StepTickPlan == TypeOK /\ JobInHand /\ TickPlan /\ [Next]_vars => TickPlan'
<1> SUFFICES ASSUME TypeOK, JobInHand, TickPlan, [Next]_vars PROVE TickPlan'
  OBVIOUS
<1> USE ScheduleAssumption, AbsentAssumption DEF Actor, Goto, Idle, disk, tick, actors, clock, history,
        TypeOK, JobInHand, TickPlan, TaskPC, LoopPC
<1>1. ASSUME NEW t \in Task, SaveNew(t) PROVE TickPlan'
  BY <1>1 DEF SaveNew
<1>2. ASSUME NEW t \in Task, Edit(t) PROVE TickPlan'
  BY <1>2 DEF Edit
<1>3. ASSUME NEW t \in Task, SetEnabled(t) PROVE TickPlan'
  BY <1>3 DEF SetEnabled
<1>4. ASSUME NEW t \in Task, Write(t) PROVE TickPlan'
  BY <1>4 DEF Write
<1>5. ASSUME NEW t \in Task, Delete(t) PROVE TickPlan'
  BY <1>5 DEF Delete
<1>6. ASSUME NEW t \in Task, Forget(t) PROVE TickPlan'
  BY <1>6 DEF Forget
<1>7. ASSUME NEW t \in Task, RunNow(t) PROVE TickPlan'
  BY <1>7 DEF RunNow
<1>8. ASSUME NEW a \in Actor, RunStart(a) PROVE TickPlan'
  BY <1>8 DEF RunStart
<1>9. ASSUME NEW a \in Actor, RunEnd(a) PROVE TickPlan'
  BY <1>9 DEF RunEnd
<1>10. CASE Tick
  BY <1>10 DEF Tick, IsDue, IsMissing
<1>11. CASE StampMissing
  BY <1>11 DEF StampMissing
<1>12. CASE StampsDone
  BY <1>12 DEF StampsDone
<1>13. CASE Reschedule
  BY <1>13 DEF Reschedule
<1>14. CASE Sleep
  BY <1>14 DEF Sleep
<1>15. CASE Advance
  BY <1>15 DEF Advance
<1>16. CASE SetBack
  BY <1>16 DEF SetBack
<1>17. CASE Crash
  BY <1>17 DEF Crash, FreshPc
<1>18. CASE UNCHANGED vars
  BY <1>18 DEF vars
<1>19. QED
  BY <1>1, <1>2, <1>3, <1>4, <1>5, <1>6, <1>7, <1>8, <1>9,
     <1>10, <1>11, <1>12, <1>13, <1>14, <1>15, <1>16, <1>17, <1>18
     DEF Next, Command, Commit, Run, Loop

\* A run is rescheduled before it is counted, from the clock the tick began with.
LEMMA StepNextAfterLast == TypeOK /\ JobInHand /\ TickPlan /\ NextAfterLast /\ [Next]_vars => NextAfterLast'
<1> SUFFICES ASSUME TypeOK, JobInHand, TickPlan, NextAfterLast, [Next]_vars PROVE NextAfterLast'
  OBVIOUS
<1> USE ScheduleAssumption, AbsentAssumption DEF Actor, Goto, Idle, disk, tick, actors, clock, history,
        TypeOK, JobInHand, TickPlan, NextAfterLast, Present, TaskPC, LoopPC
<1>1. ASSUME NEW t \in Task, SaveNew(t) PROVE NextAfterLast'
  BY <1>1 DEF SaveNew
<1>2. ASSUME NEW t \in Task, Edit(t) PROVE NextAfterLast'
  BY <1>2 DEF Edit
<1>3. ASSUME NEW t \in Task, SetEnabled(t) PROVE NextAfterLast'
  BY <1>3 DEF SetEnabled
<1>4. ASSUME NEW t \in Task, Write(t) PROVE NextAfterLast'
  <2>1. job[t] \in Id /\ payload[t] \in Schedule /\ t # Scheduler
    BY <1>4 DEF Write
  <2>2. /\ store' = [store EXCEPT ![job[t]] = payload[t]] /\ ranAt' = [ranAt EXCEPT ![job[t]] = 0]
        /\ afresh' = afresh \cup {job[t]} /\ UNCHANGED <<snap, tickNow, due, missing>>
        /\ pc'[Scheduler] = pc[Scheduler] /\ job'[Scheduler] = job[Scheduler]
    BY <1>4, <2>1 DEF Write
  <2>3. \A i \in Id : Present(i)' => store'[i].next > ranAt'[i] \/ ranAt'[i] = 0
    BY <2>1, <2>2
  <2>4. \A i \in due : snap[i] \in Schedule /\ snap'[i].next > ranAt'[i]
    BY <2>1, <2>2 DEF IsDue, Schedule
  <2>5. \A i \in missing' : ranAt'[i] = 0
    BY <2>1, <2>2
  <2>6. ASSUME pc[Scheduler] = "queued"
        PROVE  /\ snap'[job'[Scheduler]].next > ranAt'[job'[Scheduler]]
               /\ job'[Scheduler] \notin afresh' /\ Present(job[Scheduler])'
                  => store'[job'[Scheduler]].next > tickNow'
    <3>1. job[Scheduler] \in Id /\ snap[job[Scheduler]] \in Schedule /\ snap[job[Scheduler]].next > 0
      BY <2>6 DEF IsDue
    <3>2. QED
      BY <2>1, <2>2, <2>6, <3>1
  <2>7. QED
    BY <2>2, <2>3, <2>4, <2>5, <2>6
<1>5. ASSUME NEW t \in Task, Delete(t) PROVE NextAfterLast'
  BY <1>5 DEF Delete
<1>6. ASSUME NEW t \in Task, Forget(t) PROVE NextAfterLast'
  BY <1>6 DEF Forget
<1>7. ASSUME NEW t \in Task, RunNow(t) PROVE NextAfterLast'
  BY <1>7 DEF RunNow
<1>8. ASSUME NEW a \in Actor, RunStart(a) PROVE NextAfterLast'
  <2>1. CASE a # Scheduler
    BY <1>8, <2>1 DEF RunStart
  <2>2. CASE a = Scheduler
    <3> DEFINE id == job[Scheduler]
    <3>1. /\ id \in Id /\ id \notin due /\ pc[Scheduler] = "queued"
          /\ pc' = [pc EXCEPT ![Scheduler] = "running"]
          /\ ranAt' = [ranAt EXCEPT ![id] = IF id \in afresh THEN 0 ELSE tickNow]
          /\ UNCHANGED <<store, snap, tickNow, due, missing, afresh>>
      BY <1>8, <2>2 DEF RunStart
    <3>2. Present(id) => store[id].next > ranAt'[id] \/ ranAt'[id] = 0
      BY <3>1
    <3>3. \A i \in Id : i # id => ranAt'[i] = ranAt[i]
      BY <3>1
    <3>4. missing = {} /\ pc'[Scheduler] = "running"
      BY <3>1
    <3>5. \A i \in Id : Present(i)' => store'[i].next > ranAt'[i] \/ ranAt'[i] = 0
      BY <3>1, <3>2, <3>3
    <3>6. \A i \in due' : snap'[i].next > ranAt'[i]
      BY <3>1, <3>3
    <3>7. QED
      BY <3>1, <3>4, <3>5, <3>6
  <2>3. QED
    BY <2>1, <2>2
<1>9. ASSUME NEW a \in Actor, RunEnd(a) PROVE NextAfterLast'
  BY <1>9 DEF RunEnd
<1>10. CASE Tick
  BY <1>10 DEF Tick, IsDue, IsMissing, Schedule
<1>11. CASE StampMissing
  <2>1. PICK id \in missing : /\ SetNextRunAt(id, NextRun(snap[id].enabled, snap[id].rec, tickNow))
                              /\ missing' = missing \ {id}
    BY <1>11 DEF StampMissing
  <2>2. snap[id] \in Schedule /\ snap[id].enabled
    BY <2>1 DEF IsDue, IsMissing
  <2>3. /\ NextRun(snap[id].enabled, snap[id].rec, tickNow) \in Nat
        /\ NextRun(snap[id].enabled, snap[id].rec, tickNow) > tickNow
    BY <2>2, NextRunLater DEF Schedule
  <2>4. /\ \A i \in Id : i # id => store'[i] = store[i]
        /\ Present(id)' <=> Present(id)
        /\ store'[id] = store[id] \/ store'[id].next = NextRun(snap[id].enabled, snap[id].rec, tickNow)
        /\ Present(id) /\ id \notin afresh' => store'[id].next = NextRun(snap[id].enabled, snap[id].rec, tickNow)
    BY <2>1, <2>3, SetNextRunAtEffect
  <2>5. UNCHANGED <<due, snap, ranAt, tickNow, pc, job>> /\ ranAt[id] = 0
    BY <1>11, <2>1 DEF StampMissing
  <2>6. \A i \in Id : Present(i)' => store'[i].next > ranAt'[i] \/ ranAt'[i] = 0
    BY <2>4, <2>5
  <2>7. pc[Scheduler] = "missing"
    BY <1>11 DEF StampMissing
  <2>8. QED
    BY <2>1, <2>5, <2>6, <2>7
<1>12. CASE StampsDone
  BY <1>12 DEF StampsDone
<1>13. CASE Reschedule
  <2>1. PICK id \in due : /\ SetNextRunAt(id, NextRun(snap[id].enabled, snap[id].rec, tickNow))
                          /\ due' = due \ {id}
                          /\ Goto(Scheduler, "queued", id)
    BY <1>13 DEF Reschedule
  <2>2. snap[id] \in Schedule /\ snap[id].enabled
    BY <2>1 DEF IsDue, IsMissing
  <2>3. /\ NextRun(snap[id].enabled, snap[id].rec, tickNow) \in Nat
        /\ NextRun(snap[id].enabled, snap[id].rec, tickNow) > tickNow
    BY <2>2, NextRunLater DEF Schedule
  <2>4. /\ \A i \in Id : i # id => store'[i] = store[i]
        /\ Present(id)' <=> Present(id)
        /\ store'[id] = store[id] \/ store'[id].next = NextRun(snap[id].enabled, snap[id].rec, tickNow)
        /\ Present(id) /\ id \notin afresh' => store'[id].next = NextRun(snap[id].enabled, snap[id].rec, tickNow)
    BY <2>1, <2>3, SetNextRunAtEffect
  <2>5. UNCHANGED <<missing, snap, ranAt, tickNow>>
    BY <1>13 DEF Reschedule
  <2>6. snap[id].next > ranAt[id] /\ snap[id].next <= tickNow
    BY <2>1 DEF IsDue
  <2>7. \A i \in Id : Present(i)' => store'[i].next > ranAt'[i] \/ ranAt'[i] = 0
    <3>1. Present(id)' => store'[id].next > ranAt'[id] \/ ranAt'[id] = 0
      <4>1. ranAt[id] \in Nat /\ tickNow \in Nat /\ snap[id].next \in Nat
        BY <2>1, <2>2 DEF Schedule
      <4>2. ranAt[id] < tickNow
        BY <4>1, <2>6
      <4>3. NextRun(snap[id].enabled, snap[id].rec, tickNow) > ranAt[id]
        BY <4>1, <4>2, <2>3
      <4>4. QED
        BY <4>3, <2>4, <2>5
    <3>2. ASSUME NEW i \in Id, i # id, Present(i)' PROVE store'[i].next > ranAt'[i] \/ ranAt'[i] = 0
      <4>1. store'[i] = store[i] /\ ranAt'[i] = ranAt[i]
        BY <3>2, <2>4, <2>5
      <4>2. QED
        BY <3>2, <4>1
    <3>3. QED
      BY <3>1, <3>2
  <2>8. job'[Scheduler] = id /\ pc'[Scheduler] = "queued"
    BY <2>1
  <2>9. id \notin afresh' /\ Present(id)' => store'[id].next > tickNow'
    BY <2>3, <2>4, <2>5
  <2>10. QED
    BY <2>1, <2>5, <2>6, <2>7, <2>8, <2>9
<1>14. CASE Sleep
  BY <1>14 DEF Sleep
<1>15. CASE Advance
  BY <1>15 DEF Advance
<1>16. CASE SetBack
  BY <1>16 DEF SetBack
<1>17. CASE Crash
  BY <1>17 DEF Crash, FreshPc
<1>18. CASE UNCHANGED vars
  BY <1>18 DEF vars
<1>19. QED
  BY <1>1, <1>2, <1>3, <1>4, <1>5, <1>6, <1>7, <1>8, <1>9,
     <1>10, <1>11, <1>12, <1>13, <1>14, <1>15, <1>16, <1>17, <1>18
     DEF Next, Command, Commit, Run, Loop
-----------------------------------------------------------------------------
\* A process that has just started satisfies the invariant.
LEMMA InitInvariant == Init => IInv
<1> SUFFICES ASSUME Init PROVE IInv
  OBVIOUS
<1> USE ScheduleAssumption, AbsentAssumption DEF Init, Actor, TaskPC, LoopPC, FreshPc
<1>1. /\ \A t \in Task : pc[t] = "idle"
      /\ pc[Scheduler] = "asleep"
      /\ pc \in [Actor -> TaskPC \cup LoopPC]
  OBVIOUS
<1>2. store \in [Id -> Schedule \cup {Absent}]
  <2>1. \A rec \in Rec : [enabled |-> TRUE, rec |-> rec, next |-> 0] \in Schedule
    BY DEF Schedule
  <2>2. QED
    BY <2>1 DEF NeverScheduled
<1>3. log \in [Id -> Seq(Nat)] /\ gate \in Seq(Actor)
  OBVIOUS
<1>4. /\ job \in [Actor -> Id \cup {None}]
      /\ payload \in [Task -> Schedule \cup {Absent}]
      /\ startedAt \in [Actor -> Nat]
      /\ snap \in [Id -> Schedule \cup {Absent}]
      /\ ranAt \in [Id -> Nat]
  BY DEF NoJob, NoPayload, NotRunning, NoSnapshot
<1>5. now \in 0..MaxTime /\ tickNow \in 0..MaxTime
  OBVIOUS
<1>6. TypeOK
  BY <1>1, <1>2, <1>3, <1>4, <1>5 DEF TypeOK
<1>7. JobInHand /\ GateHeld /\ TickPlan /\ NextAfterLast
  BY <1>1 DEF JobInHand, GateHeld, TickPlan, NextAfterLast
<1>8. QED
  BY <1>6, <1>7 DEF IInv

\* Every step of the loop and of the commands preserves it.
LEMMA NextInvariant == IInv /\ [Next]_vars => IInv'
BY StepTypeOK, StepJobInHand, StepGateHeld, StepTickPlan, StepNextAfterLast DEF IInv

LEMMA Invariance == Spec => []IInv
<1>1. Init => IInv
  BY InitInvariant
<1>2. IInv /\ [Next]_vars => IInv'
  BY NextInvariant
<1>3. QED
  BY <1>1, <1>2, PTL DEF Spec

-----------------------------------------------------------------------------
\* The variables keep their types, whatever the disk, the clock and the user do.
THEOREM TypeCorrect == Spec => []TypeOK
<1>1. IInv => TypeOK
  BY DEF IInv
<1>2. QED
  BY <1>1, Invariance, PTL

\* The gate: of any number of manual runs and the loop's, one runs at a time.
THEOREM GateAdmitsOne == Spec => []OneRunAtATime
<1>1. IInv => OneRunAtATime
  BY DEF IInv, GateHeld, OneRunAtATime
<1>2. QED
  BY <1>1, Invariance, PTL

\* Both together, as they are checked: types, and one run at a time.
THEOREM StoresAndGateStaySound == Spec => []StoresAndGateSound
  BY TypeCorrect, GateAdmitsOne, PTL DEF StoresAndGateSound

\* Bounded catch-up: a scheduled run starts only for an occurrence later than the
\* tick that started the previous one, whatever commands, crashes, clock changes
\* and refused writes come in between.
THEOREM CatchUpBounded == Spec => BoundedCatchUp
<1>1. IInv /\ [Next]_vars
      => [ pc[Scheduler] = "queued" /\ pc'[Scheduler] = "running"
           => snap[job[Scheduler]].next > ranAt[job[Scheduler]] ]_vars
  BY DEF IInv, NextAfterLast
<1>2. QED
  BY <1>1, Invariance, PTL DEF Spec, BoundedCatchUp

-----------------------------------------------------------------------------
\* Unless the clock was set back, no run began later than now, and none of those recorded
\* later than the one under way.
LogsAreOld ==
  setbacks = 0 =>
    /\ \A id \in Id : \A i \in DOMAIN log[id] : log[id][i] <= now
    /\ \A a \in Actor : startedAt[a] <= now
    /\ \A a \in Actor : pc[a] = "running" =>
         \A id \in Id : \A i \in DOMAIN log[id] : log[id][i] <= startedAt[a]

LogInv == IInv /\ LogsAreOld /\ LogKeepsNewestInOrder

\* Appending to a log drops its oldest entry if that makes it too long, and keeps it in order
\* if what is appended is the latest.
LEMMA RecordedInOrder ==
  ASSUME NEW entries \in Seq(Nat), NEW at \in Nat, Len(entries) <= MaxHistory
  PROVE  /\ Len(Recorded(entries, at)) <= MaxHistory
         /\ \A i \in DOMAIN Recorded(entries, at) :
              Recorded(entries, at)[i] = at
                \/ \E j \in DOMAIN entries : Recorded(entries, at)[i] = entries[j]
         /\ (\A i, j \in DOMAIN entries : i < j => entries[i] <= entries[j])
              /\ (\A i \in DOMAIN entries : entries[i] <= at)
            => \A i, j \in DOMAIN Recorded(entries, at) :
                 i < j => Recorded(entries, at)[i] <= Recorded(entries, at)[j]
<1> DEFINE all == Append(entries, at)
           n == Len(entries)
           r == Recorded(entries, at)
<1>1. /\ n \in Nat /\ DOMAIN entries = 1..n
      /\ all \in Seq(Nat) /\ Len(all) = n + 1 /\ DOMAIN all = 1..(n + 1) /\ all[n + 1] = at
      /\ \A i \in 1..n : all[i] = entries[i]
  OBVIOUS
<1>2. r = IF Len(all) > MaxHistory THEN Tail(all) ELSE all
  BY DEF Recorded
<1>3. Tail(all) \in Seq(Nat) /\ Len(Tail(all)) = n /\ DOMAIN Tail(all) = 1..n
      /\ \A i \in 1..n : Tail(all)[i] = all[i + 1]
  BY <1>1
<1>4. \A i \in 1..(n + 1) : (i = n + 1 /\ all[i] = at) \/ (i \in DOMAIN entries /\ all[i] = entries[i])
  BY <1>1
<1> HIDE DEF all, n, r
<1>5. CASE Len(all) > MaxHistory
  <2>1. r = Tail(all) /\ DOMAIN r = 1..n /\ Len(r) = n /\ \A i \in 1..n : r[i] = all[i + 1] /\ i + 1 \in 1..(n + 1)
    BY <1>1, <1>2, <1>3, <1>5
  <2>2. Len(r) <= MaxHistory
    BY <2>1 DEF n
  <2>3. \A i \in DOMAIN r : r[i] = at \/ \E j \in DOMAIN entries : r[i] = entries[j]
    BY <1>4, <2>1
  <2>4. ASSUME \A i, j \in DOMAIN entries : i < j => entries[i] <= entries[j],
               \A i \in DOMAIN entries : entries[i] <= at,
               NEW i \in DOMAIN r, NEW j \in DOMAIN r, i < j
        PROVE  r[i] <= r[j]
    <3>1. /\ i + 1 \in 1..(n + 1) /\ j + 1 \in 1..(n + 1) /\ i + 1 < j + 1 /\ i + 1 # n + 1
          /\ r[i] = all[i + 1] /\ r[j] = all[j + 1]
      BY <1>1, <2>1, <2>4
    <3>2. i + 1 \in DOMAIN entries /\ all[i + 1] = entries[i + 1]
      BY <1>4, <3>1
    <3> QED  BY <1>4, <2>4, <3>1, <3>2
  <2> QED  BY <2>2, <2>3, <2>4 DEF r
<1>6. CASE ~(Len(all) > MaxHistory)
  <2>1. r = all /\ DOMAIN r = 1..(n + 1) /\ Len(r) <= MaxHistory
    BY <1>1, <1>2, <1>6, ScheduleAssumption
  <2>2. \A i \in DOMAIN r : r[i] = at \/ \E j \in DOMAIN entries : r[i] = entries[j]
    BY <1>4, <2>1
  <2>3. ASSUME \A i, j \in DOMAIN entries : i < j => entries[i] <= entries[j],
               \A i \in DOMAIN entries : entries[i] <= at,
               NEW i \in DOMAIN r, NEW j \in DOMAIN r, i < j
        PROVE  r[i] <= r[j]
    <3>1. i \in 1..(n + 1) /\ j \in 1..(n + 1) /\ i # n + 1
      BY <1>1, <2>1, <2>3
    <3>2. i \in DOMAIN entries /\ all[i] = entries[i]
      BY <1>4, <3>1
    <3> QED  BY <1>4, <2>1, <2>3, <3>1, <3>2
  <2> QED  BY <2>1, <2>2, <2>3 DEF r
<1> QED  BY <1>5, <1>6

\* Steps that touch neither the logs nor the clock.
LEMMA LogsStay ==
  ASSUME LogsAreOld, LogKeepsNewestInOrder, UNCHANGED <<log, startedAt, now, setbacks>>,
         \A a \in Actor : pc'[a] = "running" => pc[a] = "running"
  PROVE  LogsAreOld' /\ LogKeepsNewestInOrder'
  BY DEF LogsAreOld, LogKeepsNewestInOrder

\* Every step keeps the logs in order.
LEMMA StepLogs == LogInv /\ [Next]_vars => LogsAreOld' /\ LogKeepsNewestInOrder'
<1> SUFFICES ASSUME LogInv, [Next]_vars PROVE LogsAreOld' /\ LogKeepsNewestInOrder'
  OBVIOUS
<1> USE ScheduleAssumption DEF Actor, Goto, Idle, disk, tick, actors, clock, history
<1>1. /\ log \in [Id -> Seq(Nat)] /\ now \in 0..MaxTime /\ startedAt \in [Actor -> Nat] /\ setbacks \in Nat
      /\ pc \in [Actor -> TaskPC \cup LoopPC]
      /\ LogsAreOld /\ LogKeepsNewestInOrder /\ GateHeld /\ JobInHand
  BY DEF LogInv, IInv, TypeOK
<1>2. ASSUME NEW t \in Task, Command(t) \/ Write(t)
      PROVE  LogsAreOld' /\ LogKeepsNewestInOrder'
  <2>1. UNCHANGED <<log, startedAt, now, setbacks>>
    BY <1>2 DEF Command, SaveNew, Edit, SetEnabled, Delete, RunNow, Write
  <2>2. \A a \in Actor : pc'[a] = "running" => pc[a] = "running"
    BY <1>1, <1>2 DEF Command, SaveNew, Edit, SetEnabled, Delete, RunNow, Write
  <2> QED  BY <1>1, <2>1, <2>2, LogsStay
<1>3. ASSUME NEW t \in Task, Forget(t)
      PROVE  LogsAreOld' /\ LogKeepsNewestInOrder'
  <2>1. job[t] \in Id /\ log' = [log EXCEPT ![job[t]] = <<>>] /\ UNCHANGED <<startedAt, now, setbacks>>
    BY <1>1, <1>3 DEF Forget, JobInHand
  <2>2. \A a \in Actor : pc'[a] = "running" => pc[a] = "running"
    BY <1>1, <1>3 DEF Forget
  <2>3. \A id \in Id : log'[id] = log[id] \/ log'[id] = <<>>
    BY <1>1, <2>1
  <2>4. Len(<<>>) <= MaxHistory /\ DOMAIN <<>> = {}
    OBVIOUS
  <2>5. LogsAreOld'
    BY <1>1, <2>1, <2>2, <2>3, <2>4 DEF LogsAreOld
  <2>6. LogKeepsNewestInOrder'
    BY <1>1, <2>1, <2>3, <2>4 DEF LogKeepsNewestInOrder
  <2> QED  BY <2>5, <2>6
<1>4. ASSUME NEW a \in Actor, RunStart(a)
      PROVE  LogsAreOld' /\ LogKeepsNewestInOrder'
  <2>1. startedAt' = [startedAt EXCEPT ![a] = now] /\ UNCHANGED <<log, now, setbacks>>
    BY <1>4 DEF RunStart
  <2>2. \A b \in Actor : pc'[b] = "running" => pc[b] = "running" \/ b = a
    BY <1>1, <1>4 DEF RunStart
  <2>3. \A b \in Actor : startedAt'[b] = IF b = a THEN now ELSE startedAt[b]
    BY <1>1, <2>1
  <2>4. LogsAreOld'
    BY <1>1, <2>1, <2>2, <2>3 DEF LogsAreOld
  <2>5. LogKeepsNewestInOrder'
    BY <1>1, <2>1 DEF LogKeepsNewestInOrder
  <2> QED  BY <2>4, <2>5
<1>5. ASSUME NEW a \in Actor, RunEnd(a)
      PROVE  LogsAreOld' /\ LogKeepsNewestInOrder'
  <2>1. /\ pc[a] = "running" /\ job[a] \in Id
        /\ log' \in {log, [log EXCEPT ![job[a]] = Recorded(log[job[a]], startedAt[a])]}
        /\ startedAt' = [startedAt EXCEPT ![a] = 0] /\ UNCHANGED <<now, setbacks>>
    BY <1>1, <1>5 DEF RunEnd, JobInHand
  <2>2. \A b \in Actor : pc'[b] # "running"
    <3>1. \A b \in Actor : pc[b] = "running" => b = a
      BY <1>1, <2>1 DEF GateHeld
    <3> QED  BY <1>1, <1>5, <3>1 DEF RunEnd
  <2>3. \A b \in Actor : startedAt'[b] = startedAt[b] \/ startedAt'[b] = 0
    BY <1>1, <2>1
  <2> DEFINE new == Recorded(log[job[a]], startedAt[a])
  <2>4. /\ Len(new) <= MaxHistory
        /\ \A i \in DOMAIN new : new[i] = startedAt[a] \/ \E j \in DOMAIN log[job[a]] : new[i] = log[job[a]][j]
        /\ (\A i, j \in DOMAIN log[job[a]] : i < j => log[job[a]][i] <= log[job[a]][j])
             /\ (\A i \in DOMAIN log[job[a]] : log[job[a]][i] <= startedAt[a])
           => \A i, j \in DOMAIN new : i < j => new[i] <= new[j]
    <3>1. log[job[a]] \in Seq(Nat) /\ startedAt[a] \in Nat /\ Len(log[job[a]]) <= MaxHistory
      BY <1>1, <2>1 DEF LogKeepsNewestInOrder
    <3> QED  BY <3>1, RecordedInOrder
  <2> HIDE DEF new
  <2>5. \A id \in Id : log'[id] = log[id] \/ (id = job[a] /\ log'[id] = new)
    BY <1>1, <2>1 DEF new
  <2>6. setbacks = 0 => /\ \A i \in DOMAIN new : new[i] <= now
                        /\ \A i, j \in DOMAIN new : i < j => new[i] <= new[j]
    <3>1. setbacks = 0 =>
            /\ startedAt[a] <= now
            /\ \A i \in DOMAIN log[job[a]] : log[job[a]][i] <= startedAt[a] /\ log[job[a]][i] <= now
            /\ \A i, j \in DOMAIN log[job[a]] : i < j => log[job[a]][i] <= log[job[a]][j]
      BY <1>1, <2>1 DEF LogsAreOld, LogKeepsNewestInOrder
    <3> QED  BY <2>4, <3>1
  <2>7. LogsAreOld'
    BY SMTT(30), <1>1, <2>1, <2>2, <2>3, <2>5, <2>6 DEF LogsAreOld
  <2>8. LogKeepsNewestInOrder'
    BY <1>1, <2>1, <2>4, <2>5, <2>6 DEF LogKeepsNewestInOrder
  <2> QED  BY <2>7, <2>8
<1>6. CASE Loop
  <2>1. UNCHANGED <<log, startedAt, now, setbacks>>
    BY <1>6 DEF Loop, Tick, StampMissing, StampsDone, Reschedule, Sleep
  <2>2. \A a \in Actor : pc'[a] = "running" => pc[a] = "running"
    BY <1>1, <1>6 DEF Loop, Tick, StampMissing, StampsDone, Reschedule, Sleep
  <2> QED  BY <1>1, <2>1, <2>2, LogsStay
<1>7. CASE Advance
  <2>1. now' = now + 1 /\ UNCHANGED <<log, startedAt, pc, setbacks>>
    BY <1>7 DEF Advance
  <2>2. \A id \in Id : \A i \in DOMAIN log[id] : log[id][i] \in Nat
    BY <1>1
  <2> QED  BY <1>1, <2>1, <2>2 DEF LogsAreOld, LogKeepsNewestInOrder
<1>8. CASE SetBack
  <2>1. setbacks' = setbacks + 1 /\ setbacks' # 0 /\ UNCHANGED log
    BY <1>1, <1>8 DEF SetBack
  <2> QED  BY <1>1, <2>1 DEF LogsAreOld, LogKeepsNewestInOrder
<1>9. CASE Crash
  <2>1. /\ UNCHANGED <<log, now, setbacks>> /\ \A a \in Actor : startedAt'[a] = 0 /\ pc'[a] # "running"
    BY <1>9 DEF Crash, FreshPc, NotRunning
  <2> QED  BY <1>1, <2>1 DEF LogsAreOld, LogKeepsNewestInOrder
<1>10. CASE UNCHANGED vars
  <2>1. UNCHANGED <<log, startedAt, now, setbacks, pc>>
    BY <1>10 DEF vars
  <2> QED  BY <1>1, <2>1, LogsStay
<1> QED  BY <1>2, <1>3, <1>4, <1>5, <1>6, <1>7, <1>8, <1>9, <1>10 DEF Next, Commit, Run

\* The logs begin empty, and their order comes with what IInv says of the gate.
LEMMA LogInvariance == Spec => []LogInv
<1>1. Init => LogInv
  <2> SUFFICES ASSUME Init PROVE LogsAreOld /\ LogKeepsNewestInOrder
    BY InitInvariant DEF LogInv
  <2>1. \A id \in Id : log[id] = <<>>
    BY DEF Init
  <2>2. Len(<<>>) <= MaxHistory /\ DOMAIN <<>> = {}
    BY ScheduleAssumption
  <2>3. \A a \in Actor : startedAt[a] = 0 /\ pc[a] # "running"
    BY DEF Init, NotRunning, FreshPc
  <2> QED  BY <2>1, <2>2, <2>3 DEF Init, LogsAreOld, LogKeepsNewestInOrder
<1>2. LogInv /\ [Next]_vars => LogInv'
  BY NextInvariant, StepLogs DEF LogInv
<1> QED  BY <1>1, <1>2, PTL DEF Spec

\* A run log holds at most MAX_HISTORY runs, and in the order they started, however manual and
\* scheduled runs queue for the gate; a clock that was set back excepted (run_log_repository.rs).
THEOREM LogInOrder == Spec => []LogKeepsNewestInOrder
<1>1. LogInv => LogKeepsNewestInOrder
  BY DEF LogInv
<1> QED  BY <1>1, LogInvariance, PTL

-----------------------------------------------------------------------------
\* An open workspace. Only a schema's is a child or temporary.
Opened ==
  {ws \in Workspace : /\ ws.id # Top
                      /\ ws.parent # Top => ws.schema
                      /\ ws.temp => ws.schema /\ ws.parent # Top}

ConnsOf(r) == {ws.conn : ws \in ToSet(r)}

\* A snapshot that is to be written is of what is on screen, and no entry is as new as it.
SnapshotIsCurrent ==
  /\ \A c \in Conn : stored[c] # NoEntry => stored[c].savedAt <= changes
  /\ timer => /\ pendingRail = rail
              /\ \A c \in Conn : stored[c] # NoEntry => stored[c].savedAt < changes

SessInv ==
  /\ rail \in Seq(Opened) /\ pendingRail \in Seq(Opened)
  /\ restoreTabs \in BOOLEAN /\ timer \in BOOLEAN /\ changes \in 0..MaxChanges
  /\ stored \in [Conn -> {NoEntry} \cup StoredSession]
  /\ Cardinality({c \in Conn : stored[c] # NoEntry}) <= MaxKept
  /\ Cardinality(ConnsOf(rail)) <= MaxKept
  /\ SnapshotIsCurrent

\* What a connection shows and what is kept of it, as the promise sees them.
ShownNow == [c \in Conn |-> ShownUi(c)]
KeptNow == [c \in Conn |-> IF stored[c] = NoEntry THEN NoEntry ELSE stored[c].ui]

-----------------------------------------------------------------------------
\* What is stored of a UI, and read back, is a UI.
LEMMA UiFacts ==
  /\ Blank \in UI
  /\ \A u \in UI : forStorage(u) \in UI /\ fromStorage(u) \in UI /\ u # NoEntry /\ KeptOf(u) = forStorage(u)
  /\ \A e \in StoredSession : /\ e # NoEntry /\ e.ui \in UI /\ e.ui # NoEntry
                              /\ e.savedAt \in 0..MaxChanges /\ e.schemas \in {NoKids} \cup UI
<1>1. \A u \in UI : forStorage(u) \in UI /\ fromStorage(u) \in UI
  BY DEF UI, forStorage, fromStorage
<1>2. \A e \in StoredSession : e.ui \in UI /\ e.savedAt \in 0..MaxChanges /\ e.schemas \in {NoKids} \cup UI
  BY DEF StoredSession
<1>3. Blank \in UI
  BY DEF Blank, UI
<1> QED  BY <1>1, <1>2, <1>3, SessAssumption DEF KeptOf

\* The last of some workspaces of a rail is one of them.
LEMMA LastPicked ==
  ASSUME NEW r \in Seq(Opened), NEW places \in SUBSET (DOMAIN r), places # {}
  PROVE  \E i \in places : LastUi(r, places) = r[i].ui /\ r[i] \in Opened /\ r[i].ui \in UI
<1>1. DOMAIN r = 1..Len(r) /\ Len(r) \in Nat /\ \A i \in places : i \in Nat /\ i <= Len(r)
  OBVIOUS
<1>2. \E i \in places : \A j \in places : i >= j
  <2>1. PICK i \in places : \A j \in places : j <= i
    BY <1>1, GreatestExists
  <2> QED  BY <1>1, <2>1
<1>3. Max(places) \in places
  BY <1>2 DEF Max
<1>4. \A ws \in Opened : ws.ui \in UI
  BY DEF Opened, Workspace
<1> QED  BY <1>1, <1>3, <1>4 DEF LastUi

\* What one save makes of an entry.
LEMMA WrittenEffect ==
  ASSUME SessInv, NEW r \in Seq(Opened), NEW c \in Conn
  PROVE  /\ Written(c, r) \in {NoEntry} \cup StoredSession
         /\ ParentsOf(c, r) # {} =>
              /\ Written(c, r) # NoEntry
              /\ LastUi(r, ParentsOf(c, r)) \in UI
              /\ Written(c, r).ui = forStorage(LastUi(r, ParentsOf(c, r)))
              /\ Written(c, r).savedAt = changes
              /\ c \in ConnsOf(r)
         /\ ParentsOf(c, r) = {} =>
              /\ Written(c, r) = NoEntry <=> stored[c] = NoEntry
              /\ stored[c] # NoEntry => /\ Written(c, r).ui = stored[c].ui
                                        /\ Written(c, r).savedAt = stored[c].savedAt
<1> DEFINE parents == ParentsOf(c, r)
           kids == KidsOf(c, r)
<1>1. /\ parents \in SUBSET (DOMAIN r) /\ kids \in SUBSET (DOMAIN r)
      /\ \A i \in parents : r[i].conn = c
  BY DEF ParentsOf, KidsOf
<1>2. stored[c] \in {NoEntry} \cup StoredSession /\ changes \in 0..MaxChanges
  BY DEF SessInv
<1>3. Written(c, r) =
        IF parents = {}
        THEN IF kids = {} \/ stored[c] = NoEntry THEN stored[c]
             ELSE [stored[c] EXCEPT !.schemas = forStorage(LastUi(r, kids))]
        ELSE [ui |-> forStorage(LastUi(r, parents)), savedAt |-> changes,
              schemas |-> IF kids = {} THEN NoKids ELSE forStorage(LastUi(r, kids))]
  BY DEF Written
<1> HIDE DEF parents, kids
<1>4. /\ parents # {} => LastUi(r, parents) \in UI
      /\ kids # {} => LastUi(r, kids) \in UI
  BY <1>1, LastPicked
<1>5. CASE parents # {}
  <2> DEFINE schemas == IF kids = {} THEN NoKids ELSE forStorage(LastUi(r, kids))
  <2>1. forStorage(LastUi(r, parents)) \in UI /\ schemas \in {NoKids} \cup UI
    BY <1>4, <1>5, UiFacts
  <2> HIDE DEF schemas
  <2>2. Written(c, r) = [ui |-> forStorage(LastUi(r, parents)), savedAt |-> changes, schemas |-> schemas]
    BY <1>3, <1>5 DEF schemas
  <2>3. Written(c, r) \in StoredSession
    BY <1>2, <2>1, <2>2 DEF StoredSession
  <2>4. Written(c, r) # NoEntry
    BY <2>3, UiFacts
  <2>5. c \in ConnsOf(r)
    BY <1>1, <1>5 DEF ConnsOf, ToSet
  <2> QED  BY <1>4, <1>5, <2>2, <2>3, <2>4, <2>5 DEF parents
<1>6. CASE parents = {}
  <2>1. CASE kids = {} \/ stored[c] = NoEntry
    BY <1>2, <1>3, <1>6, <2>1 DEF parents
  <2>2. CASE ~(kids = {} \/ stored[c] = NoEntry)
    <3>1. forStorage(LastUi(r, kids)) \in UI /\ stored[c] \in StoredSession
      BY <1>2, <1>4, <2>2, UiFacts
    <3>2. Written(c, r) = [stored[c] EXCEPT !.schemas = forStorage(LastUi(r, kids))]
      BY <1>3, <1>6, <2>2
    <3>3. /\ Written(c, r) \in StoredSession /\ Written(c, r).ui = stored[c].ui
          /\ Written(c, r).savedAt = stored[c].savedAt
      BY <3>1, <3>2 DEF StoredSession
    <3> QED  BY <1>6, <2>2, <3>3, UiFacts DEF parents
  <2> QED  BY <2>1, <2>2
<1> QED  BY <1>5, <1>6

\* Pruning drops the oldest entries beyond the limit, and none of those just written if they
\* are within it.
LEMMA PruneEffect ==
  ASSUME NEW entries \in [Conn -> {NoEntry} \cup StoredSession], NEW kept \in Prune(entries),
         NEW new \in SUBSET Conn, Cardinality(new) <= MaxKept, NEW time \in Nat,
         \A c \in new : entries[c] # NoEntry /\ entries[c].savedAt = time,
         \A c \in Conn \ new : entries[c] # NoEntry => entries[c].savedAt < time
  PROVE  /\ kept \in [Conn -> {NoEntry} \cup StoredSession]
         /\ \A c \in Conn : kept[c] \in {entries[c], NoEntry}
         /\ \A c \in new : kept[c] = entries[c]
         /\ Cardinality({c \in Conn : kept[c] # NoEntry}) <= MaxKept
<1> DEFINE held == {c \in Conn : entries[c] # NoEntry}
           over == IF Cardinality(held) > MaxKept THEN Cardinality(held) - MaxKept ELSE 0
<1>1. PICK d \in SUBSET held :
        /\ Cardinality(d) = over /\ Oldest(entries, d)
        /\ kept = [c \in Conn |-> IF c \in d THEN NoEntry ELSE entries[c]]
  BY DEF Prune
<1>2. \A a \in d, b \in held \ d : entries[a].savedAt <= entries[b].savedAt
  BY <1>1 DEF Oldest
<1>3. held \subseteq Conn /\ new \subseteq held /\ {c \in Conn : kept[c] # NoEntry} = held \ d
  BY <1>1
<1> HIDE DEF held
<1>4. /\ IsFiniteSet(held) /\ Cardinality(held) \in Nat
      /\ IsFiniteSet(d) /\ Cardinality(d) \in Nat
      /\ IsFiniteSet(new) /\ Cardinality(new) \in Nat
      /\ Cardinality(held \ d) = Cardinality(held) - over
  <2>1. IsFiniteSet(held) /\ IsFiniteSet(d) /\ IsFiniteSet(new)
    BY <1>1, <1>3, SessAssumption, FS_Subset
  <2>2. held \cap d = d
    BY <1>1
  <2>3. Cardinality(held \ d) = Cardinality(held) - Cardinality(held \cap d)
    BY <2>1, FS_Difference
  <2> QED  BY <1>1, <2>1, <2>2, <2>3, FS_CardinalityType
<1>5. Cardinality(held \ d) <= MaxKept
  BY <1>4, SessAssumption
<1>6. ASSUME NEW c \in new, c \in d PROVE FALSE
  <2>1. d # {} /\ over > 0
    <3>1. Cardinality(d) # 0
      BY <1>4, <1>6, FS_EmptySet
    <3> QED  BY <1>1, <1>4, <1>6, <3>1
  <2>2. Cardinality(held \ d) = MaxKept
    BY <1>4, <2>1, SessAssumption
  <2>3. ASSUME NEW b \in held \ d PROVE b \in new \ {c}
    <3>1. entries[c].savedAt = time /\ entries[c].savedAt <= entries[b].savedAt /\ b \in Conn
          /\ entries[b] # NoEntry
      BY <1>2, <1>3, <1>6, <2>3 DEF held
    <3>2. b \in new
      <4>1. CASE b \notin new
        <5>1. entries[b].savedAt < time
          BY <3>1, <4>1
        <5>2. entries[b].savedAt \in Nat
          BY <3>1, UiFacts, SessAssumption
        <5> QED  BY <3>1, <5>1, <5>2
      <4> QED  BY <4>1
    <3> QED  BY <1>6, <2>3, <3>2
  <2>4. Cardinality(held \ d) <= Cardinality(new \ {c})
    <3>1. IsFiniteSet(new \ {c}) /\ held \ d \in SUBSET (new \ {c})
      BY <1>4, <2>3, FS_RemoveElement
    <3> QED  BY <3>1, FS_Subset
  <2>5. Cardinality(new \ {c}) = Cardinality(new) - 1
    BY <1>4, <1>6, FS_RemoveElement
  <2> QED  BY <1>4, <2>2, <2>4, <2>5, SessAssumption
<1> QED  BY <1>1, <1>3, <1>5, <1>6

-----------------------------------------------------------------------------
\* The connections of a rail are some of the saved ones.
LEMMA ConnsFinite ==
  ASSUME NEW r \in Seq(Opened)
  PROVE  ConnsOf(r) \subseteq Conn /\ IsFiniteSet(ConnsOf(r)) /\ Cardinality(ConnsOf(r)) \in Nat
<1>1. \A ws \in ToSet(r) : ws \in Opened
  BY DEF ToSet
<1>2. ConnsOf(r) \subseteq Conn
  BY <1>1 DEF ConnsOf, Opened, Workspace
<1> QED  BY <1>2, SessAssumption, FS_Subset, FS_CardinalityType

\* A rail of connections that were open already is within the limit.
LEMMA ConnsBounded ==
  ASSUME NEW r \in Seq(Opened), NEW other \in Seq(Opened), ConnsOf(r) \subseteq ConnsOf(other),
         Cardinality(ConnsOf(other)) <= MaxKept
  PROVE  Cardinality(ConnsOf(r)) <= MaxKept
<1>1. Cardinality(ConnsOf(r)) <= Cardinality(ConnsOf(other))
  BY ConnsFinite, FS_Subset
<1> QED  BY <1>1, ConnsFinite, SessAssumption

\* The throttled save keeps what is on screen of every connection that shows something, and
\* invents nothing for the others.
LEMMA SaveEffect ==
  ASSUME SessInv, timer, Save(pendingRail)
  PROVE  /\ stored' \in [Conn -> {NoEntry} \cup StoredSession]
         /\ Cardinality({c \in Conn : stored'[c] # NoEntry}) <= MaxKept
         /\ \A c \in Conn : stored'[c] # NoEntry => stored'[c].savedAt <= changes
         /\ \A c \in Conn : IF ShownNow[c] # NoEntry THEN KeptNow'[c] = KeptOf(ShownNow[c])
                            ELSE KeptNow'[c] \in {KeptNow[c], NoEntry}
<1> DEFINE entries == [c \in Conn |-> Written(c, rail)]
           new == {c \in Conn : ParentsOf(c, rail) # {}}
<1>1. /\ rail \in Seq(Opened) /\ pendingRail = rail /\ changes \in Nat
      /\ \A c \in Conn : stored[c] # NoEntry => stored[c].savedAt < changes
      /\ stored \in [Conn -> {NoEntry} \cup StoredSession]
  BY SessAssumption DEF SessInv, SnapshotIsCurrent
<1>2. stored' \in Prune(entries)
  BY <1>1 DEF Save
<1>3. entries \in [Conn -> {NoEntry} \cup StoredSession]
  BY <1>1, WrittenEffect
<1>4. Cardinality(new) <= MaxKept
  <2>1. new \in SUBSET ConnsOf(rail)
    BY <1>1, WrittenEffect
  <2>2. Cardinality(new) <= Cardinality(ConnsOf(rail)) /\ Cardinality(new) \in Nat
    BY <1>1, <2>1, ConnsFinite, FS_Subset, FS_CardinalityType
  <2> QED  BY <1>1, <2>2, ConnsFinite, SessAssumption DEF SessInv
<1>5. /\ \A c \in new : entries[c] # NoEntry /\ entries[c].savedAt = changes
      /\ \A c \in Conn \ new : entries[c] # NoEntry => entries[c].savedAt < changes
  BY <1>1, WrittenEffect
<1>6. /\ stored' \in [Conn -> {NoEntry} \cup StoredSession]
      /\ \A c \in Conn : stored'[c] \in {entries[c], NoEntry}
      /\ \A c \in new : stored'[c] = entries[c]
      /\ Cardinality({c \in Conn : stored'[c] # NoEntry}) <= MaxKept
  <2> HIDE DEF entries, new
  <2>1. new \in SUBSET Conn
    BY DEF new
  <2> QED  BY <1>1, <1>2, <1>3, <1>4, <1>5, <2>1, PruneEffect
<1>7. ASSUME NEW c \in Conn, stored'[c] # NoEntry PROVE stored'[c].savedAt <= changes
  BY <1>1, <1>5, <1>6, <1>7, UiFacts, SessAssumption
<1>8. ASSUME NEW c \in Conn
      PROVE  IF ShownNow[c] # NoEntry THEN KeptNow'[c] = KeptOf(ShownNow[c])
             ELSE KeptNow'[c] \in {KeptNow[c], NoEntry}
  <2>1. KeptNow[c] = (IF stored[c] = NoEntry THEN NoEntry ELSE stored[c].ui)
        /\ KeptNow'[c] = IF stored'[c] = NoEntry THEN NoEntry ELSE stored'[c].ui
    BY DEF KeptNow
  <2>2. ShownNow[c] = IF ParentsOf(c, rail) = {} THEN NoEntry ELSE LastUi(rail, ParentsOf(c, rail))
    BY DEF ShownNow, ShownUi
  <2>3. CASE c \in new
    <3>1. stored'[c] = Written(c, rail)
      BY <1>6, <2>3
    <3>2. /\ Written(c, rail) # NoEntry /\ LastUi(rail, ParentsOf(c, rail)) \in UI
          /\ Written(c, rail).ui = forStorage(LastUi(rail, ParentsOf(c, rail)))
      BY <1>1, <2>3, WrittenEffect
    <3> QED  BY <2>1, <2>2, <2>3, <3>1, <3>2, UiFacts
  <2>4. CASE c \notin new
    <3>1. ParentsOf(c, rail) = {} /\ ShownNow[c] = NoEntry
      BY <2>2, <2>4
    <3>2. /\ Written(c, rail) = NoEntry <=> stored[c] = NoEntry
          /\ stored[c] # NoEntry => Written(c, rail).ui = stored[c].ui
      BY <1>1, <3>1, WrittenEffect
    <3>3. stored'[c] \in {Written(c, rail), NoEntry}
      BY <1>6
    <3> QED  BY <2>1, <3>1, <3>2, <3>3
  <2> QED  BY <2>3, <2>4
<1> QED  BY <1>6, <1>7, <1>8

\* A save is a save of the promise.
LEMMA SaveIsPromised ==
  ASSUME SessInv, timer, restoreTabs, Save(pendingRail), UNCHANGED restoreTabs
  PROVE  Promise!Save
<1>1. \A c \in Conn : IF ShownNow[c] # NoEntry THEN KeptNow'[c] = KeptOf(ShownNow[c])
                      ELSE KeptNow'[c] \in {KeptNow[c], NoEntry}
  BY SaveEffect
<1>2. KeptNow' = [c \in Conn |-> KeptNow'[c]]
  BY DEF KeptNow
<1>3. KeptNow' \in [Conn -> {NoEntry} \cup {KeptNow[c] : c \in Conn} \cup {KeptOf(ShownNow[c]) : c \in Conn}]
  BY <1>1, <1>2
<1> QED  BY <1>1, <1>3 DEF Promise!Save, KeptNow, ShownNow

-----------------------------------------------------------------------------
\* A change of the rail takes its snapshot, and keeps nothing yet.
LEMMA ChangeKeeps ==
  ASSUME SessInv, NEW r \in Seq(Opened), Cardinality(ConnsOf(r)) <= MaxKept, Change(r)
  PROVE  SessInv' /\ Promise!Show
<1>1. /\ changes < MaxChanges /\ changes' = changes + 1 /\ rail' = r /\ pendingRail' = r /\ timer' = TRUE
      /\ UNCHANGED <<restoreTabs, stored>>
  BY DEF Change, ScheduleSave
<1>2. changes \in 0..MaxChanges /\ changes' \in 0..MaxChanges /\ MaxChanges \in Nat
  BY <1>1, SessAssumption DEF SessInv
<1>3. \A c \in Conn : stored[c] # NoEntry => stored[c].savedAt < changes + 1 /\ stored[c].savedAt <= changes + 1
  <2>1. \A c \in Conn : stored[c] # NoEntry => stored[c] \in StoredSession /\ stored[c].savedAt <= changes
    BY DEF SessInv, SnapshotIsCurrent
  <2>2. \A c \in Conn : stored[c] # NoEntry => stored[c].savedAt \in Nat
    BY <2>1, UiFacts, SessAssumption
  <2> QED  BY <1>2, <2>1, <2>2
<1>4. SnapshotIsCurrent'
  BY <1>1, <1>3 DEF SnapshotIsCurrent
<1>5. SessInv'
  BY <1>1, <1>2, <1>4 DEF SessInv
<1>6. KeptNow' = KeptNow
  BY <1>1 DEF KeptNow
<1> QED  BY <1>1, <1>5, <1>6 DEF Promise!Show, KeptNow

\* A child of a workspace that is open.
LEMMA SchemaOfOpened ==
  ASSUME NEW parent \in Opened, NEW temp \in BOOLEAN, NEW ui \in UI
  PROVE  SchemaOf(parent, temp, ui) \in Opened /\ SchemaOf(parent, temp, ui).conn = parent.conn
<1>1. parent.id \in Seq(Nat) /\ parent.id # Top /\ parent.conn \in Conn
  BY DEF Opened, Workspace
<1>2. Append(parent.id, 0) \in Seq(Nat) /\ Append(parent.id, 0) # Top
  BY <1>1 DEF Top
<1> QED  BY <1>1, <1>2 DEF SchemaOf, Opened, Workspace

\* What is read back is a UI.
LEMMA ReadBack ==
  ASSUME SessInv, NEW c \in Conn
  PROVE  readSession(c) \in UI /\ readSchemaSession(c) \in UI
<1>1. stored[c] # NoEntry => stored[c] \in StoredSession
  BY DEF SessInv
<1> QED  BY <1>1, UiFacts DEF readSession, readSchemaSession

\* What a rail holds, by place.
LEMMA RailFacts ==
  ASSUME SessInv, NEW i \in DOMAIN rail
  PROVE  rail \in Seq(Opened) /\ i \in 1..Len(rail) /\ Len(rail) \in Nat /\ rail[i] \in Opened
         /\ rail[i].conn \in ConnsOf(rail)
<1>1. rail \in Seq(Opened)
  BY DEF SessInv
<1>2. rail[i] \in ToSet(rail)
  BY DEF ToSet
<1> QED  BY <1>1, <1>2 DEF ConnsOf

\* One sequence after another, by place.
LEMMA ConcatPlaces ==
  ASSUME NEW S, NEW s \in Seq(S), NEW t \in Seq(S)
  PROVE  /\ s \o t \in Seq(S) /\ Len(s \o t) = Len(s) + Len(t) /\ Len(s) \in Nat /\ Len(t) \in Nat
         /\ DOMAIN (s \o t) = 1..Len(s \o t) /\ DOMAIN t = 1..Len(t)
         /\ \A k \in 1..Len(s) : (s \o t)[k] = s[k]
         /\ \A k \in (Len(s) + 1)..Len(s \o t) : (s \o t)[k] = t[k - Len(s)] /\ k - Len(s) \in 1..Len(t)
  OBVIOUS

\* Opening a connection is within the limit by its guard.
LEMMA OpenKeeps ==
  ASSUME SessInv, NEW c \in Conn, OpenWorkspace(c)
  PROVE  SessInv' /\ Promise!Show
<1> DEFINE restores == restoreTabs /\ readSession(c) # Blank
           ws == [id |-> <<changes + 1>>, conn |-> c, parent |-> Top, schema |-> FALSE,
                  temp |-> FALSE, ui |-> IF restores THEN readSession(c) ELSE Blank]
           kids == IF restores /\ HasKept(c) THEN <<SchemaOf(ws, FALSE, readSchemaSession(c))>> ELSE <<>>
           r == rail \o <<ws>> \o kids
<1>1. /\ Cardinality({c} \cup {other.conn : other \in ToSet(rail)}) <= MaxKept
      /\ Change(r)
  BY DEF OpenWorkspace
<1>2. ws \in Opened /\ ws.conn = c
  <2>1. <<changes + 1>> \in Seq(Nat) /\ <<changes + 1>> # Top /\ Top \in Seq(Nat)
    BY DEF SessInv, Top
  <2>2. ws.ui \in UI
    BY ReadBack, UiFacts
  <2> QED  BY <2>1, <2>2 DEF Opened, Workspace
<1> HIDE DEF ws
<1>3. kids \in Seq(Opened) /\ \A k \in DOMAIN kids : kids[k].conn = c
  <2> DEFINE child == SchemaOf(ws, FALSE, readSchemaSession(c))
  <2>1. child \in Opened /\ child.conn = c
    BY <1>2, ReadBack, SchemaOfOpened
  <2>2. kids = <<child>> \/ kids = <<>>
    BY DEF kids
  <2> HIDE DEF child, kids
  <2>3. /\ <<child>> \in Seq(Opened) /\ DOMAIN <<child>> = {1} /\ <<child>>[1] = child
        /\ <<>> \in Seq(Opened) /\ DOMAIN <<>> = {}
    BY <2>1
  <2> QED  BY <2>1, <2>2, <2>3
<1> HIDE DEF kids
<1>4. /\ r \in Seq(Opened)
      /\ \A k \in DOMAIN r : r[k].conn = c \/ r[k].conn \in ConnsOf(rail)
  <2>1. rail \in Seq(Opened) /\ <<ws>> \in Seq(Opened) /\ Len(<<ws>>) = 1 /\ <<ws>>[1] = ws
    BY <1>2 DEF SessInv
  <2> DEFINE most == rail \o <<ws>>
  <2>2. most \in Seq(Opened) /\ Len(most) = Len(rail) + 1
        /\ (\A k \in 1..Len(rail) : most[k] = rail[k]) /\ most[Len(rail) + 1] = ws
    BY <2>1
  <2>3. \A k \in 1..Len(most) : most[k].conn = c \/ most[k].conn \in ConnsOf(rail)
    <3>1. \A k \in 1..Len(rail) : most[k].conn \in ConnsOf(rail)
      BY <2>1, <2>2, RailFacts
    <3>2. \A k \in 1..Len(most) : k \in 1..Len(rail) \/ k = Len(rail) + 1
      BY <2>1, <2>2
    <3> QED  BY <1>2, <2>2, <3>1, <3>2
  <2>4. r = most \o kids
    OBVIOUS
  <2> HIDE DEF most, r
  <2>5. r \in Seq(Opened) /\ Len(r) = Len(most) + Len(kids) /\ Len(most) \in Nat /\ Len(kids) \in Nat
        /\ DOMAIN r = 1..Len(r) /\ DOMAIN kids = 1..Len(kids)
        /\ (\A k \in 1..Len(most) : r[k] = most[k])
        /\ \A k \in (Len(most) + 1)..Len(r) : r[k] = kids[k - Len(most)] /\ k - Len(most) \in 1..Len(kids)
    BY <1>3, <2>2, <2>4, ConcatPlaces
  <2>6. \A k \in 1..Len(r) : k \in 1..Len(most) \/ k \in (Len(most) + 1)..Len(r)
    BY <2>5
  <2> QED  BY <1>3, <2>3, <2>5, <2>6
<1> HIDE DEF r
<1>5. ConnsOf(r) \subseteq {c} \cup ConnsOf(rail)
  BY <1>4 DEF ConnsOf, ToSet
<1>6. Cardinality(ConnsOf(r)) <= MaxKept
  <2>1. IsFiniteSet({c} \cup ConnsOf(rail)) /\ Cardinality({c} \cup ConnsOf(rail)) \in Nat
        /\ Cardinality({c} \cup ConnsOf(rail)) <= MaxKept
    <3>1. IsFiniteSet(ConnsOf(rail) \cup {c})
      BY ConnsFinite, FS_AddElement DEF SessInv
    <3>2. {c} \cup ConnsOf(rail) = ConnsOf(rail) \cup {c}
      OBVIOUS
    <3> QED  BY <1>1, <3>1, <3>2, FS_CardinalityType DEF ConnsOf
  <2>2. Cardinality(ConnsOf(r)) <= Cardinality({c} \cup ConnsOf(rail))
    BY <1>5, <2>1, FS_Subset
  <2>3. Cardinality(ConnsOf(r)) \in Nat
    BY <1>4, ConnsFinite
  <2> QED  BY <2>1, <2>2, <2>3, SessAssumption
<1> QED  BY <1>1, <1>4, <1>6, ChangeKeeps

\* What a rail with one more workspace holds.
LEMMA InsertedPlaces ==
  ASSUME NEW S, NEW s \in Seq(S), NEW e \in S, NEW i \in 1..(Len(s) + 1)
  PROVE  /\ InsertAt(s, i, e) \in Seq(S)
         /\ \A k \in DOMAIN InsertAt(s, i, e) :
              InsertAt(s, i, e)[k] = e \/ \E n \in DOMAIN s : InsertAt(s, i, e)[k] = s[n]
<1> DEFINE r == InsertAt(s, i, e)
<1>1. /\ r \in Seq(S) /\ Len(r) = Len(s) + 1
      /\ \A k \in 1..(Len(s) + 1) : r[k] = IF k < i THEN s[k] ELSE IF k = i THEN e ELSE s[k - 1]
  <2>1. /\ InsertAt(s, i, e) \in Seq(S) /\ Len(InsertAt(s, i, e)) = Len(s) + 1
        /\ \A k \in 1..(Len(s) + 1) :
             InsertAt(s, i, e)[k] = IF k < i THEN s[k] ELSE IF k = i THEN e ELSE s[k - 1]
    BY InsertAtPlaces
  <2> QED  BY <2>1
<1> HIDE DEF r
<1>2. DOMAIN r = 1..(Len(s) + 1) /\ DOMAIN s = 1..Len(s) /\ Len(s) \in Nat
  BY <1>1
<1>3. \A k \in 1..(Len(s) + 1) :
        (k < i => k \in 1..Len(s)) /\ (k > i => k - 1 \in 1..Len(s)) /\ (k < i \/ k = i \/ k > i)
  BY <1>2
<1>4. \A k \in DOMAIN r : r[k] = e \/ \E n \in DOMAIN s : r[k] = s[n]
  BY <1>1, <1>2, <1>3
<1> QED  BY <1>1, <1>4 DEF r

\* A sub-workspace is of a connection that is open.
LEMMA OpenSchemaKeeps ==
  ASSUME SessInv, NEW i \in DOMAIN rail, OpenSchemaWorkspace(i)
  PROVE  SessInv' /\ Promise!Show
<1> DEFINE child == SchemaOf(rail[i], TRUE, readSchemaSession(rail[i].conn))
           r == InsertAt(rail, i + 1, child)
<1>1. Change(r)
  BY DEF OpenSchemaWorkspace
<1>2. /\ rail \in Seq(Opened) /\ i \in 1..Len(rail) /\ Len(rail) \in Nat /\ rail[i] \in Opened
      /\ rail[i].conn \in ConnsOf(rail) /\ rail[i].conn \in Conn
  BY RailFacts DEF Opened, Workspace
<1>3. child \in Opened /\ child.conn = rail[i].conn
  BY <1>2, ReadBack, SchemaOfOpened
<1> HIDE DEF child
<1>4. i + 1 \in 1..(Len(rail) + 1)
  BY <1>2
<1>5. r \in Seq(Opened) /\ \A k \in DOMAIN r : r[k] = child \/ \E n \in DOMAIN rail : r[k] = rail[n]
  BY <1>2, <1>3, <1>4, InsertedPlaces
<1> HIDE DEF r
<1>7. ConnsOf(r) \subseteq ConnsOf(rail)
  BY <1>2, <1>3, <1>5 DEF ConnsOf, ToSet
<1>8. Cardinality(ConnsOf(r)) <= MaxKept
  BY <1>2, <1>5, <1>7, ConnsBounded DEF SessInv
<1> QED  BY <1>1, <1>5, <1>8, ChangeKeeps

\* Keeping a sub-workspace and changing a strip move nothing.
LEMMA PatchKeeps ==
  ASSUME SessInv, NEW i \in DOMAIN rail, KeepWorkspace(i) \/ \E ui \in UI : PatchUi(i, ui)
  PROVE  SessInv' /\ Promise!Show
<1>1. rail \in Seq(Opened) /\ Len(rail) \in Nat /\ rail[i] \in Opened /\ DOMAIN rail = 1..Len(rail)
  BY RailFacts
<1>2. ASSUME NEW ws \in Opened, ws.conn = rail[i].conn, Change([rail EXCEPT ![i] = ws])
      PROVE  SessInv' /\ Promise!Show
  <2> DEFINE r == [rail EXCEPT ![i] = ws]
  <2>1. r \in Seq(Opened) /\ DOMAIN r = DOMAIN rail
        /\ \A k \in DOMAIN rail : r[k] = IF k = i THEN ws ELSE rail[k]
    BY <1>1
  <2>2. Change(r)
    BY <1>2
  <2> HIDE DEF r
  <2>3. ConnsOf(r) \subseteq ConnsOf(rail)
    BY <1>2, <2>1 DEF ConnsOf, ToSet
  <2>4. Cardinality(ConnsOf(r)) <= MaxKept
    BY <1>1, <2>1, <2>3, ConnsBounded DEF SessInv
  <2> QED  BY <2>1, <2>2, <2>4, ChangeKeeps
<1>3. CASE KeepWorkspace(i)
  <2>1. [rail[i] EXCEPT !.temp = FALSE] \in Opened /\ [rail[i] EXCEPT !.temp = FALSE].conn = rail[i].conn
    BY <1>1 DEF Opened, Workspace
  <2>2. Change([rail EXCEPT ![i] = [rail[i] EXCEPT !.temp = FALSE]])
    BY <1>3 DEF KeepWorkspace
  <2> QED  BY <1>2, <2>1, <2>2
<1>4. ASSUME NEW ui \in UI, PatchUi(i, ui) PROVE SessInv' /\ Promise!Show
  <2>1. [rail[i] EXCEPT !.ui = ui] \in Opened /\ [rail[i] EXCEPT !.ui = ui].conn = rail[i].conn
    BY <1>1 DEF Opened, Workspace
  <2>2. Change([rail EXCEPT ![i] = [rail[i] EXCEPT !.ui = ui]])
    BY <1>4 DEF PatchUi
  <2> QED  BY <1>2, <2>1, <2>2
<1> QED  BY <1>3, <1>4

\* Closing leaves some of what was open, and kept children at the top.
LEMMA CloseKeeps ==
  ASSUME SessInv, NEW i \in DOMAIN rail, CloseWorkspace(i)
  PROVE  SessInv' /\ Promise!Show
<1> DEFINE id == rail[i].id
           left == OnlyIn(rail, {ws \in ToSet(rail) : ws.id # id /\ ~(ws.parent = id /\ ws.temp)})
           r == [j \in DOMAIN left |->
                   IF left[j].parent = id THEN [left[j] EXCEPT !.parent = Top] ELSE left[j]]
<1>1. rail \in Seq(Opened) /\ Change(r)
  BY DEF CloseWorkspace, SessInv
<1>2. left \in Seq(Opened) /\ \A j \in DOMAIN left :
        left[j] \in Opened /\ left[j] \in ToSet(rail) /\ ~(left[j].parent = id /\ left[j].temp)
  <2> DEFINE stay == {ws \in ToSet(rail) : ws.id # id /\ ~(ws.parent = id /\ ws.temp)}
  <2>1. left \in Seq(Opened \cap stay)
    BY <1>1, OnlyInPlaces
  <2> HIDE DEF left
  <2>2. left \in Seq(Opened) /\ \A j \in DOMAIN left : left[j] \in Opened \cap stay
    BY <2>1
  <2> QED  BY <2>2
<1> HIDE DEF left, id
<1>3. \A j \in DOMAIN left : r[j] \in Opened /\ r[j].conn = left[j].conn
  <2>1. Top \in Seq(Nat)
    BY DEF Top
  <2> QED  BY <1>2, <2>1 DEF Opened, Workspace
<1>4. DOMAIN left = 1..Len(left) /\ Len(left) \in Nat /\ DOMAIN r = DOMAIN left
  BY <1>2
<1>5. r = [j \in 1..Len(left) |-> r[j]]
  BY <1>4
<1> HIDE DEF r
<1>6. r \in Seq(Opened)
  BY <1>3, <1>4, <1>5
<1>7. ConnsOf(r) \subseteq ConnsOf(rail)
  BY <1>2, <1>3, <1>4 DEF ConnsOf, ToSet
<1>8. Cardinality(ConnsOf(r)) <= MaxKept
  BY <1>1, <1>6, <1>7, ConnsBounded DEF SessInv
<1> QED  BY <1>1, <1>6, <1>8, ChangeKeeps

\* Nothing is shown of any connection when nothing is open.
LEMMA EmptyRail ==
  /\ <<>> \in Seq(Opened) /\ Cardinality(ConnsOf(<<>>)) <= MaxKept
  /\ \A c \in Conn : ParentsOf(c, <<>>) = {}
<1>1. <<>> \in Seq(Opened) /\ ToSet(<<>>) = {}
  BY DEF ToSet
<1>2. Cardinality(ConnsOf(<<>>)) <= MaxKept
  <2>1. ConnsOf(<<>>) = {}
    BY <1>1 DEF ConnsOf
  <2>2. Cardinality(ConnsOf(<<>>)) = 0
    BY <2>1, FS_EmptySet, Zenon
  <2> QED  BY <2>2, SessAssumption
<1>3. \A c \in Conn : ParentsOf(c, <<>>) = {}
  BY DEF ParentsOf
<1> QED  BY <1>1, <1>2, <1>3

\* The behaviours start with nothing open and nothing kept.
LEMMA SessStart == SessInit => SessInv /\ Promise!Init
<1> SUFFICES ASSUME SessInit PROVE SessInv /\ Promise!Init
  OBVIOUS
<1>1. /\ restoreTabs \in BOOLEAN /\ rail = <<>> /\ pendingRail = <<>>
      /\ stored = [c \in Conn |-> NoEntry] /\ timer = FALSE /\ changes = 0
  BY DEF SessInit
<1>2. Cardinality({c \in Conn : stored[c] # NoEntry}) <= MaxKept
  <2>1. {c \in Conn : stored[c] # NoEntry} = {}
    BY <1>1
  <2>2. Cardinality({}) = 0
    BY FS_EmptySet
  <2> QED  BY <2>1, <2>2, SessAssumption
<1>3. SessInv
  <2>1. /\ rail \in Seq(Opened) /\ pendingRail \in Seq(Opened)
        /\ Cardinality(ConnsOf(rail)) <= MaxKept
    BY <1>1, EmptyRail
  <2>2. changes \in 0..MaxChanges /\ SnapshotIsCurrent
    BY <1>1, SessAssumption DEF SnapshotIsCurrent
  <2> QED  BY <1>1, <1>2, <2>1, <2>2 DEF SessInv
<1>4. \A c \in Conn : ShownUi(c) = NoEntry
  BY <1>1, EmptyRail DEF ShownUi
<1> QED  BY <1>1, <1>3, <1>4 DEF Promise!Init

\* Every step keeps the invariant, and is a step of the promise or none of it.
LEMMA SessStep == SessInv /\ [SessNext]_sessVars => SessInv' /\ [Promise!Next]_(Promise!vars)
<1> SUFFICES ASSUME SessInv, [SessNext]_sessVars PROVE SessInv' /\ [Promise!Next]_(Promise!vars)
  OBVIOUS
<1>1. /\ rail \in Seq(Opened) /\ pendingRail \in Seq(Opened) /\ Cardinality(ConnsOf(rail)) <= MaxKept
      /\ restoreTabs \in BOOLEAN /\ timer \in BOOLEAN /\ changes \in 0..MaxChanges
      /\ stored \in [Conn -> {NoEntry} \cup StoredSession] /\ SnapshotIsCurrent
      /\ Cardinality({c \in Conn : stored[c] # NoEntry}) <= MaxKept
  BY DEF SessInv
<1>2. ASSUME UNCHANGED <<restoreTabs, changes>>, timer' = FALSE,
             rail' \in {rail, <<>>}, pendingRail' \in {pendingRail, <<>>},
             UNCHANGED stored \/ (timer /\ Save(pendingRail))
      PROVE  SessInv'
  <2>1. /\ stored' \in [Conn -> {NoEntry} \cup StoredSession]
        /\ Cardinality({c \in Conn : stored'[c] # NoEntry}) <= MaxKept
        /\ \A c \in Conn : stored'[c] # NoEntry => stored'[c].savedAt <= changes
    <3>1. CASE UNCHANGED stored
      BY <1>1, <3>1 DEF SnapshotIsCurrent
    <3>2. CASE timer /\ Save(pendingRail)
      BY <3>2, SaveEffect
    <3> QED  BY <1>2, <3>1, <3>2
  <2>2. rail' \in Seq(Opened) /\ pendingRail' \in Seq(Opened) /\ Cardinality(ConnsOf(rail')) <= MaxKept
    BY <1>1, <1>2, EmptyRail
  <2> QED  BY <1>1, <1>2, <2>1, <2>2 DEF SessInv, SnapshotIsCurrent, ConnsOf
<1>3. rail' = <<>> => \A c \in Conn : ShownUi(c)' = NoEntry
  BY EmptyRail DEF ShownUi
<1>4. UNCHANGED stored => KeptNow' = KeptNow
  BY DEF KeptNow
<1>5. CASE Flush
  <2>1. CASE restoreTabs
    <3>1. SessInv' /\ Promise!Save
      BY <1>2, <1>5, <2>1, SaveIsPromised DEF Flush
    <3>2. UNCHANGED rail
      BY <1>5 DEF Flush
    <3> QED  BY <3>1, <3>2 DEF Promise!Next, ShownUi
  <2>2. CASE ~restoreTabs
    BY <1>2, <1>4, <1>5, <2>2 DEF Flush, Promise!Next, Promise!Show, KeptNow
  <2> QED  BY <2>1, <2>2
<1>6. CASE Quit
  <2>1. SessInv'
    BY <1>2, <1>6 DEF Quit
  <2>2. CASE timer /\ restoreTabs
    <3>1. Promise!Save
      BY <1>6, <2>2, SaveIsPromised DEF Quit
    <3>2. \A c \in Conn : ShownUi(c)' = NoEntry
      BY <1>3, <1>6 DEF Quit
    <3>3. Promise!Quit
      BY <3>1, <3>2 DEF Promise!Quit
    <3> QED  BY <2>1, <3>3 DEF Promise!Next
  <2>3. CASE ~(timer /\ restoreTabs)
    BY <1>4, <1>6, <2>1, <2>3 DEF Quit, Promise!Next, Promise!Show, KeptNow
  <2> QED  BY <2>2, <2>3
<1>7. CASE ProcessDies
  BY <1>2, <1>4, <1>7 DEF ProcessDies, Promise!Next, Promise!Show, KeptNow
<1>8. ASSUME NEW value \in BOOLEAN, SetRestoreTabs(value)
      PROVE  SessInv' /\ [Promise!Next]_(Promise!vars)
  <2>1. restoreTabs # value /\ restoreTabs' = value /\ UNCHANGED <<rail, pendingRail, timer, changes>>
    BY <1>8 DEF SetRestoreTabs
  <2>2. CASE value
    <3>1. UNCHANGED stored /\ restoreTabs = FALSE /\ restoreTabs' = TRUE
      BY <1>1, <1>8, <2>1, <2>2 DEF SetRestoreTabs
    <3>2. SessInv'
      BY <1>1, <2>1, <3>1 DEF SessInv, SnapshotIsCurrent
    <3>3. Promise!TurnOn
      BY <2>1, <3>1 DEF Promise!TurnOn, ShownUi
    <3> QED  BY <3>2, <3>3 DEF Promise!Next
  <2>3. CASE ~value
    <3>1. stored' = [c \in Conn |-> NoEntry] /\ restoreTabs = TRUE /\ restoreTabs' = FALSE
      BY <1>1, <1>8, <2>1, <2>3 DEF SetRestoreTabs
    <3>2. Cardinality({c \in Conn : stored'[c] # NoEntry}) <= MaxKept
      <4>1. {c \in Conn : stored'[c] # NoEntry} = {}
        BY <3>1
      <4> QED  BY <4>1, FS_EmptySet, SessAssumption
    <3>3. SessInv'
      BY <1>1, <2>1, <3>1, <3>2 DEF SessInv, SnapshotIsCurrent
    <3>4. Promise!TurnOff
      BY <2>1, <3>1 DEF Promise!TurnOff, ShownUi
    <3> QED  BY <3>3, <3>4 DEF Promise!Next
  <2> QED  BY <2>2, <2>3
<1>9. ASSUME NEW c \in Conn, OpenWorkspace(c) PROVE SessInv' /\ Promise!Show
  BY <1>9, OpenKeeps
<1>10. ASSUME NEW i \in DOMAIN rail,
              OpenSchemaWorkspace(i) \/ KeepWorkspace(i) \/ CloseWorkspace(i) \/ \E ui \in UI : PatchUi(i, ui)
       PROVE  SessInv' /\ Promise!Show
  BY <1>10, OpenSchemaKeeps, PatchKeeps, CloseKeeps
<1>11. CASE UNCHANGED sessVars
  <2>1. SessInv'
    BY <1>1, <1>11 DEF SessInv, SnapshotIsCurrent, sessVars
  <2>2. UNCHANGED Promise!vars
    BY <1>11 DEF Promise!vars, sessVars, ShownUi
  <2> QED  BY <2>1, <2>2
<1>12. CASE SessNext
  BY <1>5, <1>6, <1>7, <1>8, <1>9, <1>10, <1>12 DEF SessNext, Promise!Next
<1> QED  BY <1>11, <1>12

-----------------------------------------------------------------------------
\* A snapshot that is to be written is of what is on screen, is newer than every entry, and
\* is within the limit (sessionSync.ts, session.ts).
THEOREM SessInvariant == SessSpec => []SessInv
<1>1. SessInit => SessInv
  BY SessStart
<1>2. SessInv /\ [SessNext]_sessVars => SessInv'
  BY SessStep
<1> QED  BY <1>1, <1>2, PTL DEF SessSpec

\* Sessions keeps its types.
THEOREM SessTypeCorrect == SessSpec => []SessTypeOK
<1>1. SessInv => SessTypeOK
  <2> SUFFICES ASSUME SessInv PROVE SessTypeOK
    OBVIOUS
  <2>1. \A ws \in ToSet(rail) \cup ToSet(pendingRail) : ws \in Opened
    BY DEF SessInv, ToSet
  <2> QED  BY <2>1 DEF SessInv, SessTypeOK, Opened, Workspace
<1> QED  BY <1>1, SessInvariant, PTL

\* Refinement: the snapshot and its timer save as if each save wrote what is on screen right
\* then (sessionSync.ts flush).
THEOREM SavesKeepThePromise == SessSpec => SavesWhatIsShown
<1>1. SessInit => SessInv /\ Promise!Init
  BY SessStart
<1>2. SessInv /\ [SessNext]_sessVars => SessInv' /\ [Promise!Next]_(Promise!vars)
  BY SessStep
<1> QED  BY <1>1, <1>2, PTL DEF SessSpec, SavesWhatIsShown, Promise!Spec
-----------------------------------------------------------------------------
(* Files the OS asks for.                                                  *)

\* A drain holds files only while it opens them, and then one at least.
DrainTyped(x) ==
  /\ DOMAIN x = {"by", "stage", "items"} /\ x.items \in Seq(Path)
  /\ x.stage = "opening" <=> x.items # <<>>

DrainsTyped == DOMAIN drains = Drain /\ \A d \in Drain : DrainTyped(drains[d])

QueueTyped == openQueue \in Seq(Path) /\ \A i, j \in DOMAIN openQueue : openQueue[i] = openQueue[j] => i = j

CountsTyped ==
  /\ pushed \in [Path -> Nat] /\ handled \in [Path -> Nat]
  /\ \A p \in Path : IsFiniteSet(Holds(p))

FilesOnce == DrainsTyped /\ QueueTyped /\ CountsTyped /\ QueuedIsHandledOnce

\* Who holds a file is read off the drains.
LEMMA HoldsAt ==
  ASSUME NEW p, NEW x
  PROVE  x \in Holds(p) <=> \E d \in Drain : \E i \in DOMAIN drains[d].items :
                              drains[d].items[i] = p /\ x = <<d, i>>
  BY DEF Holds

LEMMA IdleDrains ==
  /\ DrainTyped(NotDraining) /\ NotDraining.items = <<>>
  /\ \A n : DrainTyped(Asked(n)) /\ Asked(n).items = <<>>
<1>1. <<>> \in Seq(Path)
  OBVIOUS
<1>2. ASSUME NEW x, NEW n, NEW stage, stage # "opening", x = [by |-> n, stage |-> stage, items |-> <<>>]
      PROVE  DrainTyped(x) /\ x.items = <<>>
  <2>1. x.items = <<>> /\ x.stage # "opening" /\ DOMAIN x = {"by", "stage", "items"}
    BY <1>2
  <2> QED  BY <1>1, <2>1 DEF DrainTyped
<1>3. DrainTyped(NotDraining) /\ NotDraining.items = <<>>
  <2>1. NotDraining = [by |-> 0, stage |-> "none", items |-> <<>>] /\ "none" # "opening"
    BY DEF NotDraining
  <2> QED  BY <1>2, <2>1
<1>4. ASSUME NEW n PROVE DrainTyped(Asked(n)) /\ Asked(n).items = <<>>
  <2>1. Asked(n) = [by |-> n, stage |-> "asked", items |-> <<>>] /\ "asked" # "opening"
    BY DEF Asked
  <2> QED  BY <1>2, <2>1
<1> QED  BY <1>3, <1>4

LEMMA OpenInitOnce == OpenInit => FilesOnce
<1> SUFFICES ASSUME OpenInit PROVE FilesOnce
  OBVIOUS
<1>1. PICK d \in Drain : drains = [c \in Drain |-> IF c = d THEN Asked(1) ELSE NotDraining]
  BY DEF OpenInit
<1>2. \A c \in Drain : drains[c].items = <<>> /\ drains[c].stage # "opening"
  BY <1>1 DEF Asked, NotDraining
<1>3. DrainsTyped
  BY <1>1, IdleDrains DEF DrainsTyped
<1>4. openQueue = <<>> \/ \E p \in Path : openQueue = <<p>>
  BY DEF OpenInit
<1>5. QueueTyped
  <2>1. ASSUME NEW s, s = <<>> \/ \E p \in Path : s = <<p>>
        PROVE  s \in Seq(Path) /\ \A i, j \in DOMAIN s : i = j
    <3>1. CASE s = <<>>
      BY <3>1
    <3>2. CASE \E p \in Path : s = <<p>>
      <4>1. PICK p \in Path : s = <<p>>
        BY <3>2
      <4> QED  BY <4>1
    <3> QED  BY <2>1, <3>1, <3>2
  <2> QED  BY <1>4, <2>1 DEF QueueTyped
<1>6. \A p \in Path : Holds(p) = {}
  BY <1>2 DEF Holds
<1>7. /\ pushed = [p \in Path |-> IF p \in ToSet(openQueue) THEN 1 ELSE 0]
      /\ handled = [p \in Path |-> 0]
  BY DEF OpenInit
<1>8. \A p \in Path : IsFiniteSet(Holds(p)) /\ InHand(p) = 0
  BY <1>6, FS_EmptySet DEF InHand
<1>9. CountsTyped /\ QueuedIsHandledOnce
  BY <1>7, <1>8 DEF CountsTyped, QueuedIsHandledOnce
<1> QED  BY <1>3, <1>5, <1>9 DEF FilesOnce

\* A drain that starts or ends without a file in hand.
LEMMA SameHands ==
  ASSUME FilesOnce, DrainsTyped', \A d \in Drain : drains'[d].items = drains[d].items,
         openQueue' = openQueue, pushed' = pushed, handled' = handled
  PROVE  FilesOnce'
<1>1. ASSUME NEW p \in Path PROVE Holds(p)' = Holds(p)
  BY DEF Holds
<1>2. \A p \in Path : InHand(p)' = InHand(p)
  BY <1>1 DEF InHand
<1>3. CountsTyped'
  BY <1>1 DEF FilesOnce, CountsTyped
<1>4. QueuedIsHandledOnce'
  BY <1>2 DEF FilesOnce, QueuedIsHandledOnce
<1> QED  BY <1>3, <1>4 DEF FilesOnce, QueueTyped

LEMMA QueueKeepsCount ==
  ASSUME FilesOnce, NEW p \in Path, QueueOpen(p)
  PROVE  FilesOnce'
<1>1. /\ drains' = drains \/ \E d \in Drain : drains[d] = NotDraining /\ drains' = [drains EXCEPT ![d] = Asked(0)]
      /\ handled' = handled
      /\ openQueue' = IF p \in ToSet(openQueue) THEN openQueue ELSE Append(openQueue, p)
      /\ pushed' = IF p \in ToSet(openQueue) THEN pushed ELSE [pushed EXCEPT ![p] = @ + 1]
  BY DEF QueueOpen
<1>2. DrainsTyped' /\ \A d \in Drain : drains'[d].items = drains[d].items
  <2>1. CASE drains' = drains
    BY <2>1 DEF FilesOnce, DrainsTyped
  <2>2. ASSUME NEW d \in Drain, drains[d] = NotDraining, drains' = [drains EXCEPT ![d] = Asked(0)]
        PROVE  DrainsTyped' /\ \A c \in Drain : drains'[c].items = drains[c].items
    BY <2>2, IdleDrains DEF FilesOnce, DrainsTyped
  <2> QED  BY <1>1, <2>1, <2>2
<1>3. CASE p \in ToSet(openQueue)
  BY <1>1, <1>2, <1>3, SameHands
<1>4. CASE p \notin ToSet(openQueue)
  <2>1. openQueue \in Seq(Path) /\ openQueue' = Append(openQueue, p)
    BY <1>1, <1>4 DEF FilesOnce, QueueTyped
  <2>2. /\ openQueue' \in Seq(Path) /\ Len(openQueue) + 1 \in DOMAIN openQueue'
        /\ openQueue'[Len(openQueue) + 1] = p
        /\ \A n \in 1..Len(openQueue) : n \in DOMAIN openQueue' /\ openQueue'[n] = openQueue[n]
        /\ \A n \in DOMAIN openQueue' : n \in 1..Len(openQueue) \/ n = Len(openQueue) + 1
    <3>1. ASSUME NEW S, NEW s \in Seq(S), NEW e \in S, NEW z, z = Append(s, e)
          PROVE  /\ z \in Seq(S) /\ Len(s) + 1 \in DOMAIN z /\ z[Len(s) + 1] = e
                 /\ \A n \in 1..Len(s) : n \in DOMAIN z /\ z[n] = s[n]
                 /\ \A n \in DOMAIN z : n \in 1..Len(s) \/ n = Len(s) + 1
      BY <3>1, AppendPlaces
    <3> QED  BY <2>1, <3>1
  <2>3. DOMAIN openQueue = 1..Len(openQueue) /\ ToSet(openQueue) = {openQueue[n] : n \in 1..Len(openQueue)}
    BY <2>1 DEF ToSet
  <2>4. ToSet(openQueue') = ToSet(openQueue) \cup {p}
    <3>1. ToSet(openQueue)' = {openQueue'[n] : n \in DOMAIN openQueue'}
      BY DEF ToSet
    <3>2. ToSet(openQueue') \subseteq ToSet(openQueue) \cup {p}
      BY <2>2, <2>3, <3>1
    <3>3. ToSet(openQueue) \subseteq ToSet(openQueue') /\ p \in ToSet(openQueue')
      BY <2>2, <2>3, <3>1
    <3> QED  BY <3>2, <3>3
  <2>5. QueueTyped'
    <3>1. ASSUME NEW i \in DOMAIN openQueue', NEW j \in DOMAIN openQueue', openQueue'[i] = openQueue'[j]
          PROVE  i = j
      <4>1. \A n \in 1..Len(openQueue) : openQueue'[n] # p
        BY <1>4, <2>2, <2>3
      <4> QED  BY <2>2, <2>3, <3>1, <4>1 DEF FilesOnce, QueueTyped
    <3> QED  BY <2>2, <3>1 DEF QueueTyped
  <2>6. ASSUME NEW q \in Path PROVE Holds(q)' = Holds(q) /\ InHand(q)' = InHand(q)
    <3>1. Holds(q)' = Holds(q)
      BY <1>2 DEF Holds
    <3> QED  BY <3>1 DEF InHand
  <2>7. pushed \in [Path -> Nat] /\ pushed' = [pushed EXCEPT ![p] = @ + 1]
    BY <1>1, <1>4 DEF FilesOnce, CountsTyped
  <2>8. CountsTyped'
    <3>1. pushed' \in [Path -> Nat] /\ handled' \in [Path -> Nat]
      BY <1>1, <2>7 DEF FilesOnce, CountsTyped
    <3> QED  BY <2>6, <3>1 DEF FilesOnce, CountsTyped
  <2>9. ASSUME NEW q \in Path
        PROVE  pushed'[q] = handled'[q] + InHand(q)' + (IF q \in ToSet(openQueue') THEN 1 ELSE 0)
    <3>1. pushed[q] = handled[q] + InHand(q) + (IF q \in ToSet(openQueue) THEN 1 ELSE 0)
      BY DEF FilesOnce, QueuedIsHandledOnce
    <3>2. pushed[q] \in Nat /\ handled[q] \in Nat /\ InHand(q) \in Nat
      BY FS_CardinalityType DEF FilesOnce, CountsTyped, InHand
    <3>3. InHand(q)' = InHand(q) /\ handled'[q] = handled[q]
      BY <1>1, <2>6
    <3>4. CASE q = p
      BY <1>4, <2>4, <2>7, <3>1, <3>2, <3>3, <3>4
    <3>5. CASE q # p
      BY <2>4, <2>7, <3>1, <3>2, <3>3, <3>5
    <3> QED  BY <3>4, <3>5
  <2> QED  BY <1>2, <2>5, <2>8, <2>9 DEF FilesOnce, QueuedIsHandledOnce
<1> QED  BY <1>3, <1>4

LEMMA TakeKeepsCount ==
  ASSUME FilesOnce, NEW d \in Drain, Take(d)
  PROVE  FilesOnce'
<1>1. drains[d].stage = "asked" /\ openQueue' = <<>> /\ pushed' = pushed /\ handled' = handled
  BY DEF Take
<1>2. drains[d].items = <<>> /\ DOMAIN drains = Drain
  BY <1>1 DEF FilesOnce, DrainsTyped, DrainTyped
<1>3. openQueue \in Seq(Path) /\ \A i, j \in DOMAIN openQueue : openQueue[i] = openQueue[j] => i = j
  BY DEF FilesOnce, QueueTyped
<1>4. /\ drains'[d].items = openQueue /\ DrainTyped(drains'[d]) /\ DOMAIN drains' = Drain
      /\ \A c \in Drain \ {d} : drains'[c] = drains[c]
  <2>1. CASE openQueue = <<>>
    <3>1. drains' = [drains EXCEPT ![d] = NotDraining]
      BY <2>1 DEF Take
    <3> QED  BY <1>2, <2>1, <3>1, IdleDrains
  <2>2. CASE openQueue # <<>>
    <3> DEFINE x == [drains[d] EXCEPT !.stage = "opening", !.items = openQueue]
    <3>1. drains' = [drains EXCEPT ![d] = x]
      BY <2>2 DEF Take
    <3>2. DrainTyped(drains[d])
      BY DEF FilesOnce, DrainsTyped
    <3>3. x.items = openQueue /\ x.stage = "opening" /\ DOMAIN x = {"by", "stage", "items"}
      BY <3>2 DEF DrainTyped
    <3>4. DrainTyped(x)
      BY <1>3, <2>2, <3>3 DEF DrainTyped
    <3> HIDE DEF x
    <3> QED  BY <1>2, <3>1, <3>3, <3>4
  <2> QED  BY <2>1, <2>2
<1>5. DrainsTyped'
  BY <1>4 DEF FilesOnce, DrainsTyped
<1>6. QueueTyped'
  BY <1>1 DEF QueueTyped
<1>7. ASSUME NEW q \in Path
      PROVE  /\ IsFiniteSet(Holds(q)')
             /\ InHand(q)' = InHand(q) + (IF q \in ToSet(openQueue) THEN 1 ELSE 0)
  <2>1. IsFiniteSet(Holds(q)) /\ InHand(q) \in Nat
    BY FS_CardinalityType DEF FilesOnce, CountsTyped, InHand
  <2>2. ASSUME NEW x
        PROVE  x \in Holds(q)' <=> x \in Holds(q) \/ \E i \in DOMAIN openQueue : openQueue[i] = q /\ x = <<d, i>>
    BY <1>2, <1>4 DEF Holds
  <2>3. CASE q \notin ToSet(openQueue)
    <3>1. \A i \in DOMAIN openQueue : openQueue[i] # q
      BY <2>3 DEF ToSet
    <3>2. Holds(q)' = Holds(q)
      BY <2>2, <3>1
    <3> QED  BY <2>1, <2>3, <3>2 DEF InHand
  <2>4. CASE q \in ToSet(openQueue)
    <3>1. PICK i \in DOMAIN openQueue : openQueue[i] = q
      BY <2>4 DEF ToSet
    <3>2. \A j \in DOMAIN openQueue : openQueue[j] = q => j = i
      BY <1>3, <3>1
    <3>3. Holds(q)' = Holds(q) \cup {<<d, i>>}
      BY <2>2, <3>1, <3>2
    <3>4. <<d, i>> \notin Holds(q)
      BY <1>2 DEF Holds
    <3>5. IsFiniteSet(Holds(q)') /\ Cardinality(Holds(q)') = Cardinality(Holds(q)) + 1
      BY <2>1, <3>3, <3>4, FS_AddElement
    <3> QED  BY <2>4, <3>5 DEF InHand
  <2> QED  BY <2>3, <2>4
<1>8. CountsTyped'
  BY <1>1, <1>7 DEF FilesOnce, CountsTyped
<1>9. ASSUME NEW q \in Path
      PROVE  pushed'[q] = handled'[q] + InHand(q)' + (IF q \in ToSet(openQueue') THEN 1 ELSE 0)
  <2>1. pushed[q] = handled[q] + InHand(q) + (IF q \in ToSet(openQueue) THEN 1 ELSE 0)
    BY DEF FilesOnce, QueuedIsHandledOnce
  <2>2. handled[q] \in Nat /\ InHand(q) \in Nat
    BY FS_CardinalityType DEF FilesOnce, CountsTyped, InHand
  <2>3. q \notin ToSet(openQueue')
    BY <1>1 DEF ToSet
  <2> QED  BY <1>1, <1>7, <2>1, <2>2, <2>3
<1> QED  BY <1>5, <1>6, <1>8, <1>9 DEF FilesOnce, QueuedIsHandledOnce

LEMMA OpenKeepsCount ==
  ASSUME FilesOnce, NEW d \in Drain, NEW ok \in BOOLEAN, OpenNext(d, ok)
  PROVE  FilesOnce'
<1> DEFINE items == drains[d].items
           p == Head(items)
<1>1. /\ drains[d].stage = "opening" /\ handled' = [handled EXCEPT ![p] = @ + 1]
      /\ openQueue' = openQueue /\ pushed' = pushed
      /\ drains' = IF Tail(items) = <<>> THEN [drains EXCEPT ![d] = NotDraining]
                   ELSE [drains EXCEPT ![d].items = Tail(items)]
  BY DEF OpenNext
<1>2. items \in Seq(Path) /\ items # <<>> /\ DOMAIN drains = Drain
  BY <1>1 DEF FilesOnce, DrainsTyped, DrainTyped
<1>3. ASSUME NEW S, NEW s \in Seq(S), s # <<>>
      PROVE  /\ Head(s) \in S /\ Head(s) = s[1] /\ Tail(s) \in Seq(S) /\ 1 \in DOMAIN s
             /\ \A i \in DOMAIN Tail(s) : i \in Nat \ {0} /\ i + 1 \in DOMAIN s /\ Tail(s)[i] = s[i + 1]
             /\ \A i \in DOMAIN s : i \in Nat \ {0} /\ (i # 1 => i - 1 \in DOMAIN Tail(s))
  BY <1>3
<1>4. /\ p \in Path /\ p = items[1] /\ Tail(items) \in Seq(Path) /\ 1 \in DOMAIN items
      /\ \A i \in DOMAIN Tail(items) : i \in Nat \ {0} /\ i + 1 \in DOMAIN items /\ Tail(items)[i] = items[i + 1]
      /\ \A i \in DOMAIN items : i \in Nat \ {0} /\ (i # 1 => i - 1 \in DOMAIN Tail(items))
  BY <1>2, <1>3
<1>5. /\ drains'[d].items = Tail(items) /\ DrainTyped(drains'[d]) /\ DOMAIN drains' = Drain
      /\ \A c \in Drain \ {d} : drains'[c] = drains[c]
  <2>1. CASE Tail(items) = <<>>
    <3>1. drains' = [drains EXCEPT ![d] = NotDraining]
      BY <1>1, <2>1
    <3> QED  BY <1>2, <2>1, <3>1, IdleDrains
  <2>2. CASE Tail(items) # <<>>
    <3> DEFINE x == [drains[d] EXCEPT !.items = Tail(items)]
    <3>1. drains' = [drains EXCEPT ![d] = x]
      BY <1>1, <2>2
    <3>2. DrainTyped(drains[d])
      BY DEF FilesOnce, DrainsTyped
    <3>3. x.items = Tail(items) /\ x.stage = "opening" /\ DOMAIN x = {"by", "stage", "items"}
      BY <1>1, <3>2 DEF DrainTyped
    <3>4. DrainTyped(x)
      BY <1>4, <2>2, <3>3 DEF DrainTyped
    <3> HIDE DEF x
    <3> QED  BY <1>2, <3>1, <3>3, <3>4
  <2> QED  BY <2>1, <2>2
<1>6. DrainsTyped'
  BY <1>5 DEF FilesOnce, DrainsTyped
<1> HIDE DEF items, p
<1>7. ASSUME NEW q \in Path
      PROVE  /\ IsFiniteSet(Holds(q)')
             /\ InHand(q) = InHand(q)' + (IF q = p THEN 1 ELSE 0)
             /\ InHand(q)' \in Nat
  <2> DEFINE kept == Holds(q) \ {<<d, 1>>}
             moved(x) == IF x[1] = d THEN <<d, x[2] - 1>> ELSE x
             move == [x \in kept |-> moved(x)]
  <2>1. IsFiniteSet(Holds(q)) /\ InHand(q) \in Nat
    BY FS_CardinalityType DEF FilesOnce, CountsTyped, InHand
  <2>2. \A x : x \in Holds(q) <=> \E c \in Drain : \E i \in DOMAIN drains[c].items :
                                    drains[c].items[i] = q /\ x = <<c, i>>
    BY HoldsAt
  <2>3. \A x : x \in Holds(q)' <=> \E c \in Drain : \E i \in DOMAIN drains'[c].items :
                                     drains'[c].items[i] = q /\ x = <<c, i>>
    BY DEF Holds
  <2>4. <<d, 1>> \in Holds(q) <=> q = p
    BY <1>4, <2>2 DEF items
  <2>5. ASSUME NEW x \in kept PROVE moved(x) \in Holds(q)'
    <3>11. PICK c \in Drain : \E i \in DOMAIN drains[c].items : drains[c].items[i] = q /\ x = <<c, i>>
      BY <2>2, <2>5
    <3>1. PICK i \in DOMAIN drains[c].items : drains[c].items[i] = q /\ x = <<c, i>>
      BY <3>11
    <3>2. CASE c = d
      <4>1. i \in DOMAIN items /\ i # 1 /\ items[i] = q
        BY <2>5, <3>1, <3>2 DEF items
      <4>2. i - 1 \in DOMAIN Tail(items) /\ i \in Nat
        BY <1>4, <4>1
      <4>3. Tail(items)[i - 1] = items[(i - 1) + 1] /\ (i - 1) + 1 = i
        BY <1>4, <4>2
      <4>4. moved(x) = <<d, i - 1>>
        BY <3>1, <3>2
      <4> QED  BY <1>5, <2>3, <4>1, <4>2, <4>3, <4>4
    <3>3. CASE c # d
      BY <1>5, <2>3, <3>1, <3>3
    <3> QED  BY <3>2, <3>3
  <2>6. ASSUME NEW y \in Holds(q)' PROVE \E x \in kept : moved(x) = y
    <3>11. PICK c \in Drain : \E i \in DOMAIN drains'[c].items : drains'[c].items[i] = q /\ y = <<c, i>>
      BY <2>3, <2>6
    <3>1. PICK i \in DOMAIN drains'[c].items : drains'[c].items[i] = q /\ y = <<c, i>>
      BY <3>11
    <3>2. CASE c = d
      <4>1. i \in DOMAIN Tail(items) /\ Tail(items)[i] = q
        BY <1>5, <3>1, <3>2
      <4>2. i \in Nat \ {0} /\ i + 1 \in DOMAIN items /\ items[i + 1] = q
        BY <1>4, <4>1
      <4>3. <<d, i + 1>> \in Holds(q) /\ <<d, i + 1>> # <<d, 1>>
        BY <2>2, <4>2 DEF items
      <4>4. moved(<<d, i + 1>>) = <<d, i>>
        BY <4>2
      <4> QED  BY <3>1, <3>2, <4>3, <4>4
    <3>3. CASE c # d
      <4>1. y \in kept /\ moved(y) = y
        BY <1>5, <2>2, <3>1, <3>3
      <4> QED  BY <4>1
    <3> QED  BY <3>2, <3>3
  <2>7. ASSUME NEW x \in kept, NEW y \in kept, moved(x) = moved(y) PROVE x = y
    <3>11. PICK c \in Drain : \E i \in DOMAIN drains[c].items : x = <<c, i>>
      BY <2>2
    <3>1. PICK i \in DOMAIN drains[c].items : x = <<c, i>>
      BY <3>11
    <3>12. PICK b \in Drain : \E j \in DOMAIN drains[b].items : y = <<b, j>>
      BY <2>2
    <3>2. PICK j \in DOMAIN drains[b].items : y = <<b, j>>
      BY <3>12
    <3>3. c = d => i \in Nat
      BY <1>4, <3>1 DEF items
    <3>4. b = d => j \in Nat
      BY <1>4, <3>2 DEF items
    <3> QED  BY <2>7, <3>1, <3>2, <3>3, <3>4
  <2>8. move \in Surjection(kept, Holds(q)') /\ move \in Injection(kept, Holds(q)')
    <3>1. move \in [kept -> Holds(q)']
      BY <2>5
    <3>2. move \in Surjection(kept, Holds(q)')
      BY <2>6, <3>1 DEF Surjection
    <3>3. \A x, y \in kept : move[x] = move[y] => x = y
      BY <2>7
    <3> QED  BY <3>1, <3>2, <3>3 DEF Injection, IsInjective
  <2>9. IsFiniteSet(kept) /\ Cardinality(kept) = InHand(q) - (IF q = p THEN 1 ELSE 0)
    <3>1. Cardinality(kept) = IF <<d, 1>> \in Holds(q) THEN Cardinality(Holds(q)) - 1 ELSE Cardinality(Holds(q))
      BY <2>1, FS_RemoveElement
    <3>2. IsFiniteSet(kept)
      BY <2>1, FS_RemoveElement
    <3> QED  BY <2>1, <2>4, <3>1, <3>2 DEF InHand
  <2> HIDE DEF kept, move
  <2>10. IsFiniteSet(Holds(q)') /\ Cardinality(Holds(q)') = Cardinality(kept)
    BY <2>8, <2>9, FS_Surjection
  <2>11. InHand(q)' = Cardinality(kept) /\ InHand(q)' \in Nat
    BY <2>10, FS_CardinalityType DEF InHand
  <2> QED  BY <2>1, <2>9, <2>10, <2>11
<1>8. handled \in [Path -> Nat] /\ pushed \in [Path -> Nat]
  BY DEF FilesOnce, CountsTyped
<1>9. CountsTyped'
  <2>1. handled' \in [Path -> Nat]
    BY <1>1, <1>4, <1>8
  <2> QED  BY <1>1, <1>7, <1>8, <2>1 DEF CountsTyped
<1>10. ASSUME NEW q \in Path
       PROVE  pushed'[q] = handled'[q] + InHand(q)' + (IF q \in ToSet(openQueue') THEN 1 ELSE 0)
  <2>1. pushed[q] = handled[q] + InHand(q) + (IF q \in ToSet(openQueue) THEN 1 ELSE 0)
    BY DEF FilesOnce, QueuedIsHandledOnce
  <2>2. handled'[q] = handled[q] + (IF q = p THEN 1 ELSE 0)
    BY <1>1, <1>4, <1>8
  <2>3. handled[q] \in Nat /\ InHand(q)' \in Nat /\ InHand(q) = InHand(q)' + (IF q = p THEN 1 ELSE 0)
    BY <1>7, <1>8
  <2>4. CASE q = p
    BY <1>1, <2>1, <2>2, <2>3, <2>4
  <2>5. CASE q # p
    BY <1>1, <2>1, <2>2, <2>3, <2>5
  <2> QED  BY <2>4, <2>5
<1>11. QueueTyped'
  BY <1>1 DEF FilesOnce, QueueTyped
<1> QED  BY <1>6, <1>9, <1>10, <1>11 DEF FilesOnce, QueuedIsHandledOnce

LEMMA OpenStep == FilesOnce /\ [OpenNextState]_openVars => FilesOnce'
<1> SUFFICES ASSUME FilesOnce, [OpenNextState]_openVars PROVE FilesOnce'
  OBVIOUS
<1>1. ASSUME NEW p \in Path, QueueOpen(p) PROVE FilesOnce'
  BY <1>1, QueueKeepsCount
<1>2. ASSUME NEW d \in Drain, Take(d) PROVE FilesOnce'
  BY <1>2, TakeKeepsCount
<1>3. ASSUME NEW d \in Drain, OpenOne(d) PROVE FilesOnce'
  BY <1>3, OpenKeepsCount DEF OpenOne
<1>4. ASSUME Rerun PROVE FilesOnce'
  <2>1. PICK d \in Drain : drains[d] = NotDraining /\ drains' = [drains EXCEPT ![d] = Asked(Len(effects'))]
    BY <1>4 DEF Rerun
  <2>2. DrainsTyped' /\ \A c \in Drain : drains'[c].items = drains[c].items
    BY <2>1, IdleDrains DEF FilesOnce, DrainsTyped
  <2> QED  BY <1>4, <2>2, SameHands DEF Rerun
<1>5. ASSUME Subscribed \/ Dismiss \/ SwitchWorkspace \/ UNCHANGED openVars PROVE FilesOnce'
  <2>1. drains' = drains /\ openQueue' = openQueue /\ pushed' = pushed /\ handled' = handled
    BY <1>5 DEF Subscribed, Dismiss, SwitchWorkspace, openVars
  <2>2. DrainsTyped'
    BY <2>1 DEF FilesOnce, DrainsTyped
  <2> QED  BY <2>1, <2>2, SameHands
<1> QED  BY <1>1, <1>2, <1>3, <1>4, <1>5 DEF OpenNextState

\* A file that was queued is waiting, in the hands of one drain, or was handled, whatever
\* drains run at a time and however often the effect runs.
THEOREM FilesSplitAmongDrains == OpenSpec => []QueuedIsHandledOnce
<1>1. FilesOnce => QueuedIsHandledOnce
  BY DEF FilesOnce
<1> QED  BY <1>1, OpenInitOnce, OpenStep, PTL DEF OpenSpec
-----------------------------------------------------------------------------
(* The calendar.                                                           *)

\* A day's slots come before the next day's.
LEMMA DaysInOrder ==
  ASSUME NEW d \in Int, NEW e \in Int, d < e
  PROVE  d * SlotsPerDay + SlotsPerDay <= e * SlotsPerDay
<1>1. SlotsPerDay \in Nat /\ SlotsPerDay > 0
  BY RecurrenceAssumption
<1>2. \A S \in Nat : S > 0 => d * S + S <= e * S
  <2>1. SUFFICES ASSUME NEW S \in Nat, S > 0 PROVE d * S + S <= e * S
    OBVIOUS
  <2>2. PICK k \in Nat : e = d + 1 + k
    <3>1. e - d - 1 \in Nat /\ e = d + 1 + (e - d - 1)
      OBVIOUS
    <3>2. QED
      BY <3>1
  <2>3. e * S = d * S + S + k * S /\ k * S \in Nat /\ d * S \in Int
    BY <2>2
  <2>4. QED
    BY <2>3
<1>3. QED
  BY <1>1, <1>2

\* The day of a reading.
LEMMA DayOfReading ==
  ASSUME NEW x \in Nat
  PROVE  /\ x \div SlotsPerDay \in Nat
         /\ (x \div SlotsPerDay) * SlotsPerDay <= x
         /\ x < (x \div SlotsPerDay) * SlotsPerDay + SlotsPerDay
<1>1. \A S \in Nat : S > 0 => /\ x \div S \in Nat
                              /\ (x \div S) * S <= x
                              /\ x < (x \div S) * S + S
  OBVIOUS
<1>2. QED
  BY <1>1, RecurrenceAssumption

\* The parts of a clock.
LEMMA ClockParts ==
  ASSUME zone \in Zones
  PROVE  /\ zone.jump \in Nat /\ zone.jump > 0
         /\ zone.before \in Nat /\ zone.before <= SlotsPerDay
         /\ zone.after \in Nat /\ zone.after <= SlotsPerDay
         /\ zone.after - zone.before < GapLimit /\ zone.before <= zone.jump + zone.after
         /\ GapLimit \in Nat /\ GapLimit <= SlotsPerDay /\ GapLimit > 0
         /\ SlotsPerDay \in Nat /\ SlotsPerDay > 0
  BY ZonesAssumption, RecurrenceAssumption

\* The instants with a reading: none before the clock's first reading or in a gap.
LEMMA NamedInstants ==
  ASSUME zone \in Zones, NEW T \in Nat
  PROVE  /\ T < zone.before => Named(T) = {}
         /\ zone.before <= T /\ T < zone.before + zone.jump =>
              T - zone.before \in Named(T) /\ \A i \in Named(T) : i \in Nat /\ T - zone.before <= i
         /\ zone.before + zone.jump <= T /\ T < zone.after + zone.jump => Named(T) = {}
         /\ zone.before + zone.jump <= T /\ zone.after + zone.jump <= T =>
              Named(T) = {T - zone.after}
<1> DEFINE j == zone.jump
           b == zone.before
           c == zone.after
<1>1. j \in Nat /\ j > 0 /\ b \in Nat /\ c \in Nat /\ b <= j + c
  BY ClockParts
<1>2. Named(T) = {i \in {T - b, T - c} : i >= 0 /\ i + (IF i < j THEN b ELSE c) = T}
  BY DEF Named, Reading
<1> HIDE DEF j, b, c
<1>3. /\ T < b => Named(T) = {}
      /\ b <= T /\ T < b + j =>
           T - b \in Named(T) /\ \A i \in Named(T) : i \in Nat /\ T - b <= i
      /\ b + j <= T /\ T < c + j => Named(T) = {}
      /\ b + j <= T /\ c + j <= T => Named(T) = {T - c}
  BY <1>1, <1>2
<1>4. QED
  BY <1>3 DEF j, b, c

\* The least of a set of instants is its earliest.
LEMMA EarliestIsLeast ==
  ASSUME NEW instants, NEW i \in instants, i \in Int,
         \A k \in instants : k \in Int /\ i <= k
  PROVE  Earliest(instants) = i
<1>1. Earliest(instants) \in instants /\ \A k \in instants : Earliest(instants) <= k
  <2>1. \E e \in instants : \A k \in instants : e <= k
    OBVIOUS
  <2>2. QED
    BY <2>1 DEF Earliest
<1>2. Earliest(instants) \in Int /\ Earliest(instants) <= i /\ i <= Earliest(instants)
  BY <1>1
<1>3. QED
  BY <1>2

\* The furthest a clock has been never goes back.
LEMMA ShownGrows ==
  ASSUME zone \in Zones, NEW i \in Nat, NEW k \in Nat, i <= k
  PROVE  Shown(i) \in Nat /\ Shown(i) <= Shown(k) /\ zone.before <= Shown(i)
  BY ClockParts DEF Shown, Reading

\* What local_at answers for a time of some day: nothing later than the clock's first
\* instant if the time was over by then, else the instant the clock first shows it or
\* jumps over it.
LEMMA LocalAtIsFirstShown ==
  ASSUME zone \in Zones, NEW day \in Int, NEW slot \in Nat,
         day * SlotsPerDay + slot \in Nat
  PROVE  LET T == day * SlotsPerDay + slot
             at == LocalAt(day, slot)
         IN  /\ T <= zone.before => at \in {-1, 0}
             /\ T > zone.before =>
                  /\ at \in Nat /\ at >= 1
                  /\ Shown(at - 1) < T /\ T <= Shown(at) /\ Shown(at) < T + SlotsPerDay
<1> DEFINE T == day * SlotsPerDay + slot
           exists == {extra \in 0..(GapLimit - 1) : Named(T + extra) # {}}
           at == LocalAt(day, slot)
<1>1. /\ zone.jump \in Nat /\ zone.jump > 0
      /\ zone.before \in Nat /\ zone.before <= SlotsPerDay
      /\ zone.after \in Nat /\ zone.after <= SlotsPerDay
      /\ zone.after - zone.before < GapLimit /\ zone.before <= zone.jump + zone.after
      /\ GapLimit \in Nat /\ GapLimit <= SlotsPerDay /\ GapLimit > 0
      /\ SlotsPerDay \in Nat /\ SlotsPerDay > 0
  BY ClockParts
<1>2. at = IF exists = {} THEN -1 ELSE Earliest(Named(T + Earliest(exists)))
  BY DEF LocalAt, NoOccurrence
<1>3. T \in Nat
  OBVIOUS
<1> HIDE DEF T, at
\* A time that exists is its own instant.
<1>4. ASSUME Named(T) # {} PROVE at = Earliest(Named(T))
  <2>1. 0 \in exists /\ T + 0 = T
    BY <1>1, <1>3, <1>4
  <2>2. Earliest(exists) = 0
    <3>1. \A k \in exists : k \in Int /\ 0 <= k
      OBVIOUS
    <3> HIDE DEF exists
    <3>2. QED
      BY <2>1, <3>1, EarliestIsLeast
  <2>3. QED
    BY <1>2, <2>1, <2>2
\* Otherwise the walk ends at the first time that does, if within the limit.
<1>5. ASSUME NEW e \in 0..(GapLimit - 1), NEW i \in Nat,
             i \in Named(T + e), \A k \in Named(T + e) : k \in Nat /\ i <= k,
             \A x \in 0..(e - 1) : Named(T + x) = {}
      PROVE  at = i
  <2>1. e \in exists /\ exists # {}
    BY <1>5
  <2>2. \A x \in exists : x \in Int /\ e <= x
    BY <1>1, <1>5
  <2>3. e \in Int
    BY <1>1
  <2> HIDE DEF exists
  <2>4. Earliest(exists) = e
    BY <2>1, <2>2, <2>3, EarliestIsLeast
  <2>5. Earliest(Named(T + e)) = i
    <3> DEFINE instants == Named(T + e)
    <3>1. i \in Int /\ i \in instants /\ \A k \in instants : k \in Int /\ i <= k
      BY <1>5
    <3> HIDE DEF instants
    <3>2. Earliest(instants) = i
      BY <3>1, EarliestIsLeast
    <3>3. QED
      BY <3>2 DEF instants
  <2>6. QED
    BY <1>2, <2>1, <2>4, <2>5
<1> HIDE DEF exists
<1>6. CASE T < zone.before
  <2> DEFINE e == zone.before - T
  <2>1. e \in Nat /\ T + e = zone.before /\ T + e \in Nat
    BY <1>1, <1>3, <1>6
  <2>2. \A x \in 0..(e - 1) : Named(T + x) = {}
    <3>1. SUFFICES ASSUME NEW x \in 0..(e - 1) PROVE Named(T + x) = {}
      OBVIOUS
    <3>2. T + x \in Nat /\ T + x < zone.before
      BY <1>1, <1>3, <2>1
    <3>3. QED
      BY <3>2, NamedInstants
  <2>3. 0 \in Named(T + e) /\ \A k \in Named(T + e) : k \in Nat /\ 0 <= k
    <3>1. T + e \in Nat /\ zone.before <= T + e /\ T + e < zone.before + zone.jump
          /\ T + e - zone.before = 0
      BY <1>1, <1>3, <2>1
    <3>2. T + e \in Nat
      BY <2>1
    <3> DEFINE u == T + e
    <3>3. u \in Nat /\ zone.before <= u /\ u < zone.before + zone.jump /\ u - zone.before = 0
      BY <1>1, <2>1, <3>1, <3>2
    <3> HIDE DEF u
    <3>4. u - zone.before \in Named(u)
          /\ \A k \in Named(u) : k \in Nat /\ u - zone.before <= k
      BY <3>3, NamedInstants
    <3>5. 0 \in Named(u) /\ \A k \in Named(u) : k \in Nat /\ 0 <= k
      BY <3>3, <3>4
    <3>6. QED
      BY <3>5 DEF u
  <2> HIDE DEF e
  <2>4. CASE e < GapLimit
    <3>1. e \in 0..(GapLimit - 1)
      BY <1>1, <2>1, <2>4
    <3>2. at = 0
      BY <1>5, <2>2, <2>3, <3>1
    <3>3. QED
      BY <3>2, <1>6, <1>1, <1>3 DEF T, at
  <2>5. CASE e >= GapLimit
    <3>1. \A x \in 0..(GapLimit - 1) : x \in 0..(e - 1)
      BY <1>1, <2>1, <2>5
    <3>2. exists = {}
      BY <2>2, <3>1 DEF exists
    <3>3. at = -1
      BY <1>2, <3>2
    <3>4. QED
      BY <3>3, <1>6, <1>1, <1>3 DEF T, at
  <2>6. QED
    BY <1>1, <2>1, <2>4, <2>5
<1>7. CASE zone.before <= T /\ T < zone.before + zone.jump
  <2>1. T - zone.before \in Named(T) /\ \A i \in Named(T) : i \in Nat /\ T - zone.before <= i
    BY <1>3, <1>7, NamedInstants
  <2>2. T - zone.before \in Nat
    BY <1>1, <1>3, <1>7
  <2>3. at = T - zone.before
    <3>1. Earliest(Named(T)) = T - zone.before
      BY <2>1, <2>2, EarliestIsLeast
    <3>2. QED
      BY <1>4, <2>1, <3>1
  <2>4. T > zone.before => /\ at \in Nat /\ at >= 1
                           /\ Shown(at - 1) < T /\ T <= Shown(at) /\ Shown(at) < T + SlotsPerDay
    BY <1>1, <1>3, <1>7, <2>3 DEF Shown, Reading
  <2>5. T <= zone.before => at = 0
    BY <1>1, <1>3, <1>7, <2>3
  <2>6. QED
    BY <2>4, <2>5 DEF T, at
<1>8. CASE zone.before + zone.jump <= T /\ zone.after + zone.jump <= T
  <2>1. Named(T) = {T - zone.after}
    BY <1>3, <1>8, NamedInstants
  <2>2. T - zone.after \in Nat
    BY <1>1, <1>3, <1>8
  <2>3. at = T - zone.after
    <3>1. Earliest(Named(T)) = T - zone.after
      <4> DEFINE i == T - zone.after
      <4>1. i \in Int /\ i \in Named(T) /\ \A k \in Named(T) : k \in Int /\ i <= k
        BY <2>1, <2>2
      <4> HIDE DEF i
      <4>2. Earliest(Named(T)) = i
        BY <4>1, EarliestIsLeast
      <4>3. QED
        BY <4>2 DEF i
    <3>2. QED
      BY <1>4, <2>1, <3>1
  <2>4. /\ T > zone.before /\ at \in Nat /\ at >= 1
        /\ Shown(at - 1) < T /\ T <= Shown(at) /\ Shown(at) < T + SlotsPerDay
    BY <1>1, <1>3, <1>8, <2>3 DEF Shown, Reading
  <2>5. QED
    BY <1>1, <1>3, <2>4 DEF T, at
<1>9. CASE zone.before + zone.jump <= T /\ T < zone.after + zone.jump
  <2> DEFINE e == zone.after + zone.jump - T
  <2>1. e \in 0..(GapLimit - 1) /\ T + e \in Nat /\ T + e = zone.after + zone.jump
    BY <1>1, <1>3, <1>9
  <2>2. \A x \in 0..(e - 1) : Named(T + x) = {}
    <3>1. SUFFICES ASSUME NEW x \in 0..(e - 1) PROVE Named(T + x) = {}
      OBVIOUS
    <3>2. T + x \in Nat /\ zone.before + zone.jump <= T + x /\ T + x < zone.after + zone.jump
      BY <1>1, <1>3, <1>9
    <3>3. QED
      BY <3>2, NamedInstants
  <2>3. Named(T + e) = {zone.jump}
    <3>1. zone.before + zone.jump <= T + e /\ zone.after + zone.jump <= T + e
          /\ T + e - zone.after = zone.jump
      BY <1>1, <1>3, <1>9
    <3>2. T + e \in Nat
      BY <2>1
    <3> DEFINE u == T + e
    <3>3. /\ u \in Nat /\ u - zone.after = zone.jump
          /\ zone.before + zone.jump <= u /\ zone.after + zone.jump <= u
      BY <1>1, <2>1, <3>1, <3>2
    <3> HIDE DEF u
    <3>4. Named(u) = {u - zone.after}
      BY <3>3, NamedInstants
    <3>5. QED
      BY <3>3, <3>4 DEF u
  <2> HIDE DEF e
  <2>4. at = zone.jump
    <3>1. zone.jump \in Named(T + e) /\ \A k \in Named(T + e) : k \in Nat /\ zone.jump <= k
      BY <1>1, <2>3
    <3>2. zone.jump \in Nat
      BY <1>1
    <3>3. QED
      BY <1>5, <2>1, <2>2, <3>1, <3>2
  <2>5. /\ T > zone.before /\ at \in Nat /\ at >= 1
        /\ Shown(at - 1) < T /\ T <= Shown(at) /\ Shown(at) < T + SlotsPerDay
    BY <1>1, <1>3, <1>9, <2>4 DEF Shown, Reading
  <2>6. QED
    BY <1>1, <1>3, <2>5 DEF T, at
<1>10. QED
  BY <1>1, <1>3, <1>6, <1>7, <1>8, <1>9

-----------------------------------------------------------------------------
\* A time lies on the day whose slots surround it.
LEMMA DayIs ==
  ASSUME NEW x \in Nat, NEW d \in Int,
         d * SlotsPerDay <= x, x < d * SlotsPerDay + SlotsPerDay
  PROVE  x \div SlotsPerDay = d
<1> DEFINE q == x \div SlotsPerDay
<1>1. q \in Nat /\ q * SlotsPerDay <= x /\ x < q * SlotsPerDay + SlotsPerDay
  BY DayOfReading
<1>2. SlotsPerDay \in Nat
  BY RecurrenceAssumption
<1> HIDE DEF q
<1>3. d * SlotsPerDay \in Int /\ q * SlotsPerDay \in Int
  BY <1>1, <1>2
<1>4. ~(d < q)
  <2>1. d < q => d * SlotsPerDay + SlotsPerDay <= q * SlotsPerDay
    BY <1>1, DaysInOrder
  <2>2. QED
    BY <1>1, <1>2, <1>3, <2>1
<1>5. ~(q < d)
  <2>1. q < d => q * SlotsPerDay + SlotsPerDay <= d * SlotsPerDay
    BY <1>1, DaysInOrder
  <2>2. QED
    BY <1>1, <1>2, <1>3, <2>1
<1>6. q = d
  BY <1>1, <1>4, <1>5
<1>7. QED
  BY <1>6 DEF q

\* Later readings are on later days or the same one.
LEMMA DaysGrow ==
  ASSUME NEW x \in Nat, NEW y \in Nat, x <= y
  PROVE  x \div SlotsPerDay <= y \div SlotsPerDay
<1> DEFINE p == x \div SlotsPerDay
           q == y \div SlotsPerDay
<1>1. /\ p \in Nat /\ p * SlotsPerDay <= x
      /\ q \in Nat /\ y < q * SlotsPerDay + SlotsPerDay
  BY DayOfReading
<1>2. SlotsPerDay \in Nat
  BY RecurrenceAssumption
<1> HIDE DEF p, q
<1>3. q < p => q * SlotsPerDay + SlotsPerDay <= p * SlotsPerDay
  BY <1>1, DaysInOrder
<1>4. q * SlotsPerDay \in Int /\ p * SlotsPerDay \in Int
  BY <1>1, <1>2
<1>5. p <= q
  BY <1>1, <1>2, <1>3, <1>4
<1>6. QED
  BY <1>5 DEF p, q

\* While no date is shown twice, an instant's date is that of the furthest reading.
LEMMA TodayIsShown ==
  ASSUME zone \in Zones, DatesAdvance, NEW i \in Nat
  PROVE  Today(i) = Shown(i) \div SlotsPerDay
<1>1. zone.jump \in Nat /\ zone.jump > 0 /\ zone.before \in Nat /\ zone.after \in Nat
  BY ClockParts
<1>2. CASE Shown(i) = Reading(i)
  BY <1>2 DEF Today
<1>3. CASE Shown(i) # Reading(i)
  <2> DEFINE last == Reading(zone.jump - 1)
  <2>1. /\ last \in Nat /\ Reading(i) \in Nat /\ Reading(zone.jump) \in Nat
        /\ Shown(i) = last /\ Reading(zone.jump) <= Reading(i) /\ Reading(i) <= last
    BY <1>1, <1>3 DEF Shown, Reading
  <2> HIDE DEF last
  <2>2. Reading(zone.jump) \div SlotsPerDay <= Reading(i) \div SlotsPerDay
    BY <2>1, DaysGrow
  <2>3. Reading(i) \div SlotsPerDay <= last \div SlotsPerDay
    BY <2>1, DaysGrow
  <2>4. last \div SlotsPerDay <= Reading(zone.jump) \div SlotsPerDay
    BY DEF DatesAdvance, Today, last
  <2>5. /\ Reading(zone.jump) \div SlotsPerDay \in Nat
        /\ Reading(i) \div SlotsPerDay \in Nat
        /\ last \div SlotsPerDay \in Nat
    BY <2>1, DayOfReading
  <2>6. Reading(i) \div SlotsPerDay = last \div SlotsPerDay
    BY <2>2, <2>3, <2>4, <2>5
  <2>7. QED
    BY <2>1, <2>6 DEF Today
<1>4. QED
  BY <1>2, <1>3

\* A recurrence's time is a slot of a day.
LEMMA SlotOfDay ==
  ASSUME NEW r \in Recurrences, NEW d \in Nat
  PROVE  /\ r.slot \in Nat /\ r.slot < SlotsPerDay /\ r.day \in Nat /\ r.kind \in Kind
         /\ SlotsPerDay \in Nat
         /\ d * SlotsPerDay \in Nat /\ d * SlotsPerDay + r.slot \in Nat
<1>1. SlotsPerDay \in Nat
  BY RecurrenceAssumption
<1>2. r.slot \in Nat /\ r.slot < SlotsPerDay /\ r.day \in Nat /\ r.kind \in Kind
  BY <1>1, RecurrencesAreValid
<1>3. d * SlotsPerDay \in Nat
  BY <1>1
<1>4. QED
  BY <1>1, <1>2, <1>3

\* A candidate day whose instant is later than a is an occurrence, and its time is one
\* the clock had not reached at a; else the clock has reached it.
LEMMA CandidateOccurs ==
  ASSUME zone \in Zones, DatesAdvance, NEW r \in Recurrences, NEW d \in Nat, NEW a \in Nat,
         Matches(r, d)
  PROVE  LET T == d * SlotsPerDay + r.slot
             at == LocalAt(d, r.slot)
         IN  /\ at \in Int
             /\ at > a => Shown(a) < T /\ Shown(at - 1) < T /\ IsOccurrence(r, at)
             /\ at <= a => T <= Shown(a)
<1> DEFINE T == d * SlotsPerDay + r.slot
           at == LocalAt(d, r.slot)
<1>1. /\ r.slot \in Nat /\ r.slot < SlotsPerDay /\ SlotsPerDay \in Nat
      /\ d * SlotsPerDay \in Nat /\ T \in Nat /\ T = d * SlotsPerDay + r.slot
  BY SlotOfDay
<1>2. /\ T <= zone.before => at \in {-1, 0}
      /\ T > zone.before =>
           /\ at \in Nat /\ at >= 1
           /\ Shown(at - 1) < T /\ T <= Shown(at) /\ Shown(at) < T + SlotsPerDay
  BY <1>1, LocalAtIsFirstShown
<1>3. zone.before \in Nat
  BY ClockParts
<1>4. Shown(a) \in Nat /\ zone.before <= Shown(a)
  BY ShownGrows
<1> HIDE DEF T, at
<1>5. at \in Int
  BY <1>1, <1>2, <1>3
<1>6. ASSUME at > a PROVE Shown(a) < T /\ Shown(at - 1) < T /\ IsOccurrence(r, at)
  <2>1. /\ at \in Nat /\ at - 1 \in Nat /\ a <= at - 1
        /\ Shown(at - 1) < T /\ T <= Shown(at) /\ Shown(at) < T + SlotsPerDay
    BY <1>1, <1>2, <1>3, <1>6
  <2>2. Shown(at) \in Nat /\ Shown(at - 1) \in Nat /\ Shown(a) <= Shown(at - 1)
    BY <2>1, ShownGrows
  <2> DEFINE q == Shown(at) \div SlotsPerDay
  <2>3. Today(at) = q
    BY <2>1, TodayIsShown
  <2>4. q \in Nat /\ q * SlotsPerDay <= Shown(at) /\ Shown(at) < q * SlotsPerDay + SlotsPerDay
    BY <2>2, DayOfReading
  <2> HIDE DEF q
  <2>5. q * SlotsPerDay \in Int
    BY <1>1, <2>4
  <2>6. ~(q < d)
    <3>1. q < d => q * SlotsPerDay + SlotsPerDay <= d * SlotsPerDay
      BY <2>4, DaysInOrder
    <3>2. QED
      BY <1>1, <2>1, <2>2, <2>4, <2>5, <3>1
  <2>7. ~(d + 1 < q)
    <3>1. d + 1 \in Int /\ q \in Int
      BY <2>4
    <3>2. d + 1 < q => (d + 1) * SlotsPerDay + SlotsPerDay <= q * SlotsPerDay
      BY <3>1, DaysInOrder
    <3>3. (d + 1) * SlotsPerDay = d * SlotsPerDay + SlotsPerDay
      BY <1>1
    <3>4. QED
      BY <1>1, <2>1, <2>2, <2>4, <2>5, <3>2, <3>3
  <2>8. d \in Today(at) - 1 .. Today(at) + 1
    BY <2>3, <2>4, <2>6, <2>7
  <2>9. IsOccurrence(r, at)
    BY <1>1, <2>1, <2>8 DEF IsOccurrence
  <2>10. QED
    BY <1>1, <2>1, <2>2, <1>4, <2>9
<1>7. ASSUME at <= a PROVE T <= Shown(a)
  <2>1. CASE T <= zone.before
    BY <1>1, <1>3, <1>4, <2>1
  <2>2. CASE T > zone.before
    <3>1. at \in Nat /\ T <= Shown(at)
      BY <1>2, <2>2
    <3>2. Shown(at) <= Shown(a) /\ Shown(at) \in Nat
      BY <1>7, <3>1, ShownGrows
    <3>3. QED
      BY <1>1, <1>4, <3>1, <3>2
  <2>3. QED
    BY <1>1, <1>3, <2>1, <2>2
<1>8. QED
  BY <1>5, <1>6, <1>7 DEF T, at

\* Two days are candidates enough: the recurrence names both, the second is still ahead,
\* and a day it names that is still ahead is the first or not before the second.
Candidates(r, a, first, second) ==
  /\ Matches(r, first) /\ Matches(r, second)
  /\ first < second /\ Shown(a) < second * SlotsPerDay + r.slot
  /\ \A d \in Int : Matches(r, d) /\ Shown(a) < d * SlotsPerDay + r.slot =>
       d = first \/ second <= d

\* n is the first occurrence later than a.
NextAfter(r, a, n) ==
  /\ n \in Int /\ n > a
  /\ IsOccurrence(r, n)
  /\ \A i \in (a + 1)..(n - 1) : ~IsOccurrence(r, i)

\* The instant of a day is the next occurrence if no day still ahead comes before it.
LEMMA NothingBefore ==
  ASSUME zone \in Zones, DatesAdvance, NEW r \in Recurrences, NEW d \in Nat, NEW a \in Nat,
         Matches(r, d), LocalAt(d, r.slot) > a,
         \A e \in Int : Matches(r, e) /\ Shown(a) < e * SlotsPerDay + r.slot => d <= e
  PROVE  NextAfter(r, a, LocalAt(d, r.slot))
<1> DEFINE n == LocalAt(d, r.slot)
<1>1. n \in Int /\ n > a /\ Shown(n - 1) < d * SlotsPerDay + r.slot /\ IsOccurrence(r, n)
  BY CandidateOccurs
<1>2. SlotsPerDay \in Nat /\ r.slot \in Nat /\ d * SlotsPerDay \in Nat
  BY SlotOfDay
<1> HIDE DEF n
<1>3. ASSUME NEW i \in (a + 1)..(n - 1), IsOccurrence(r, i) PROVE FALSE
  <2>1. i \in Nat /\ i - 1 \in Nat /\ n - 1 \in Nat /\ a <= i - 1 /\ i <= n - 1
    BY <1>1
  <2>2. /\ Shown(a) <= Shown(i - 1) /\ Shown(i) <= Shown(n - 1)
        /\ Shown(a) \in Nat /\ Shown(i - 1) \in Nat /\ Shown(i) \in Nat /\ Shown(n - 1) \in Nat
    BY <2>1, ShownGrows
  <2>3. Today(i) \in Int
    <3>1. Today(i) = Shown(i) \div SlotsPerDay
      BY <2>1, TodayIsShown
    <3>2. QED
      BY <2>2, <3>1, DayOfReading
  <2>4. PICK e \in Today(i) - 1 .. Today(i) + 1 :
          /\ Matches(r, e) /\ Shown(i - 1) < e * SlotsPerDay + r.slot
          /\ e * SlotsPerDay + r.slot <= Shown(i)
    BY <1>3 DEF IsOccurrence
  <2>5. e \in Int /\ e * SlotsPerDay \in Int
    BY <1>2, <2>3
  <2>6. Shown(a) < e * SlotsPerDay + r.slot
    BY <1>2, <2>2, <2>4, <2>5
  <2>7. d <= e
    BY <2>4, <2>5, <2>6
  <2>8. d * SlotsPerDay <= e * SlotsPerDay
    <3>1. CASE d = e
      BY <1>2, <2>5, <3>1
    <3>2. CASE d < e
      BY <1>2, <2>5, <3>2, DaysInOrder
    <3>3. QED
      BY <2>5, <2>7, <3>1, <3>2
  <2> DEFINE p == d * SlotsPerDay
             q == e * SlotsPerDay
  <2>9. /\ p \in Nat /\ q \in Int /\ p <= q
        /\ q + r.slot <= Shown(i) /\ Shown(n - 1) < p + r.slot
    BY <1>1, <1>2, <2>4, <2>5, <2>8
  <2> HIDE DEF p, q
  <2>10. QED
    BY <1>2, <2>2, <2>9
<1>4. QED
  BY <1>1, <1>3 DEF NextAfter, n

\* first_after finds the next occurrence among such candidates.
LEMMA FirstAfterIsNext ==
  ASSUME zone \in Zones, DatesAdvance, NEW r \in Recurrences, NEW a \in Nat,
         NEW first \in Nat, NEW second \in Nat, Candidates(r, a, first, second)
  PROVE  NextAfter(r, a, FirstAfter(a, first, second, r.slot))
<1>1. /\ Matches(r, first) /\ Matches(r, second) /\ first < second
      /\ Shown(a) < second * SlotsPerDay + r.slot
      /\ \A d \in Int : Matches(r, d) /\ Shown(a) < d * SlotsPerDay + r.slot =>
           d = first \/ second <= d
  BY DEF Candidates
<1>2. Shown(a) \in Nat
  BY ShownGrows
<1>3. CASE LocalAt(first, r.slot) > a
  <2>1. \A e \in Int : Matches(r, e) /\ Shown(a) < e * SlotsPerDay + r.slot => first <= e
    BY <1>1
  <2>2. NextAfter(r, a, LocalAt(first, r.slot))
    BY <1>1, <1>3, <2>1, NothingBefore
  <2>3. QED
    BY <1>3, <2>2 DEF FirstAfter
<1>4. CASE ~(LocalAt(first, r.slot) > a)
  <2>1. LocalAt(first, r.slot) \in Int
    BY <1>1, CandidateOccurs
  <2>2. first * SlotsPerDay + r.slot <= Shown(a)
    BY <1>1, <1>4, <2>1, CandidateOccurs
  <2>3. first * SlotsPerDay + r.slot \in Nat /\ second * SlotsPerDay + r.slot \in Nat
    BY SlotOfDay
  <2>4. \A e \in Int : Matches(r, e) /\ Shown(a) < e * SlotsPerDay + r.slot => second <= e
    BY <1>1, <1>2, <2>2, <2>3
  <2>5. LocalAt(second, r.slot) > a
    <3>1. LocalAt(second, r.slot) \in Int
      BY <1>1, CandidateOccurs
    <3>2. LocalAt(second, r.slot) <= a => second * SlotsPerDay + r.slot <= Shown(a)
      BY <1>1, CandidateOccurs
    <3>3. QED
      BY <1>1, <1>2, <2>3, <3>1, <3>2
  <2>6. NextAfter(r, a, LocalAt(second, r.slot))
    BY <1>1, <2>4, <2>5, NothingBefore
  <2>7. QED
    BY <1>4, <2>5, <2>6 DEF FirstAfter
<1>5. QED
  BY <1>3, <1>4

-----------------------------------------------------------------------------
\* The date at an instant up to the last clock is one the months cover.
LEMMA TodayIsCovered ==
  ASSUME zone \in Zones, NEW a \in 0..(LastClock + SlotsPerDay - 1)
  PROVE  /\ a \in Nat /\ Today(a) \in Nat
         /\ Today(a) \in 0..((LastClock + 2 * SlotsPerDay) \div SlotsPerDay)
<1>1. LastClock \in Nat /\ SlotsPerDay \in Nat /\ SlotsPerDay > 0
  BY RecurrenceAssumption
<1>2. a \in Nat /\ LastClock + 2 * SlotsPerDay \in Nat
  BY <1>1
<1>3. Reading(a) \in Nat /\ Reading(a) <= LastClock + 2 * SlotsPerDay
  BY <1>1, <1>2, ClockParts DEF Reading
<1>4. /\ Reading(a) \div SlotsPerDay \in Nat
      /\ (LastClock + 2 * SlotsPerDay) \div SlotsPerDay \in Nat
      /\ Reading(a) \div SlotsPerDay <= (LastClock + 2 * SlotsPerDay) \div SlotsPerDay
  BY <1>2, <1>3, DayOfReading, DaysGrow
<1> DEFINE day == Reading(a) \div SlotsPerDay
           last == (LastClock + 2 * SlotsPerDay) \div SlotsPerDay
<1>5. day \in Nat /\ last \in Nat /\ day <= last
  BY <1>4
<1> HIDE DEF day, last
<1>6. day \in 0..last
  BY <1>5
<1>7. QED
  BY <1>2, <1>5, <1>6 DEF Today, day, last

\* While no date is shown twice, the furthest reading is on today's date.
LEMMA TodayInCalendar ==
  ASSUME zone \in Zones, DatesAdvance, NEW a \in 0..(LastClock + SlotsPerDay - 1)
  PROVE  /\ a \in Nat /\ Today(a) \in Nat /\ Shown(a) \in Nat
         /\ Today(a) * SlotsPerDay <= Shown(a)
         /\ Shown(a) < Today(a) * SlotsPerDay + SlotsPerDay
<1>1. a \in Nat /\ Today(a) \in Nat
  BY TodayIsCovered
<1>2. Shown(a) \in Nat
  BY <1>1, ShownGrows
<1>3. Today(a) = Shown(a) \div SlotsPerDay
  BY <1>1, TodayIsShown
<1>4. QED
  BY <1>1, <1>2, <1>3, DayOfReading

\* What is still ahead is on today's date or a later one.
LEMMA AheadIsNotBefore ==
  ASSUME zone \in Zones, DatesAdvance, NEW r \in Recurrences,
         NEW a \in 0..(LastClock + SlotsPerDay - 1), NEW d \in Int
  PROVE  /\ Shown(a) < d * SlotsPerDay + r.slot => Today(a) <= d
         /\ Today(a) < d => Shown(a) < d * SlotsPerDay + r.slot
<1>1. /\ a \in Nat /\ Today(a) \in Nat /\ Shown(a) \in Nat
      /\ Today(a) * SlotsPerDay <= Shown(a)
      /\ Shown(a) < Today(a) * SlotsPerDay + SlotsPerDay
  BY TodayInCalendar
<1>2. SlotsPerDay \in Nat /\ r.slot \in Nat /\ r.slot < SlotsPerDay
  <2>1. 0 \in Nat
    OBVIOUS
  <2>2. QED
    BY <2>1, SlotOfDay
<1> DEFINE p == d * SlotsPerDay
           q == Today(a) * SlotsPerDay
<1>3. p \in Int /\ q \in Int
  BY <1>1, <1>2
<1>4. d < Today(a) => p + SlotsPerDay <= q
  BY <1>1, DaysInOrder
<1>5. Today(a) < d => q + SlotsPerDay <= p
  BY <1>1, DaysInOrder
<1>6. q <= Shown(a) /\ Shown(a) < q + SlotsPerDay
  BY <1>1
<1> HIDE DEF p, q
<1>7. /\ Shown(a) < p + r.slot => Today(a) <= d
      /\ Today(a) < d => Shown(a) < p + r.slot
  BY <1>1, <1>2, <1>3, <1>4, <1>5, <1>6
<1>8. QED
  BY <1>7 DEF p

\* A daily recurrence: today and tomorrow.
LEMMA DailyCandidates ==
  ASSUME zone \in Zones, DatesAdvance, NEW r \in Recurrences,
         NEW a \in 0..(LastClock + SlotsPerDay - 1), r.kind = "daily"
  PROVE  Candidates(r, a, Today(a), Today(a) + 1)
<1>1. Today(a) \in Nat
  BY TodayInCalendar
<1>2. Matches(r, Today(a)) /\ Matches(r, Today(a) + 1)
  BY DEF Matches
<1>3. Shown(a) < (Today(a) + 1) * SlotsPerDay + r.slot
  BY <1>1, AheadIsNotBefore
<1>4. \A d \in Int : Matches(r, d) /\ Shown(a) < d * SlotsPerDay + r.slot =>
        d = Today(a) \/ Today(a) + 1 <= d
  BY <1>1, AheadIsNotBefore
<1>5. QED
  BY <1>1, <1>2, <1>3, <1>4 DEF Candidates

\* Weeks have seven days.
LEMMA Weekday ==
  ASSUME NEW n \in Nat
  PROVE  /\ n \div 7 \in Nat /\ n % 7 \in 0..6 /\ n = 7 * (n \div 7) + (n % 7)
         /\ \A q \in Nat, w \in 0..6 : n = 7 * q + w => n % 7 = w
         /\ \A w \in 0..6 : n = 7 + w => n % 7 = w
         /\ n < 7 => n % 7 = n
  OBVIOUS

\* A weekly recurrence: the next such weekday, today included, and the one after it.
LEMMA WeeklyCandidates ==
  ASSUME zone \in Zones, DatesAdvance, NEW r \in Recurrences,
         NEW a \in 0..(LastClock + SlotsPerDay - 1), r.kind = "weekly"
  PROVE  LET first == Today(a) + ((r.day + 7 - (Today(a) % 7)) % 7)
         IN  first \in Nat /\ Candidates(r, a, first, first + 7)
<1> DEFINE today == Today(a)
           first == today + ((r.day + 7 - (today % 7)) % 7)
<1>1. today \in Nat
  BY TodayInCalendar
<1>2. r.day \in Nat /\ r.day < 7
  BY RecurrencesAreValid
<1> HIDE DEF today
<1>3. /\ first \in Nat /\ today <= first /\ first < today + 7
      /\ first % 7 = r.day /\ (first + 7) % 7 = r.day
  <2> DEFINE v == today \div 7
             w == today % 7
  <2>1. v \in Nat /\ w \in 0..6 /\ today = 7 * v + w
    BY <1>1
  <2>2. (r.day + 7 - w) % 7 = IF w <= r.day THEN r.day - w ELSE r.day + 7 - w
    <3> DEFINE x == r.day + 7 - w
               y == r.day - w
    <3>1. /\ x \in Nat /\ x = r.day + 7 - w
          /\ w <= r.day => y \in 0..6 /\ x = 7 + y
          /\ r.day < w => x < 7
      BY <1>2, <2>1
    <3> HIDE DEF x, y, w
    <3>2. /\ w <= r.day => x % 7 = y
          /\ r.day < w => x % 7 = x
      BY <3>1, Weekday
    <3>3. x % 7 = IF w <= r.day THEN y ELSE x
      BY <1>2, <2>1, <3>2
    <3>4. QED
      BY <3>3 DEF x, y
  <2> HIDE DEF v, w
  <2>3. first = IF w <= r.day THEN 7 * v + r.day ELSE 7 * (v + 1) + r.day
    BY <1>1, <1>2, <2>1, <2>2 DEF w
  <2>4. \A n \in Nat : (7 * n + r.day) % 7 = r.day
    BY <1>2
  <2>5. first % 7 = r.day
    <3>1. v + 1 \in Nat
      BY <2>1
    <3>2. QED
      BY <2>1, <2>3, <2>4, <3>1
  <2>6. first + 7 = IF w <= r.day THEN 7 * (v + 1) + r.day ELSE 7 * (v + 2) + r.day
    BY <1>2, <2>1, <2>3
  <2>7. (first + 7) % 7 = r.day
    <3>1. v + 1 \in Nat /\ v + 2 \in Nat
      BY <2>1
    <3>2. QED
      BY <2>1, <2>4, <2>6, <3>1
  <2>8. first \in Nat /\ today <= first /\ first < today + 7
    BY <1>2, <2>1, <2>3
  <2>9. QED
    BY <2>5, <2>7, <2>8
<1>4. ASSUME NEW d \in Int, today <= d, d % 7 = r.day PROVE d = first \/ first + 7 <= d
  <2> DEFINE v == d \div 7
             u == first \div 7
  <2>1. d \in Nat
    BY <1>1, <1>4
  <2>2. v \in Nat /\ d = 7 * v + r.day
    BY <1>4, <2>1, Weekday
  <2>3. u \in Nat /\ first = 7 * u + r.day
    <3> HIDE DEF first
    <3>1. QED
      BY <1>3, Weekday
  <2>4. today <= d /\ first < today + 7 /\ first \in Nat
    BY <1>3, <1>4
  <2> HIDE DEF u, v, first
  <2>5. QED
    BY <1>1, <1>2, <2>1, <2>2, <2>3, <2>4
<1> HIDE DEF first
<1>5. \A d \in Int : Matches(r, d) <=> d % 7 = r.day
  BY DEF Matches
<1>6. Matches(r, first) /\ Matches(r, first + 7) /\ first < first + 7
  BY <1>3, <1>5
<1>7. Shown(a) < (first + 7) * SlotsPerDay + r.slot
  <2>1. first + 7 \in Int /\ today < first + 7
    BY <1>1, <1>3
  <2>2. QED
    BY <2>1, AheadIsNotBefore DEF today
<1>8. ASSUME NEW d \in Int, Matches(r, d), Shown(a) < d * SlotsPerDay + r.slot
      PROVE  d = first \/ first + 7 <= d
  <2>1. today <= d
    BY <1>8, AheadIsNotBefore DEF today
  <2>2. QED
    BY <1>4, <1>5, <1>8, <2>1
<1>9. first \in Nat /\ Candidates(r, a, first, first + 7)
  BY <1>3, <1>6, <1>7, <1>8 DEF Candidates
<1>10. QED
  BY <1>9 DEF first, today

\* Months begin in order.
LEMMA MonthsAscend ==
  ASSUME NEW m \in Month, NEW n \in Month, m <= n
  PROVE  /\ m \in Nat /\ n \in Nat
         /\ FirstDayOf[m] \in Nat /\ FirstDayOf[n] \in Nat /\ FirstDayOf[m] <= FirstDayOf[n]
  BY RecurrenceAssumption DEF Month

\* Months follow one another, and a month's day lies within it.
LEMMA ClampedIsInMonth ==
  ASSUME NEW r \in Recurrences, r.kind = "monthly", NEW m \in Month, m + 1 \in Month
  PROVE  /\ ClampedDay(m, r.day) \in Nat
         /\ FirstDayOf[m] <= ClampedDay(m, r.day) /\ ClampedDay(m, r.day) < FirstDayOf[m + 1]
<1>1. m \in Nat /\ FirstDayOf[m] \in Nat /\ FirstDayOf[m + 1] \in Nat
      /\ FirstDayOf[m] < FirstDayOf[m + 1]
  BY RecurrenceAssumption
<1>2. r.day \in Nat /\ r.day >= 1
  BY RecurrencesAreValid
<1>3. QED
  BY <1>1, <1>2 DEF ClampedDay, LastDayOfMonth

\* The month of a day the months cover, with the two after it.
LEMMA MonthOfDay ==
  ASSUME NEW today \in 0..((LastClock + 2 * SlotsPerDay) \div SlotsPerDay), today \in Nat
  PROVE  LET m == MonthOf(today)
         IN  /\ m \in Month /\ m \in Nat
             /\ m + 1 \in Month /\ m + 2 \in Month /\ m + 1 + 1 \in Month
             /\ FirstDayOf[m] <= today /\ today < FirstDayOf[m + 1]
<1> DEFINE m == MonthOf(today)
<1>2. PICK k \in Month : k + 2 \in Month /\ FirstDayOf[k] <= today /\ today < FirstDayOf[k + 1]
  BY MonthsReachFarEnough
<1>3. /\ Month \subseteq Nat
      /\ \A i \in Month : FirstDayOf[i] \in Nat
      /\ \A i, j \in Month : i < j => i + 1 \in Month /\ FirstDayOf[i] < FirstDayOf[j]
  BY RecurrenceAssumption DEF Month
<1>4. k \in Nat /\ k + 1 \in Month
  BY <1>2, <1>3
<1>5. m = k
  <2> DEFINE On(i) == FirstDayOf[i] <= today /\ (i + 1 \in Month => today < FirstDayOf[i + 1])
  <2>1. m \in Month /\ On(m)
    <3>1. \E i \in Month : On(i)
      BY <1>2
    <3>2. QED
      BY <3>1 DEF MonthOf
  <2>2. m \in Nat
    BY <1>3, <2>1
  <2> HIDE DEF m
  <2>3. ~(m < k)
    <3>1. SUFFICES ASSUME m < k PROVE FALSE
      OBVIOUS
    <3>2. m + 1 \in Month /\ today < FirstDayOf[m + 1]
      BY <1>3, <2>1, <3>1
    <3>3. m + 1 <= k
      BY <1>4, <2>2, <3>1
    <3>4. /\ FirstDayOf[m + 1] <= FirstDayOf[k]
          /\ FirstDayOf[m + 1] \in Nat /\ FirstDayOf[k] \in Nat
      BY <3>2, <3>3, MonthsAscend
    <3>5. QED
      BY <1>2, <3>2, <3>4
  <2>4. ~(k < m)
    <3>1. SUFFICES ASSUME k < m PROVE FALSE
      OBVIOUS
    <3>2. k + 1 <= m
      BY <1>4, <2>2, <3>1
    <3>3. /\ FirstDayOf[k + 1] <= FirstDayOf[m]
          /\ FirstDayOf[k + 1] \in Nat /\ FirstDayOf[m] \in Nat
      BY <1>4, <2>1, <3>2, MonthsAscend
    <3>4. QED
      BY <1>2, <2>1, <3>3
  <2>5. QED
    BY <1>4, <2>2, <2>3, <2>4
<1>6. m \in Month /\ m \in Nat /\ m + 1 \in Month /\ m + 2 \in Month /\ m + 1 + 1 = m + 2
  BY <1>2, <1>4, <1>5
<1>7. FirstDayOf[m] <= today /\ today < FirstDayOf[m + 1]
  BY <1>2, <1>5
<1>8. QED
  BY <1>6, <1>7

\* A monthly recurrence: its day of this month and of the next are days.
LEMMA MonthlyDays ==
  ASSUME zone \in Zones, NEW r \in Recurrences,
         NEW a \in 0..(LastClock + SlotsPerDay - 1), r.kind = "monthly"
  PROVE  LET m == MonthOf(Today(a))
         IN  ClampedDay(m, r.day) \in Nat /\ ClampedDay(m + 1, r.day) \in Nat
<1> DEFINE m == MonthOf(Today(a))
<1>1. m \in Month /\ m + 1 \in Month /\ m + 1 + 1 \in Month
  BY TodayIsCovered, MonthOfDay
<1> HIDE DEF m
<1>2. ClampedDay(m, r.day) \in Nat /\ ClampedDay(m + 1, r.day) \in Nat
  BY <1>1, ClampedIsInMonth
<1>3. QED
  BY <1>2 DEF m

\* They are candidates enough.
LEMMA MonthlyCandidates ==
  ASSUME zone \in Zones, DatesAdvance, NEW r \in Recurrences,
         NEW a \in 0..(LastClock + SlotsPerDay - 1), r.kind = "monthly"
  PROVE  LET m == MonthOf(Today(a))
         IN  Candidates(r, a, ClampedDay(m, r.day), ClampedDay(m + 1, r.day))
<1> DEFINE today == Today(a)
           m == MonthOf(today)
           first == ClampedDay(m, r.day)
           second == ClampedDay(m + 1, r.day)
<1>1. today \in Nat /\ today \in 0..((LastClock + 2 * SlotsPerDay) \div SlotsPerDay)
  BY TodayIsCovered
<1> HIDE DEF today
<1>3. /\ Month \subseteq Nat
      /\ \A i \in Month : FirstDayOf[i] \in Nat
      /\ \A i, j \in Month : i < j => i + 1 \in Month /\ FirstDayOf[i] < FirstDayOf[j]
  BY RecurrenceAssumption DEF Month
<1>5. /\ m \in Month /\ m \in Nat
      /\ m + 1 \in Month /\ m + 2 \in Month /\ m + 1 + 1 \in Month
      /\ FirstDayOf[m] <= today /\ today < FirstDayOf[m + 1]
  BY <1>1, MonthOfDay
<1> HIDE DEF m
<1>6. m \in Month /\ m \in Nat /\ m + 1 \in Month /\ m + 2 \in Month /\ m + 1 + 1 = m + 2
  BY <1>5
<1>7. FirstDayOf[m] <= today /\ today < FirstDayOf[m + 1]
  BY <1>5
<1>8. first \in Nat /\ FirstDayOf[m] <= first /\ first < FirstDayOf[m + 1]
  BY <1>6, ClampedIsInMonth
<1>9. second \in Nat /\ FirstDayOf[m + 1] <= second /\ second < FirstDayOf[m + 2]
  <2>1. m + 1 \in Month /\ m + 1 + 1 \in Month
    BY <1>6
  <2>2. FirstDayOf[m + 1] <= second /\ second < FirstDayOf[m + 1 + 1] /\ second \in Nat
    BY <2>1, ClampedIsInMonth
  <2>3. QED
    BY <1>6, <2>2
<1>10. Matches(r, first) /\ Matches(r, second)
  BY <1>6 DEF Matches
<1>11. first < second /\ today < second
  BY <1>1, <1>3, <1>6, <1>7, <1>8, <1>9
<1>12. Shown(a) < second * SlotsPerDay + r.slot
  <2>1. second \in Int /\ today < second
    BY <1>9, <1>11
  <2> HIDE DEF second
  <2>2. QED
    BY <2>1, AheadIsNotBefore DEF today
<1>13. ASSUME NEW d \in Int, Matches(r, d), Shown(a) < d * SlotsPerDay + r.slot
       PROVE  d = first \/ second <= d
  <2>1. today <= d
    BY <1>13, AheadIsNotBefore DEF today
  <2>2. PICK i \in Month : i + 1 \in Month /\ d = ClampedDay(i, r.day)
    BY <1>13 DEF Matches
  <2>3. i \in Nat /\ FirstDayOf[i] <= d /\ d < FirstDayOf[i + 1]
    BY <1>3, <2>2, ClampedIsInMonth
  <2>4. ~(i < m)
    <3>1. SUFFICES ASSUME i < m PROVE FALSE
      OBVIOUS
    <3>2. i + 1 <= m
      BY <1>6, <2>3, <3>1
    <3>3. /\ FirstDayOf[i + 1] <= FirstDayOf[m]
          /\ FirstDayOf[i + 1] \in Nat /\ FirstDayOf[m] \in Nat
      BY <1>6, <2>2, <3>2, MonthsAscend
    <3>4. QED
      BY <1>1, <1>7, <2>1, <2>3, <3>3
  <2>5. CASE i = m
    BY <2>2, <2>5
  <2>6. CASE i = m + 1
    BY <1>9, <2>2, <2>6
  <2>7. CASE i > m + 1
    <3>1. m + 2 <= i
      BY <1>6, <2>3, <2>7
    <3>2. /\ FirstDayOf[m + 2] <= FirstDayOf[i]
          /\ FirstDayOf[m + 2] \in Nat /\ FirstDayOf[i] \in Nat
      BY <1>6, <2>2, <3>1, MonthsAscend
    <3>3. QED
      BY <1>9, <2>3, <3>2
  <2>8. QED
    BY <1>6, <2>3, <2>4, <2>5, <2>6, <2>7
<1>14. Candidates(r, a, first, second)
  BY <1>8, <1>9, <1>10, <1>11, <1>12, <1>13 DEF Candidates
<1>15. QED
  BY <1>14 DEF first, second, m, today

-----------------------------------------------------------------------------
\* A computed next run is later than the instant it is computed from.
LEMMA NextDueIsLater ==
  ASSUME zone \in Zones, NEW r \in Recurrences, NEW a \in 0..(LastClock + SlotsPerDay - 1)
  PROVE  /\ NextDueAfter(r, a) \in Int
         /\ NextDueAfter(r, a) = NoOccurrence \/ NextDueAfter(r, a) > a
         /\ r.kind = "every" => NextDueAfter(r, a) > a
<1>1. /\ a \in Nat /\ Today(a) \in Nat /\ r.day \in Nat /\ r.slot \in Nat /\ r.kind \in Kind
      /\ MinEvery \in Nat /\ MinEvery > 0
  BY TodayIsCovered, SlotOfDay, RecurrenceAssumption
<1>2. ASSUME NEW first \in Nat, NEW second \in Nat
      PROVE  LET n == FirstAfter(a, first, second, r.slot)
             IN  n \in Int /\ (n = NoOccurrence \/ n > a)
  <2>1. ASSUME NEW d \in Nat PROVE LocalAt(d, r.slot) \in Int
    <3>1. d * SlotsPerDay + r.slot \in Nat
      BY SlotOfDay
    <3>2. zone.before \in Nat
      BY ClockParts
    <3>3. QED
      BY <1>1, <3>1, <3>2, LocalAtIsFirstShown
  <2>2. LocalAt(first, r.slot) \in Int /\ LocalAt(second, r.slot) \in Int
    BY <2>1
  <2>3. QED
    BY <2>2 DEF FirstAfter, NoOccurrence
<1>3. CASE r.kind = "every"
  <2>1. NextDueAfter(r, a) = a + (IF r.day < MinEvery THEN MinEvery ELSE r.day)
    BY <1>3 DEF NextDueAfter
  <2>2. QED
    BY <1>1, <2>1
<1>4. CASE r.kind = "daily"
  <2>1. NextDueAfter(r, a) = FirstAfter(a, Today(a), Today(a) + 1, r.slot)
    BY <1>4 DEF NextDueAfter
  <2>2. Today(a) + 1 \in Nat
    BY <1>1
  <2>3. QED
    BY <1>1, <1>2, <1>4, <2>1, <2>2
<1>5. CASE r.kind = "weekly"
  <2> DEFINE ahead == (r.day + 7 - (Today(a) % 7)) % 7
  <2>1. NextDueAfter(r, a) = FirstAfter(a, Today(a) + ahead, Today(a) + ahead + 7, r.slot)
    BY <1>5 DEF NextDueAfter
  <2>2. ahead \in Nat
    <3>1. Today(a) % 7 \in 0..6
      BY <1>1, Weekday
    <3>2. r.day + 7 - (Today(a) % 7) \in Nat
      BY <1>1, <3>1
    <3>3. QED
      BY <3>2, Weekday
  <2> HIDE DEF ahead
  <2>3. Today(a) + ahead \in Nat /\ Today(a) + ahead + 7 \in Nat
    BY <1>1, <2>2
  <2>4. QED
    BY <1>2, <1>5, <2>1, <2>3
<1>6. CASE r.kind = "monthly"
  <2> DEFINE m == MonthOf(Today(a))
  <2>1. NextDueAfter(r, a)
          = FirstAfter(a, ClampedDay(m, r.day), ClampedDay(m + 1, r.day), r.slot)
    BY <1>6 DEF NextDueAfter
  <2>2. ClampedDay(m, r.day) \in Nat /\ ClampedDay(m + 1, r.day) \in Nat
    BY <1>6, MonthlyDays
  <2> HIDE DEF m
  <2>3. QED
    BY <1>2, <1>6, <2>1, <2>2
<1>7. QED
  BY <1>1, <1>3, <1>4, <1>5, <1>6 DEF Kind

\* It is the next occurrence, by kind.
LEMMA NextDueIsNext ==
  ASSUME zone \in Zones, DatesAdvance, NEW r \in Recurrences,
         NEW a \in 0..(LastClock + SlotsPerDay - 1), r.kind # "every"
  PROVE  NextAfter(r, a, NextDueAfter(r, a))
<1>1. a \in Nat /\ Today(a) \in Nat /\ r.kind \in Kind
  BY TodayIsCovered, SlotOfDay
<1>2. CASE r.kind = "daily"
  <2>1. NextDueAfter(r, a) = FirstAfter(a, Today(a), Today(a) + 1, r.slot)
    BY <1>2 DEF NextDueAfter
  <2>2. Today(a) + 1 \in Nat
    BY <1>1
  <2>3. QED
    BY <1>1, <1>2, <2>1, <2>2, DailyCandidates, FirstAfterIsNext
<1>3. CASE r.kind = "weekly"
  <2> DEFINE first == Today(a) + ((r.day + 7 - (Today(a) % 7)) % 7)
  <2>1. NextDueAfter(r, a) = FirstAfter(a, first, first + 7, r.slot)
    BY <1>3 DEF NextDueAfter
  <2>2. first \in Nat /\ Candidates(r, a, first, first + 7)
    BY <1>3, WeeklyCandidates
  <2> HIDE DEF first
  <2>3. first + 7 \in Nat
    BY <2>2
  <2>4. QED
    BY <1>1, <2>1, <2>2, <2>3, FirstAfterIsNext
<1>4. CASE r.kind = "monthly"
  <2> DEFINE m == MonthOf(Today(a))
             first == ClampedDay(m, r.day)
             second == ClampedDay(m + 1, r.day)
  <2>1. NextDueAfter(r, a) = FirstAfter(a, first, second, r.slot)
    BY <1>4 DEF NextDueAfter
  <2>2. first \in Nat /\ second \in Nat
    BY <1>4, MonthlyDays
  <2>3. Candidates(r, a, first, second)
    BY <1>4, MonthlyCandidates
  <2> HIDE DEF first, second, m
  <2>4. QED
    BY <1>1, <2>1, <2>2, <2>3, FirstAfterIsNext
<1>5. QED
  BY <1>1, <1>2, <1>3, <1>4 DEF Kind

\* The next run is later than the instant it was computed at, and the next occurrence.
CalendarInv ==
  /\ zone \in Zones /\ recurrence \in Recurrences
  /\ computedAt \in 0..(LastClock + SlotsPerDay - 1)
  /\ nextRun \in Int
  /\ nextRun = NoOccurrence \/ nextRun > computedAt
  /\ DueIsNextOccurrence

\* What is computed for an instant is as the invariant says.
LEMMA ComputedIsNext ==
  ASSUME zone \in Zones, NEW r \in Recurrences, NEW a \in 0..(LastClock + SlotsPerDay - 1),
         NEW n, n = NextDueAfter(r, a)
  PROVE  /\ n \in Int /\ (n = NoOccurrence \/ n > a)
         /\ DatesAdvance =>
              /\ n > a
              /\ r.kind # "every" =>
                   IsOccurrence(r, n) /\ \A i \in (a + 1)..(n - 1) : ~IsOccurrence(r, i)
<1>1. n \in Int /\ (n = NoOccurrence \/ n > a) /\ (r.kind = "every" => n > a)
  BY NextDueIsLater
<1>2. ASSUME DatesAdvance, r.kind # "every"
      PROVE  /\ n > a /\ IsOccurrence(r, n)
             /\ \A i \in (a + 1)..(n - 1) : ~IsOccurrence(r, i)
  <2>1. NextAfter(r, a, n)
    BY <1>2, NextDueIsNext
  <2>2. QED
    BY <2>1 DEF NextAfter
<1>3. QED
  BY <1>1, <1>2

\* The invariant holds at first, and every rescheduling keeps it.
LEMMA CalendarInvInit == CalendarInit => CalendarInv
<1>1. SUFFICES ASSUME CalendarInit PROVE CalendarInv
  OBVIOUS
<1>2. /\ zone \in Zones /\ recurrence \in Recurrences /\ computedAt \in 0..(SlotsPerDay - 1)
      /\ nextRun = NextDueAfter(recurrence, computedAt)
  BY <1>1 DEF CalendarInit
<1>3. computedAt \in 0..(LastClock + SlotsPerDay - 1)
  BY <1>2, RecurrenceAssumption
<1>4. /\ nextRun \in Int /\ (nextRun = NoOccurrence \/ nextRun > computedAt)
      /\ DatesAdvance =>
           /\ nextRun > computedAt
           /\ recurrence.kind # "every" =>
                /\ IsOccurrence(recurrence, nextRun)
                /\ \A i \in (computedAt + 1)..(nextRun - 1) : ~IsOccurrence(recurrence, i)
  BY <1>2, <1>3, ComputedIsNext
<1>5. QED
  BY <1>2, <1>3, <1>4 DEF CalendarInv, DueIsNextOccurrence

LEMMA CalendarInvStep == CalendarInv /\ [ComputeNext]_calendarVars => CalendarInv'
<1>1. SUFFICES ASSUME CalendarInv, [ComputeNext]_calendarVars PROVE CalendarInv'
  OBVIOUS
<1>2. CASE UNCHANGED calendarVars
  BY <1>1, <1>2 DEF CalendarInv, calendarVars, DueIsNextOccurrence, DatesAdvance, IsOccurrence,
                    Shown, Today, Reading
<1>3. CASE ComputeNext
  <2> DEFINE a == computedAt'
             n == nextRun'
             r == recurrence
  <2>1. /\ zone \in Zones /\ r \in Recurrences /\ nextRun \in Int /\ nextRun > computedAt
        /\ computedAt \in Nat /\ a \in nextRun..LastClock /\ n = NextDueAfter(r, a)
        /\ zone' = zone /\ recurrence' = recurrence
    BY <1>1, <1>3, RecurrenceAssumption DEF CalendarInv, ComputeNext
  <2>2. a \in 0..(LastClock + SlotsPerDay - 1)
    BY <2>1, RecurrenceAssumption
  <2> HIDE DEF a, n, r
  <2>3. /\ n \in Int /\ (n = NoOccurrence \/ n > a)
        /\ DatesAdvance =>
             /\ n > a
             /\ r.kind # "every" =>
                  IsOccurrence(r, n) /\ \A i \in (a + 1)..(n - 1) : ~IsOccurrence(r, i)
    BY <2>1, <2>2, ComputedIsNext
  <2>4. DatesAdvance' <=> DatesAdvance
    BY <2>1 DEF DatesAdvance, Today, Reading
  <2>5. \A i : IsOccurrence(recurrence, i)' <=> IsOccurrence(r, i)
    BY <2>1 DEF IsOccurrence, Shown, Today, Reading, r
  <2>6. DueIsNextOccurrence'
    BY <2>1, <2>3, <2>4, <2>5 DEF DueIsNextOccurrence, a, n, r
  <2>7. QED
    BY <2>1, <2>2, <2>3, <2>6 DEF CalendarInv, a, n, r
<1>4. QED
  BY <1>1, <1>2, <1>3

\* The next run is the next occurrence, for every clock, calendar and recurrence: no day a
\* recurrence names is skipped and none is run twice, however months clamp and clocks jump.
THEOREM NextRunIsNextOccurrence == CalendarSpec => []DueIsNextOccurrence
<1>1. CalendarInv => DueIsNextOccurrence
  BY DEF CalendarInv
<1>2. QED
  BY <1>1, CalendarInvInit, CalendarInvStep, PTL DEF CalendarSpec
===============================================================================
