------------------------------ MODULE OsFileOpen -------------------------------
(***************************************************************************)
(* Files the OS asks the app to open: the queue of the Rust slice          *)
(* (file_open) and the hook that drains it (workspaces/osFileOpen.ts), on  *)
(* mount and on every nudge. A drain opens what it took one by one.        *)
(***************************************************************************)
EXTENDS Integers, SequencesExt

CONSTANTS
  Database, Script, \* paths, by kind
  MaxPushes,        \* bound: deliveries by the OS
  MaxMounts,        \* bound: runs of the effect, which follows the language
  Drain             \* bound: drains under way

VARIABLES
  openQueue,   \* PendingOpens
  pushed,      \* history: times each path was queued
  pushes,      \* deliveries so far
  effects,     \* by run of the effect: what it waits for
  drains,      \* [by, stage, items]; by: the run whose mount it serves, 0 for a nudge
  sqlActive,   \* the workspace on screen can run a script
  viewed,      \* the script in the read-only viewer, <<>> when none
  handled,     \* history: times each path was opened, shown, or failed to open
  missed       \* history: a file was queued while nobody listened, after the drain on mount

openVars ==
  <<openQueue, pushed, pushes, effects, drains, sqlActive, viewed, handled, missed>>

Path == Database \cup Script
NotDraining == [by |-> 0, stage |-> "none", items |-> <<>>]
Asked(by) == [by |-> by, stage |-> "asked", items |-> <<>>]
Listening == \E e \in DOMAIN effects : effects[e] = "listening"
Holds(p) ==
  UNION {{<<d, i>> : i \in {i \in DOMAIN drains[d].items : drains[d].items[i] = p}} : d \in Drain}
InHand(p) == Cardinality(Holds(p))

OpenTypeOK ==
  /\ ToSet(openQueue) \subseteq Path /\ IsInjective(openQueue)
  /\ pushes \in 0..MaxPushes
  /\ Len(effects) \in 1..MaxMounts
  /\ \A e \in DOMAIN effects :
       effects[e] \in {"draining", "subscribing", "listening", "gone"}
         /\ e < Len(effects) => effects[e] = "gone"
  /\ \A d \in Drain :
       /\ drains[d].stage \in {"none", "asked", "opening"} /\ ToSet(drains[d].items) \subseteq Path
       /\ drains[d].stage = "opening" => drains[d].items # <<>>
  /\ viewed \in {<<>>} \cup {<<p>> : p \in Script}
  /\ sqlActive \in BOOLEAN /\ missed \in BOOLEAN

\* The files of the command line are queued before there is a window.
OpenInit ==
  /\ openQueue \in {<<>>} \cup {<<p>> : p \in Path}
  /\ pushed = [p \in Path |-> IF p \in ToSet(openQueue) THEN 1 ELSE 0] /\ pushes = 0
  /\ effects = <<"draining">>
  /\ \E d \in Drain :
       drains = [c \in Drain |-> IF c = d THEN Asked(1) ELSE NotDraining]
  /\ sqlActive = FALSE /\ viewed = <<>>
  /\ handled = [p \in Path |-> 0] /\ missed = FALSE

\* Bug variant: no nudge while a drain is at work.
QueueOpenUnlessDraining(p) ==
  /\ pushes < MaxPushes /\ pushes' = pushes + 1
  /\ openQueue' = IF p \in ToSet(openQueue) THEN openQueue ELSE Append(openQueue, p)
  /\ pushed' = IF p \in ToSet(openQueue) THEN pushed ELSE [pushed EXCEPT ![p] = @ + 1]
  /\ IF Listening
       THEN /\ missed' = missed
            /\ IF \E d \in Drain : drains[d] # NotDraining THEN drains' = drains
               ELSE \E d \in Drain : drains' = [drains EXCEPT ![d] = Asked(0)]
       ELSE /\ missed' = (missed \/ ~\E d \in Drain : drains[d] = Asked(Len(effects)))
            /\ drains' = drains
  /\ UNCHANGED <<effects, sqlActive, viewed, handled>>

\* queue_open: push skips a path that is waiting, then the nudge, which nobody may hear.
QueueOpen(p) ==
  /\ pushes < MaxPushes /\ pushes' = pushes + 1
  /\ openQueue' = IF p \in ToSet(openQueue) THEN openQueue ELSE Append(openQueue, p)
  /\ pushed' = IF p \in ToSet(openQueue) THEN pushed ELSE [pushed EXCEPT ![p] = @ + 1]
  /\ IF Listening
       THEN /\ \E d \in Drain :
                 drains[d] = NotDraining /\ drains' = [drains EXCEPT ![d] = Asked(0)]
            /\ missed' = missed
       ELSE /\ missed' = (missed \/ ~\E d \in Drain : drains[d] = Asked(Len(effects)))
            /\ drains' = drains
  /\ UNCHANGED <<effects, sqlActive, viewed, handled>>

\* The run whose mount drain is over goes on to subscribe.
AfterDrain(d) ==
  [e \in DOMAIN effects |->
     IF e = drains[d].by /\ effects[e] = "draining" THEN "subscribing" ELSE effects[e]]

\* Bug variant: what is taken stays in the queue.
TakeLeaving(d) ==
  /\ drains[d].stage = "asked"
  /\ openQueue' = openQueue
  /\ IF openQueue = <<>>
       THEN drains' = [drains EXCEPT ![d] = NotDraining] /\ effects' = AfterDrain(d)
       ELSE /\ drains' = [drains EXCEPT ![d] = [@ EXCEPT !.stage = "opening", !.items = openQueue]]
            /\ effects' = effects
  /\ UNCHANGED <<pushed, pushes, sqlActive, viewed, handled, missed>>

\* file_open_take_pending, and the answer.
Take(d) ==
  /\ drains[d].stage = "asked"
  /\ openQueue' = <<>>
  /\ IF openQueue = <<>>
       THEN drains' = [drains EXCEPT ![d] = NotDraining] /\ effects' = AfterDrain(d)
       ELSE /\ drains' = [drains EXCEPT ![d] = [@ EXCEPT !.stage = "opening", !.items = openQueue]]
            /\ effects' = effects
  /\ UNCHANGED <<pushed, pushes, sqlActive, viewed, handled, missed>>

\* openAll: the next file is connected to or read, which may fail. A script goes to a tab of
\* the workspace then on screen, or to the viewer; it is dropped when the viewer is taken.
OpenNext(d, ok) ==
  LET p == Head(drains[d].items)
      rest == Tail(drains[d].items)
  IN  /\ drains[d].stage = "opening"
      /\ handled' = [handled EXCEPT ![p] = @ + 1]
      /\ sqlActive' = (sqlActive \/ (ok /\ p \in Database))
      /\ viewed' = IF ok /\ p \in Script /\ ~sqlActive /\ viewed = <<>> THEN <<p>> ELSE viewed
      /\ IF rest = <<>>
           THEN drains' = [drains EXCEPT ![d] = NotDraining] /\ effects' = AfterDrain(d)
           ELSE drains' = [drains EXCEPT ![d].items = rest] /\ effects' = effects
      /\ UNCHANGED <<openQueue, pushed, pushes, missed>>

Subscribed ==
  /\ \E e \in DOMAIN effects :
       effects[e] = "subscribing" /\ effects' = [effects EXCEPT ![e] = "listening"]
  /\ UNCHANGED <<openQueue, pushed, pushes, drains, sqlActive, viewed, handled, missed>>

\* The effect runs anew: the cleanup of the last run, then a drain.
Rerun ==
  /\ Len(effects) < MaxMounts
  /\ effects' = Append([e \in DOMAIN effects |-> "gone"], "draining")
  /\ \E d \in Drain :
       drains[d] = NotDraining /\ drains' = [drains EXCEPT ![d] = Asked(Len(effects'))]
  /\ UNCHANGED <<openQueue, pushed, pushes, sqlActive, viewed, handled, missed>>

Dismiss ==
  /\ viewed # <<>> /\ viewed' = <<>>
  /\ UNCHANGED <<openQueue, pushed, pushes, effects, drains, sqlActive, handled, missed>>

\* The user goes to another workspace, or closes the last one.
SwitchWorkspace ==
  /\ sqlActive' = ~sqlActive
  /\ UNCHANGED <<openQueue, pushed, pushes, effects, drains, viewed, handled, missed>>

OpenOne(d) == OpenNext(d, TRUE) \/ OpenNext(d, FALSE)

OpenNextState ==
  \/ \E p \in Path : QueueOpen(p)
  \/ \E d \in Drain : Take(d) \/ OpenOne(d)
  \/ Subscribed \/ Rerun \/ Dismiss \/ SwitchWorkspace

\* Calls of the core return and the listener is installed in the end.
OpenFairness ==
  WF_openVars(Subscribed) /\ \A d \in Drain : WF_openVars(Take(d)) /\ WF_openVars(OpenOne(d))

OpenSpec == OpenInit /\ [][OpenNextState]_openVars /\ OpenFairness

------------------------------------------------------------------------------
(* Properties.                                                             *)

\* A file that was queued is waiting, in the hands of one drain, or was handled: drains under
\* way at a time split the work, none opens a file twice and none loses one (osFileOpen.ts
\* drain, openAll).
QueuedIsHandledOnce ==
  \A p \in Path :
    pushed[p] = handled[p] + InHand(p) + (IF p \in ToSet(openQueue) THEN 1 ELSE 0)

\* Every file is handled in the end, unless one came in between the drain on mount and the
\* listener (osFileOpen.ts 176-204).
FilesAreHandled == \A p \in Path : []<>(missed \/ handled[p] = pushed[p])

\* Does not hold: with the listener up and no drain under way, nothing waits ("a missed
\* nudge cannot lose a file", osFileOpen.ts).
MissedNudgeLosesNothing ==
  Listening /\ (\A d \in Drain : drains[d] = NotDraining) => openQueue = <<>>
================================================================================
