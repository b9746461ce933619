----------------------------- MODULE MCBackground -----------------------------
(* What must happen without anyone asking again: a behaviour drives the      *)
(* scheduler and its stores, the sessions that are saved and restored, or    *)
(* the files the OS asks for.                                                *)
EXTENDS Sessions, OsFileOpen, MCSchedules
CONSTANTS c1, c2, db, s1, s2, d1, d2

\* What the rails are selected with is SelectSeq.
ASSUME SelectionAssumption ==
  \A s \in UNION {[1..n -> 1..3] : n \in 0..4}, T \in SUBSET (1..3) :
    OnlyIn(s, T) = SelectSeq(s, LAMBDA x : x \in T)

VARIABLE driven
backgroundVars == <<vars, sessVars, openVars, driven>>

\* A component that is not driven has one initial state.
ReportsPinned == created = {}
SessionsPinned == ~restoreTabs
FilesPinned == openQueue = <<>> /\ drains[d1] # NotDraining

BackgroundInit ==
  /\ driven \in {"reports", "sessions", "files"}
  /\ Init /\ SessInit /\ OpenInit
  /\ driven = "reports" \/ ReportsPinned
  /\ driven = "sessions" \/ SessionsPinned
  /\ driven = "files" \/ FilesPinned

BackgroundNext ==
  \/ driven = "reports" /\ Next /\ UNCHANGED <<sessVars, openVars, driven>>
  \/ driven = "sessions" /\ SessNext /\ UNCHANGED <<vars, openVars, driven>>
  \/ driven = "files" /\ OpenNextState /\ UNCHANGED <<vars, sessVars, driven>>

\* The fairness of each component's own specification, while it is the one driven.
BackgroundFairness ==
  /\ \A t \in Task : WF_vars(driven = "reports" /\ Commit(t))
  /\ \A x \in Actor : WF_vars(driven = "reports" /\ Run(x))
  /\ WF_vars(driven = "reports" /\ Loop)
  /\ WF_sessVars(driven = "sessions" /\ Flush)
  /\ WF_openVars(driven = "files" /\ Subscribed)
  /\ \A d \in Drain : /\ WF_openVars(driven = "files" /\ Take(d))
                      /\ WF_openVars(driven = "files" /\ OpenOne(d))

BackgroundSpec ==
  BackgroundInit /\ [][BackgroundNext]_backgroundVars /\ BackgroundFairness
===============================================================================
