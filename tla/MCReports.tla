------------------------------ MODULE MCReports ------------------------------
(* Scheduled reports: a behaviour drives the store and its loop, or the      *)
(* calendar: seven weeks of four-slot days, months of two to nine days, and  *)
(* clocks jumping by a day's quarter or half, either way, at every instant   *)
(* of two days.                                                              *)
EXTENDS MCSchedules, Recurrence

MCFirstDayOf == [m \in 1..9 |-> <<0, 5, 7, 14, 17, 26, 31, 38, 45>>[m]]

MCZones == [jump : 40..47, before : 0..2, after : 0..2]

MCRecurrences ==
  [kind : {"every"}, day : {1, 3, 9}, slot : {0}]
    \cup [kind : {"daily"}, day : {0}, slot : 0..3]
    \cup [kind : {"weekly"}, day : {0, 3, 6}, slot : 0..3]
    \cup [kind : {"monthly"}, day : {1, 2, 3, 6, 9}, slot : 0..3]

VARIABLE driven

SomeZone == CHOOSE z \in MCZones : TRUE
SomeRecurrence == CHOOSE r \in MCRecurrences : TRUE

CalendarPinned == zone = SomeZone /\ recurrence = SomeRecurrence /\ computedAt = 0

MCInit ==
  /\ driven \in {"store", "calendar"}
  /\ Init /\ CalendarInit
  /\ driven = "store" \/ created = {}
  /\ driven = "calendar" \/ CalendarPinned

MCNext ==
  \/ driven = "store" /\ Next /\ UNCHANGED <<calendarVars, driven>>
  \/ driven = "calendar" /\ ComputeNext /\ UNCHANGED <<vars, driven>>

MCSpec == MCInit /\ [][MCNext]_<<vars, calendarVars, driven>>
==============================================================================
