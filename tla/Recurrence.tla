----------------------------- MODULE Recurrence -----------------------------
(***************************************************************************)
(* When a schedule runs next: Recurrence::next_due_after of               *)
(* features/schedules/domain/mod.rs, over a local calendar whose clock     *)
(* jumps.                                                                  *)
(*                                                                         *)
(* Time is counted in slots of a day (the code's minutes).  An instant has *)
(* one wall-clock reading, its offset added; a reading may belong to no    *)
(* instant (clocks went forward) or to two (clocks went back).  Days and   *)
(* months are numbered, day 0 being a Sunday.                              *)
(***************************************************************************)
EXTENDS Integers

CONSTANTS
  SlotsPerDay,  \* 1440 in the code
  GapLimit,     \* how far local_at walks, 180 in the code
  MinEvery,     \* MIN_EVERY_MINUTES
  FirstDayOf,   \* the first day of each month
  Zones,        \* clocks: the offset before and from the instant they jump at
  Recurrences,  \* the schedules considered
  LastClock     \* bound: the last instant a next run is computed at

Kind == {"every", "daily", "weekly", "monthly"}
Month == DOMAIN FirstDayOf

ASSUME RecurrenceAssumption ==
  /\ SlotsPerDay \in Nat \ {0} /\ GapLimit \in 1..SlotsPerDay /\ MinEvery \in Nat \ {0}
  /\ LastClock \in Nat
  /\ Month \subseteq Nat /\ FirstDayOf \in [Month -> Nat]
  /\ \A m, n \in Month : m < n => m + 1 \in Month /\ FirstDayOf[m] < FirstDayOf[n]

\* Every day a clock shows has its month and the next one.
ASSUME MonthsReachFarEnough ==
  \A day \in 0..((LastClock + 2 * SlotsPerDay) \div SlotsPerDay) :
    \E m \in Month : m + 2 \in Month /\ FirstDayOf[m] <= day /\ day < FirstDayOf[m + 1]

\* What validation_error lets through.
ASSUME RecurrencesAreValid ==
  /\ Recurrences \subseteq [kind : Kind, day : Nat, slot : 0..(SlotsPerDay - 1)]
  /\ \A r \in Recurrences :
       (r.kind = "weekly" => r.day < 7) /\ (r.kind = "monthly" => r.day >= 1)

\* Clocks go forward by less than the walk's limit, and back to no time before the first.
ASSUME ZonesAssumption ==
  /\ Zones \subseteq [jump : Nat \ {0}, before : 0..SlotsPerDay, after : 0..SlotsPerDay]
  /\ \A z \in Zones : z.after - z.before < GapLimit /\ z.before <= z.jump + z.after

VARIABLES
  zone,
  recurrence,
  computedAt,  \* the instant the next run was computed at
  nextRun      \* the next run, or NoOccurrence

calendarVars == <<zone, recurrence, computedAt, nextRun>>

NoOccurrence == -1

-----------------------------------------------------------------------------
\* The operating system's clock: what a wall shows at an instant.
Reading(i) == i + (IF i < zone.jump THEN zone.before ELSE zone.after)

Today(i) == Reading(i) \div SlotsPerDay

\* Local.from_local_datetime: the instants with a reading.
Named(reading) ==
  {i \in {reading - zone.before, reading - zone.after} : i >= 0 /\ Reading(i) = reading}

Earliest(instants) == CHOOSE i \in instants : \A j \in instants : i <= j

MonthOf(day) ==
  CHOOSE m \in Month : FirstDayOf[m] <= day /\ (m + 1 \in Month => day < FirstDayOf[m + 1])

LastDayOfMonth(m) == FirstDayOf[m + 1] - FirstDayOf[m]

\* The month's last day stands for the days it does not have.
ClampedDay(m, day) ==
  FirstDayOf[m] + (IF day <= LastDayOfMonth(m) THEN day ELSE LastDayOfMonth(m)) - 1

\* Bug variant: a reading that does not exist is given up.
LocalAtOrGiveUp(day, slot) ==
  LET instants == Named(day * SlotsPerDay + slot)
  IN  IF instants = {} THEN NoOccurrence ELSE Earliest(instants)

\* The instant of a day's slot: the earlier of two; in a gap, walk forward to the
\* first reading that exists, for at most GapLimit.
LocalAt(day, slot) ==
  LET target == day * SlotsPerDay + slot
      exists == {extra \in 0..(GapLimit - 1) : Named(target + extra) # {}}
  IN  IF exists = {} THEN NoOccurrence ELSE Earliest(Named(target + Earliest(exists)))

\* The first of two candidate days whose instant exists and is after the clock.
FirstAfter(after, first, second, slot) ==
  IF LocalAt(first, slot) > after THEN LocalAt(first, slot)
  ELSE IF LocalAt(second, slot) > after THEN LocalAt(second, slot)
  ELSE NoOccurrence

\* next_due_after, by kind. In a weekly recurrence `day` is the weekday, in a
\* monthly one the day of the month, in an interval the slots between runs.
NextDueAfter(r, after) ==
  LET today == Today(after)
      ahead == (r.day + 7 - (today % 7)) % 7
      month == MonthOf(today)
  IN  CASE r.kind = "every" -> after + (IF r.day < MinEvery THEN MinEvery ELSE r.day)
        [] r.kind = "daily" -> FirstAfter(after, today, today + 1, r.slot)
        [] r.kind = "weekly" -> FirstAfter(after, today + ahead, today + ahead + 7, r.slot)
        [] r.kind = "monthly" ->
             FirstAfter(after, ClampedDay(month, r.day), ClampedDay(month + 1, r.day), r.slot)

-----------------------------------------------------------------------------
CalendarInit ==
  /\ zone \in Zones
  /\ recurrence \in Recurrences
  /\ computedAt \in 0..(SlotsPerDay - 1)
  /\ nextRun = NextDueAfter(recurrence, computedAt)

\* The loop finds the schedule due, at its instant or later, and reschedules it.
ComputeNext ==
  /\ nextRun # NoOccurrence
  /\ computedAt' \in nextRun..LastClock
  /\ nextRun' = NextDueAfter(recurrence, computedAt')
  /\ UNCHANGED <<zone, recurrence>>

CalendarSpec == CalendarInit /\ [][ComputeNext]_calendarVars

-----------------------------------------------------------------------------
(* Properties.                                                             *)

\* The days a calendar recurrence names, said without candidates.
Matches(r, day) ==
  \/ r.kind = "daily"
  \/ r.kind = "weekly" /\ day % 7 = r.day
  \/ r.kind = "monthly" /\ \E m \in Month : m + 1 \in Month /\ day = ClampedDay(m, r.day)

\* The furthest a wall clock has been by an instant.
Shown(i) ==
  LET before == Reading(zone.jump - 1)
  IN  IF i >= zone.jump /\ before > Reading(i) THEN before ELSE Reading(i)

\* It runs when the wall clock first shows, or jumps over, its time on such a day.
IsOccurrence(r, i) ==
  \E day \in Today(i) - 1 .. Today(i) + 1 :
    LET target == day * SlotsPerDay + r.slot
    IN  Matches(r, day) /\ Shown(i - 1) < target /\ target <= Shown(i)

\* Clocks that go back over midnight show a date twice; no zone's does today.
DatesAdvance == Today(zone.jump - 1) <= Today(zone.jump)

\* "The first occurrence strictly AFTER": two candidate days are enough, however
\* months clamp and clocks jump; no matching day is skipped, none runs twice.
DueIsNextOccurrence ==
  DatesAdvance =>
    /\ nextRun > computedAt
    /\ recurrence.kind # "every" =>
         /\ IsOccurrence(recurrence, nextRun)
         /\ \A i \in (computedAt + 1)..(nextRun - 1) : ~IsOccurrence(recurrence, i)
=============================================================================
