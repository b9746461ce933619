SPECIFICATION MCSpec
CONSTANTS
  a = a
  b = b
  t1 = t1
  t2 = t2
  Id = {a}
  Task = {t1, t2}
  Rec <- OneRec
  NextDue <- MCNextDue
  Scheduler = Scheduler
  Absent = Absent
  None = None
  DiskOutcome = {TRUE, FALSE}
  MaxHistory = 2
  MaxTime = 3
  MaxCrashes = 1
  MaxSetbacks = 1
  SlotsPerDay = 4
  GapLimit = 3
  MinEvery = 2
  FirstDayOf <- MCFirstDayOf
  Zones <- MCZones
  Recurrences <- MCRecurrences
  LastClock = 80
CHECK_DEADLOCK FALSE
SYMMETRY TaskSymmetry
INVARIANTS
  StoresAndGateSound
  LogKeepsNewestInOrder
  DueIsNextOccurrence
PROPERTY BoundedCatchUp
