SPECIFICATION BackgroundSpec
CONSTANTS
  a = a  b = b  t1 = t1  t2 = t2
  Id = {a}  Task = {t1}  Rec <- OneRec  NextDue <- MCNextDue  Scheduler = Scheduler
  Absent = Absent  None = None  DiskOutcome = {TRUE}
  MaxHistory = 2  MaxTime = 3  MaxCrashes = 1  MaxSetbacks = 1
  c1 = c1  c2 = c2  Conn = {c1, c2}  MaxKept = 1  MaxChanges = 5
  NoEntry = NoEntry  NoKids = NoKids
  db = db  s1 = s1  s2 = s2  d1 = d1  d2 = d2
  Database = {db}  Script = {s1, s2}  Drain = {d1, d2}  MaxPushes = 3  MaxMounts = 2
INVARIANTS QueuedIsHandledOnce
PROPERTIES DueIsServed SavesWhatIsShown ChangeIsStored FilesAreHandled
