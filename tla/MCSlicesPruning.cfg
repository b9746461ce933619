SPECIFICATION SlicesSpec
CONSTANTS
  Conn = {"d1", "d2"}
  SchemaName = {"n1", "n2"}
  HomeSchema = "n1"
  Nothing = Nothing
  MaxHandles = 2
  MaxLent = 1
  MaxLate = 1
  TableName = {1, 2}
  ColumnName = {1, 2}
  IndexName = {1}
  Type = {"int", "text"}
  Absent = Absent
  Report = {"r1", "r2"}
  Definition <- MCDefinition
  Day <- MCDay
  Stray <- MCNoStray
  MaxStem = 4
  LastNow = 5
  MaxClockBacks = 1
CHECK_DEADLOCK FALSE
PROPERTIES PrunesOnlyItsOwn
