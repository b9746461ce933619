SPECIFICATION GridSpec
CONSTANTS
  row1 = row1  row2 = row2  req1 = req1  req2 = req2
  Row <- MCRow  Orders <- MCOrders  Filters <- MCFilters  Request <- MCRequest
  PageSize = 1  MaxChanges = 1  MaxMounts = 2
  cell1 = cell1  value1 = value1  save1 = save1  save2 = save2
  Cell = {cell1}  Value = {value1}  Saving = {save1, save2}  Original = Original  NoDraft = NoDraft
  NoBatch = NoBatch  MaxStaged = 2  MaxGrids = 2
SYMMETRY GridSym
INVARIANTS GridWellFormed SettledPageIsTheView
PROPERTIES ProductionRunsWhatWasShown StagedRowsAreKept
CHECK_DEADLOCK FALSE
