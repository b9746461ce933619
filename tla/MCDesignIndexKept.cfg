SPECIFICATION Spec
CONSTANTS
  sch1 = sch1  tab1 = tab1  view1 = view1  fetch1 = fetch1  fetch2 = fetch2
  Schema = {sch1}  Table = {tab1}  ObjKind = {view1}  Fetch = {fetch1, fetch2}  NoFetch = NoFetch
  MaxDdl = 1  Uses <- MCUses
  sketch1 = sketch1  sketch2 = sketch2  card1 = card1
  Sketch = {sketch1, sketch2}  Card = {card1}  NoObject = NoObject  HistoryLimit = 2  MaxRev = 2
  KnownBoards <- MCKnownBoards
  colA = colA  colB = colB  colNew = colNew
  index1 = index1  index2 = index2  typeX = typeX  typeY = typeY
  Columns <- MCColumns  NewColumn = colNew
  ColumnName = {colA, colB, colNew}  Setting = {typeX, typeY}
  FirstSetting = typeX  IndexName = {index1, index2}  Indexes <- MCIndexes
  MaxOps = 3  MaxStagings = 3  MaxApplies = 1
  tbl1 = tbl1  tbl2 = tbl2  tbl3 = tbl3  idCol = idCol  colMore = colMore
  Seeds <- MCSeeds  TableName = {tbl1, tbl2, tbl3}  NewTables <- MCNewTables
  ColName = {idCol, colB, colMore}  NewCols <- MCNewCols
  IdCol = idCol  TextType = typeY  IntType = typeX
  ColType = {typeX, typeY}  NoName = NoName  NoSchema = NoSchema
  MaxStaged = 2  MaxRebuilds = 3  MaxReloads = 1
SYMMETRY Sym
PROPERTY KeptIndexIsKept
CHECK_DEADLOCK FALSE
