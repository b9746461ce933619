SPECIFICATION Spec
CONSTANTS
  w1 = w1  w2 = w2  h1 = h1  h2 = h2  a1 = a1  a2 = a2
  Strip <- MCStrip  Subject <- MCSubject  MaxOpened = 3  Scopes <- MCScopes
  t1 = t1  t2 = t2  t3 = t3  a = a  b = b  r1 = r1  r2 = r2
  SqlTab = {t1, t2, t3}  HomeOf <- MCHomeOf  Sql = {a, b}  Statements <- MCStatements
  Parametric = {b}  RunSlot = {r1, r2}  HistoryMax = 2  MaxRuns = 3
  x1 = x1  v1 = v1  q1 = q1  q2 = q2  c1 = c1  c2 = c2
  QueryTab = {t1, t2}  Text = {x1}  Filled = {v1}  Query = {q1, q2}  None = None
  Call = {c1, c2}  MaxCalls = 3
SYMMETRY Sym
INVARIANTS WellFormed ListIsTheFile
PROPERTIES StagedWorkIsAskedFor ResultsOfOwnRun ParametersAreFilled
CHECK_DEADLOCK FALSE
