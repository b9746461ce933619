SPECIFICATION ConnectionsSpec
CONSTANTS
  h1 = h1
  h2 = h2
  t1 = t1
  t2 = t2
  Handle = {h1, h2}
  Task = {t1, t2}
  NoHandle = NoHandle
  k1 = k1  k2 = k2  j1 = j1  j2 = j2  pw1 = pw1  pw2 = pw2
  Conn = {k1, k2}  Secret = {pw1, pw2}  NoSecret = NoSecret  Unread = Unread
  NoRow = NoRow  NoFill = NoFill  Job = {j1, j2}
  Typed <- MCTyped  Bundle <- MCBundle  MaxJobs = 2
  TableCount = 3  Schemas <- MCSchemas  ChunkCount = 2  PoolCap = 2  MaxGenerates = 1  MaxUnread = 1
INVARIANT ExistingRowsAreIntact
