SPECIFICATION RailSpec
CONSTANTS
  h1 = h1  h2 = h2  s1 = s1  s2 = s2  c1 = c1  c2 = c2
  Handle = {h1, h2}
  Scope = {s1, s2}
  NoScope = NoScope
  NoHandle = NoHandle
  Call = {c1, c2}
  NoCall = NoCall
  MaxOpens = 2
  MaxRail = 3
  MaxDepth = 3
  MaxReopens = 1
  Url <- MCUrl  Edits <- MCEdits  Entry <- MCEntry  NoParams = NoParams  Closed = Closed  MaxEdits = 2  MaxTests = 1
SYMMETRY Symmetry
CHECK_DEADLOCK FALSE
INVARIANTS
  WellFormed
  EntryReopensAsSaved
  HandleLivesAsLongAsItsUsers
  ModeSettles
