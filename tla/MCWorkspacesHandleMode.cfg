SPECIFICATION MCSpec
CONSTANTS
  h1 = h1
  h2 = h2
  s1 = s1
  s2 = s2
  c1 = c1
  c2 = c2
  Handle = {h1, h2}
  Scope = {s1}
  NoScope = NoScope
  NoHandle = NoHandle
  Call = {c1}
  NoCall = NoCall
  MaxOpens = 2
  MaxRail = 2
  MaxDepth = 2
  MaxReopens = 1
SYMMETRY Symmetry
CHECK_DEADLOCK FALSE
INVARIANTS
  HandleCarriesActiveMode
