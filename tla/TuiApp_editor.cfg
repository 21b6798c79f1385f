CONSTANTS
  h1 = h1
  h2 = h2
  h3 = h3
  Ids = {m1, m2}
  Handles = {h1, h2, h3}
  First = h1
  None = None
  MaxCmds = 2
SPECIFICATION Spec
CHECK_DEADLOCK FALSE
INVARIANT EditorStays
