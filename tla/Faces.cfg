CONSTANTS
  m1 = m1
  m2 = m2
  m3 = m3
  m4 = m4
  a = a
  b = b
  Ids = {m1, m2, m3, m4}
  Terms = {a, b}
  Day = 2
  DefaultLimit = 2
  MaxLimit = 3
  RecallLimit = 3
  DefaultBudget = 4
  Heading = 1
  Size <- MCSize
  Half = 4
  TextRank <- MCTextRank
  Stores <- MCStores
  Searches <- MCSearches
  Forms <- MCForms
  Batches <- MCBatches
  Packs <- MCPacks
  StartTime = 2
  MaxTime = 4
  MaxChanges = 3
  MaxTasks = 1
  NoId = NoId
SPECIFICATION Spec
CHECK_DEADLOCK FALSE
INVARIANTS TypeOK PagesWhole PackTruthful BatchIsPrefix
