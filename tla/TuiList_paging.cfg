CONSTANTS
  r1 = r1
  r2 = r2
  r3 = r3
  oldest = oldest
  newest = newest
  search = search
  review = review
  Rows = {r1, r2, r3}
  Stored <- TwoRows
  Queries = {oldest, search, review}
  Asks <- MCAsks
  Disliked = {r2}
  Page = 1
  Wide = 3
  MaxSeq = 3
  MaxCmds = 2
  MaxFails = 1
  MaxChanges = 1
SPECIFICATION Spec
INVARIANTS TypeOK NoDuplicates ShownIsCurrent SpinnerTruthful GuardReleased OrderlyPaging
