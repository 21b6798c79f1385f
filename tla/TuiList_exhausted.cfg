CONSTANTS
  r1 = r1
  r2 = r2
  r3 = r3
  oldest = oldest
  newest = newest
  search = search
  review = review
  Rows = {r1, r2, r3}
  Stored <- ThreeRows
  Queries = {oldest, newest}
  Asks <- MCAsks
  Disliked = {r2}
  Page = 1
  Wide = 3
  MaxSeq = 3
  MaxCmds = 2
  MaxFails = 0
  MaxChanges = 0
SPECIFICATION Spec
INVARIANT ExhaustedIsTrue
