CONSTANTS
  Callers = {c1, c2}
  Ids = {m1, m2}
  Keywords = {k1}
  Pks = {1, 2}
  NoId = NoId
  NoCaller = NoCaller
  MaxVotes = 0
  MaxReads = 0
SPECIFICATION FairSpec
PROPERTIES CallsAnswered LockReleased
