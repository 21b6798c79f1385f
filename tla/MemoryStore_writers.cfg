CONSTANTS
  Callers = {c1, c2}
  Ids = {m1, m2, m3}
  Keywords = {k1}
  Pks = {1, 2, 3}
  NoId = NoId
  NoCaller = NoCaller
  MaxVotes = 0
  MaxReads = 0
SPECIFICATION Spec
SYMMETRY Symmetry
INVARIANTS LinksForward CorrectionIsWhole OneCorrection
