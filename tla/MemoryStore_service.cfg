CONSTANTS
  Callers = {c1, c2}
  Ids = {m1, m2}
  Keywords = {k1}
  Pks = {1, 2}
  NoId = NoId
  NoCaller = NoCaller
  MaxVotes = 2
  MaxReads = 1
SPECIFICATION Spec
SYMMETRY Symmetry
INVARIANTS IndexesInSync IInv
PROPERTIES SupersededFrozen ImplementsService
