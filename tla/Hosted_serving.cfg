CONSTANTS
  KeyIds = {k1, k2}
  Labels = {ann, bob}
  Spaces = {teamA, teamB}
  ValidSpaces = {teamA, teamB}
  MaxTime = 1
  NoKey = NoKey
  Requests = {r1, r2}
  Server = Server
  None = None
SPECIFICATION FairSpec
INVARIANTS TypeOK Isolation RevokedIsOut HandlesAccounted
PROPERTY Answered
