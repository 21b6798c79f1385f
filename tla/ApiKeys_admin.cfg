CONSTANTS
  KeyIds = {k1, k2}
  Labels = {ann, bob}
  Spaces = {teamA, teamB, badName}
  ValidSpaces = {teamA, teamB}
  MaxTime = 2
  NoKey = NoKey
  Admins = {a1, a2}
  NoOne = NoOne
SPECIFICATION Spec
INVARIANTS TypeOK SpacesHaveKeys RevokeIsKept
PROPERTIES RevocationSticks ImplementsKeyRing
