CONSTANTS
  fact = fact
  decision = decision
  near = near
  far = far
  key = key
  Ids = {m1, m2}
  Words = {w}
  Kinds = {fact, decision}
  Hour = 2
  Month = 4
  Null = Null
  Procs = {p1, p2}
  Files = {main, copy}
  Releases = {1, 2, 3, 4, 5}
  Pks = {1, 2}
  Configs <- MCConfigs
  Envs <- MCEnvs
  Length <- MCLength
  None = None
  Forms <- MCForms
  Times = {0, 3}
  MaxChanges = 2
SPECIFICATION Spec
SYMMETRY Symmetry
INVARIANTS TypeOK IndexesFollow NothingLost EndpointHonest OrderlyConfig
