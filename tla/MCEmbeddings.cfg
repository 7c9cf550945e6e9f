SPECIFICATION EmbeddingSpec
CONSTANTS
  i1 = i1
  i2 = i2
  w1 = w1
  c1 = c1
  c2 = c2
  old = old
  Ids = {i1, i2}
  Workspaces = {w1}
  Keys = {}
  Contents = {c1, c2}
  Ranks = {0}
  Pins = {}
  RecordInputs <- MCRecords
  DreamInputs = {}
  Global = Global
  NoKey = NoKey
  NoMemory = NoMemory
  MaxTime = 1
  MaxRevision = 3
  LegacyContents = {c1, old}
  Rehash <- MCRehash
  Versions = {3, 8, 9}
  LegacyTables <- MCLegacyTables
  LegacyRevisions <- MCLegacyRevisions
  Embedders = {e1, e2}
  Limit = 1
  MaxFaults = 2
  NoVector = NoVector
INVARIANTS
  EmbeddingTypeOK
  MatchesAreCurrent
PROPERTIES
  UpgradeMergesDuplicates
  MissingVectorsAreMade
