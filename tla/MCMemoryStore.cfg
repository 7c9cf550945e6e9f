SPECIFICATION Spec
CONSTANTS
  i1 = i1
  i2 = i2
  w1 = w1
  k1 = k1
  c1 = c1
  Ids = {i1, i2}
  Workspaces = {w1}
  Keys = {k1}
  Contents = {c1}
  Ranks = {0, 3}
  Pins = {TRUE}
  RecordInputs <- MCRecords
  DreamInputs <- MCDreams
  Global = Global
  NoKey = NoKey
  NoMemory = NoMemory
  MaxTime = 1
  MaxRevision = 2
INVARIANTS
  TypeOK
  UniqueActiveIdentity
  ValidIntervals
PROPERTIES
  SensitivityNeverLowered
  RevisionCoversViews
  OnlyForgetErasesUsableRows
  RememberIsRecallable
  ExpiredEventuallyGone
