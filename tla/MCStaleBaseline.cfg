SPECIFICATION BaselineSpec
CONSTANTS
  i1 = i1
  w1 = w1
  k1 = k1
  c1 = c1
  Ids = {i1}
  Workspaces = {w1}
  Keys = {k1}
  Contents = {c1}
  Ranks = {0}
  Pins = {TRUE}
  RecordInputs <- MCRecords
  DreamInputs <- MCRecords
  Global = Global
  NoKey = NoKey
  NoMemory = NoMemory
  MaxTime = 0
  MaxRevision = 2
  Clients = {ca}
  Queried <- MCQueried
  Budgets = {b1}
  NoRequest = NoRequest
  NoBaseline = NoBaseline
PROPERTIES
  NotModifiedMeansUnchanged
