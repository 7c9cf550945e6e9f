SPECIFICATION Spec
CONSTANTS
  t1 = t1
  t2 = t2
  t3 = t3
  m1 = m1
  done = done
  Traces = {t1, t2, t3}
  Memories = {m1}
  Workers = {wa}
  Maintainer = Maintainer
  Batches <- MCBatches
  Outcomes = {done}
  NoOutcome = NoOutcome
  NoReceipt = NoReceipt
  Unserved = Unserved
  Idle = Idle
  Capacity = 2
  Retention = 0
  MaxTime = 2
  MaxAccess = 2
  MaxFailures = 0
  MaxCrashes = 0
PROPERTIES
  ServedTracesTakeReceipts
