SPECIFICATION Spec
CONSTANTS
  Jobs = {j1, j2}
  Owners = {wa, wb}
  NoJob = NoJob
  Nobody = Nobody
  MaxLease = 2
  MaxDelay = 2
  OwnersReused = TRUE
INVARIANTS
  LeaseIsExclusive
