SPECIFICATION Spec
CONSTANTS
  Jobs = {j1, j2}
  Owners = {wa, wb, wc}
  NoJob = NoJob
  Nobody = Nobody
  MaxLease = 2
  MaxDelay = 2
  OwnersReused = FALSE
INVARIANTS
  TypeOK
  LeaseIsExclusive
  LiveLeaseHolds
PROPERTIES
  LateCallsChangeNothing
  SettledStays
  LostWorkIsRecovered
