SPECIFICATION Spec
CONSTANTS
  Requests = {r1, r2, r3}
  Digests = {d1, d2}
  Workers = {wa, wb}
  NoReceipt = NoReceipt
  NoResponse = NoResponse
  Idle = Idle
  Reserve = 3
  MaxBytes = 5
  MaxRows = 2
  Retention = 1
  MaxTime = 3
INVARIANTS
  TypeOK
  AtMostOnce
  NothingRunsUnrecorded
  AnswersAreTheRecord
  WithinCapacity
PROPERTIES
  ReceiptsAreKept
  ImplementsOnceOnly
