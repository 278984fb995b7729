CONSTANTS
  w1 = w1
  w2 = w2
  Workers <- MCWorkers
  Existing = 2
  MaxRequests = 3
SPECIFICATION Spec
INVARIANTS
  TypeOK
  OneDefaultUnlessRaced
  DefaultKept
  CustomerInSync
CHECK_DEADLOCK FALSE
