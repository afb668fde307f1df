SPECIFICATION Spec
INVARIANTS
  TypeOK
  AtMostOnce
  PendingIsExact
  PendingMapBounded
SYMMETRY Symmetric
CHECK_DEADLOCK FALSE
CONSTANTS
  NoJob = NoJob
  NoKey = NoKey
  Workers = {w1, w2}
  Jobs = {j1, j2}
  Keys = {}
  KeyOf <- MCKeyOf
  Readers = {}
  MaxDeliveries = 3
  MaxCrashes = 1
  MaxMishaps = 1
