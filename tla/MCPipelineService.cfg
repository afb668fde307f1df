SPECIFICATION ServiceSpec
INVARIANTS
  StatusTruthful
PROPERTIES
  CompletedIsFinal
  DeliveryImplemented
  EntriesSettle
CHECK_DEADLOCK FALSE
CONSTANTS
  NoJob = NoJob
  NoKey = NoKey
  Workers = {w1}
  Jobs = {j1, j2}
  Keys = {}
  KeyOf <- MCKeyOf
  Readers = {r1, r2}
  MaxDeliveries = 3
  MaxCrashes = 1
  MaxMishaps = 1
