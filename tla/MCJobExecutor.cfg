SPECIFICATION ExecSpec
INVARIANTS
  ExecTypeOK
  TransitionsAccepted
  IdempotentInProcess
  GaugeCoversInFlight
  LeftBehindOnlyByTimeout
PROPERTIES
  ResultsAreKept
CHECK_DEADLOCK FALSE
CONSTANTS
  j1 = j1
  j2 = j2
  j3 = j3
  k1 = k1
  NoJob = NoJob
  NoKey = NoKey
  Workers = {w1}
  Jobs = {j1, j2, j3}
  Keys = {k1}
  KeyOf <- MCKeyOf
  MaxDeliveries = 3
