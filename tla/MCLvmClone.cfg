SPECIFICATION MCSpec
INVARIANTS
  LeavesNoRest
  UpdatedFilesMatchDevice
  HostWipedOnlyByLeak
PROPERTIES
  RemovesOnlyOwn
CHECK_DEADLOCK FALSE
CONSTANTS
  c1 = c1
  v1 = v1
  Clones = {c1, c2}
  Targets = {v1, v2}
  NoClone = NoClone
  MaxFaults = 2
