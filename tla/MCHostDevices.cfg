SPECIFICATION MCSpec
INVARIANTS
  OwnImage
  ConnectSparesHandles
  StateTellsDevice
  NotPulledUnderMount
PROPERTIES
  ConnectEnds
CHECK_DEADLOCK FALSE
CONSTANTS
  h1 = h1
  Handles = {h1, h2}
  LockFile <- OneLock
  NumDevices = 2
  Nobody = Nobody
  Foreign = Foreign
  MaxFaults = 1
  MaxForeign = 1
