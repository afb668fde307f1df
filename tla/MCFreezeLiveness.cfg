SPECIFICATION MCSpec
INVARIANTS
  ActiveFreezeHolds
PROPERTIES
  SnapshotReleases
  CutoverReleases
CONSTANTS
  Channels = {c1}
  c1 = c1
  Boot = Boot
  NoSnapshot = NoSnapshot
  NoMarker = NoMarker
  Ops = {"prepare", "complete", "enter", "exit"}
  Services = {s1}
  s1 = s1
  StateOnRoot = TRUE
  MaxRequests = 3
  MaxCutovers = 2
  MaxCrashes = 2
  MaxMishaps = 0
CHECK_DEADLOCK FALSE
