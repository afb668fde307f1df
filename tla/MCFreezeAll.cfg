SPECIFICATION Spec
INVARIANTS
  NeverUnwatched
CONSTANTS
  Channels = {c1, c2}
  c1 = c1
  c2 = c2
  Boot = Boot
  NoSnapshot = NoSnapshot
  NoMarker = NoMarker
  Ops = {"prepare", "complete", "enter", "exit", "freeze", "thaw", "qga_freeze", "qga_thaw"}
  Services = {s1}
  s1 = s1
  StateOnRoot = TRUE
  MaxRequests = 2
  MaxCrashes = 1
  MaxMishaps = 1
SYMMETRY Symmetric
CHECK_DEADLOCK FALSE
