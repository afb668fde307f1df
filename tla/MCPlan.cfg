SPECIFICATION MCSpec
INVARIANTS
  SortIsRight
  FailFastStops
  RollbackUndoes
  OriginalIsKept
  WavesAreRight
PROPERTIES
  UndoStaysPossible
CHECK_DEADLOCK FALSE
CONSTANTS
  o1 = o1
  o2 = o2
  o3 = o3
  f1 = f1
  f2 = f2
  i1 = i1
  i2 = i2
  i3 = i3
  Ops = {o1, o2, o3}
  Unknown = Unknown
  Images = {i1, i2, i3}
  Files = {f1, f2}
  MaxFaults = 2
  MaxApplies = 2
  MaxOfflineFaults = 2
  MaxOfflineApplies = 2
