SPECIFICATION MCSpec
INVARIANTS
  RunsAreAccounted
  StatusTellsPlace
PROPERTIES
  NoFileIsForgotten
CHECK_DEADLOCK FALSE
CONSTANTS
  j1 = j1
  j2 = j2
  Jobs = {j1, j2}
  Ids = {j1, j2}
  NoJob = NoJob
  MaxSubmits = 3
  MaxCrashes = 2
  MaxMishaps = 1
