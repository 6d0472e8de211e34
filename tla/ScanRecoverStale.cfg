SPECIFICATION Spec
CONSTANTS
  d1 = d1  d2 = d2
  MaxFiles = 2
  Intact = {1, 2}
  SaveDirs <- MCDirs
  Faults = {"open", "directory"}
  MaxRuns = 2
INVARIANT CompleteMeansExited
CHECK_DEADLOCK FALSE
