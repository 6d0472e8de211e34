SPECIFICATION FairSpec
CONSTANTS
  d1 = d1  d2 = d2
  MaxFiles = 3
  Intact = {1, 3}
  SaveDirs <- MCDirs
  Faults = {"open", "directory", "write"}
  MaxRuns = 3
INVARIANTS TypeOK PausedIsShown IdleMeansStopped RecoveredIsListed CountIsOnDisk
PROPERTIES HandlerReturns EndIsShown
CHECK_DEADLOCK FALSE
