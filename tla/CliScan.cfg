SPECIFICATION FairSpec
CONSTANTS
  f1 = f1
  f2 = f2
  f3 = f3
  Files <- MCFiles
  FlushThreshold = 2
  Faults = {"db", "open", "log"}
INVARIANT ExitKeepsFiles
PROPERTY InterruptEnds
\* The process ends.
CHECK_DEADLOCK FALSE
