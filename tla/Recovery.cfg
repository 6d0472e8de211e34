\* Two rows on two pages and in two folders, over two targets.
SPECIFICATION FairSpec
CONSTANTS
  d1 = d1  d2 = d2  jpg = jpg
  MaxRows = 2
  Ext <- MCExt
  Name <- MCName
  Chunks <- MCChunks
  SaveDirs <- MCDirs
  PageSize = 1
  FolderLimit = 1
  Faults = {"crash", "db", "disk", "create", "copy"}
  NoRow = NoRow
  MaxRuns = 2
INVARIANTS NoHalfFiles IndexCountsRows SavedIsHandled RecoveredIsOnDisk FreshRunHandlesAll
PROPERTIES StopRecoveryReturns RecoveryEnds
