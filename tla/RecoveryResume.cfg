SPECIFICATION Spec
CONSTANTS
  d1 = d1  d2 = d2  jpg = jpg
  MaxRows = 5
  Ext <- PlainExt
  Name <- PlainName
  Chunks <- PlainChunks
  SaveDirs <- OneDir
  PageSize = 2
  FolderLimit = 3
  Faults = {}
  NoRow = NoRow
  MaxRuns = 2
INVARIANTS ResumeReachesAll
