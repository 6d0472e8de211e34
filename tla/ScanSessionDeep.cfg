SPECIFICATION Spec
CONSTANTS
  m1 = m1  m2 = m2  i1 = i1  i2 = i2  i3 = i3  v1 = v1  v2 = v2  v3 = v3
  Files <- MCFiles
  MetaFiles <- MCMetaFiles
  Videos <- MCVideos
  Key <- MCKey
  Pos <- MCPos
  Size <- MCSize
  Follows <- MCFollows
  StartSector = 0
  EndSector = 10
  MetaEnd = 2
  HasMeta = TRUE
  Batch = 3
  Word = 6
  Overlap = 1
  FlushThreshold = 2
  Modes = {"deep"}
  Faults = {"crash", "insert", "boot", "open", "db"}
  NoRow = NoRow
  MaxRuns = 3
INVARIANTS TypeOK NoDuplicateRows ScannedIsAccounted ResumePointIsCovered CompleteScanStoresAll
PROPERTIES CrashLosesFew SavedProgressAdvances
