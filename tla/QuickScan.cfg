\* One of the small volumes, with dead and flaky sectors at every level.
SPECIFICATION FairSpec
CONSTANTS
  Volumes <- MCVolumes
  Junk <- MCJunk
  SectorBytes = 8
  ClusterSectors = 2
  Word = 44
  Eoc = 30
  BadMark = 29
  CacheSize = 2
  MaxDepth = 2
  MaxExtents = 6
  BatchRecords = 3
  RecordSectors = 2
  FallbackCount = 10
  Digit = 4
  WordBytes = 5
INVARIANTS TypeOK ExtentsAreTheFile SoundFilesAreReported NamesAreOwn
PROPERTY EnumerationEnds
CHECK_DEADLOCK FALSE
