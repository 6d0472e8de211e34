SPECIFICATION Spec
CONSTANTS
  Disk <- MCDisk
  Ends = {13, 18}
  Damage <- MCDamage
  Flaky = {}
  Readers <- SkippingReader
  Resumes = {0}
  Wanted = {"jpg", "png", "gif", "mp4", "avi"}
  Confidence <- MCConfidence
  Heuristic <- MCHeuristic
  Ended = {"gif"}
  Batch = 4
  Word = 16
  BadLimit = 2
  SkipLen = 1
  Overlap = 1
  HeaderLen = 1
  FooterChunk = 2
  ImageCap = 4
  Probe = 1
  VideoReach = 4
  DefaultImage = 2
  DefaultVideo = 3
  BlockChunks = 2
  Gap = 4
CHECK_DEADLOCK FALSE
INVARIANT BadSectorsAreIsolated
