\* Four volumes on four disks, one of them on two, and a share.
SPECIFICATION Spec
CONSTANTS
  MaxDrives = 32
  Openable = {1, 2, 6}
  Letters <- MCLetters
  Extents <- MCExtents
  Silent = {"G"}
  Paths <- MCPaths
  NoLetter = NoLetter
  NoDrive = NoDrive
INVARIANTS TargetsOnDistinctDisks TargetsSpareTheDriveAskedFor
