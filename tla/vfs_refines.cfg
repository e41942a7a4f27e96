\* No faults; with and without a disk; the table can run full.
CONSTANTS
  a = a
  b = b
  x = x
  y = y
  Name = {a, b}
  NoName = NoName
  RootName = RootName
  Byte = {x, y}
  Zero = Zero
  Unknown = Unknown
  Path <- MCPath
  Texts <- MCTexts
  CopyPairs <- MCSomePairs
  Worlds <- MCNoFaults
  FAULT_MAX = 0
  DiskFound = {TRUE, FALSE}
  FILE_MAX = 3
  DATA_SECTORS = 2
  META_SECTORS = 2
  META_HEADER = 1
  RECORD_SIZE = 2
  NAME_SIZE = 1
  SECTOR_SIZE = 4
  DEPTH_MAX = 4
SPECIFICATION Spec
PROPERTIES
  Implements
