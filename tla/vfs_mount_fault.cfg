\* A metadata read times out during a mount.
CONSTANTS
  a = a
  b = b
  x = x
  y = y
  Name = {a, b}
  NoName = NoName
  RootName = RootName
  Byte = {x, y}
  Zero = Zero
  Unknown = Unknown
  Path <- MCFlat
  Texts <- MCTexts
  CopyPairs <- MCFlatPairs
  Worlds <- MCMount
  FAULT_MAX = 1
  DiskFound = {TRUE}
  FILE_MAX = 4
  DATA_SECTORS = 2
  META_SECTORS = 3
  META_HEADER = 1
  RECORD_SIZE = 2
  NAME_SIZE = 1
  SECTOR_SIZE = 4
  DEPTH_MAX = 4
SPECIFICATION Spec
PROPERTIES
  MountKeepsDisk
