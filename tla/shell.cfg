\* Sessions of directory commands in which power may be lost before any sector
\* write or the machine is rebooted, of file commands, and of commands one of
\* whose transfers times out.
CONSTANTS
  a = a
  x = x
  Name = {a, "cd"}
  NoName = NoName
  RootName = RootName
  Byte = {x}
  Zero = Zero
  Unknown = Unknown
  Path = {}
  Texts <- MCSomeText
  CopyPairs = {}
  Worlds <- MCWorlds
  FAULT_MAX = 1
  DiskFound = {TRUE}
  FILE_MAX = 4
  DATA_SECTORS = 1
  META_SECTORS = 3
  META_HEADER = 1
  RECORD_SIZE = 2
  NAME_SIZE = 1
  SECTOR_SIZE = 4
  DEPTH_MAX = 2
  NameLen <- MCNameLen
  Args <- MCArgs
  ArgPairs <- MCArgPairs
  NoArg = NoArg
  NAME_MAX = 8
  PATH_MAX = 17
  PARTS_MAX = 2
  WALK_MAX = 2
SPECIFICATION ShellSpec
INVARIANTS
  SessionOK
  TreeWellFormed
  NormalizeResolves
  FindListsSubtree
PROPERTIES
  MountRestoresTree
  MountKeepsDisk
  StaleCwdInert
  OffKeepsTree
