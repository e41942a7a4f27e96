\* A memory map with a hole.
CONSTANTS
  MAX_FRAMES = 10
  WORD = 16
  PAGE = 2
  BootInfos <- MCBootInfos
  Counts = {}
  Reserves = {}
SPECIFICATION Spec
INVARIANTS
  OnlyConventional
