\* All calls, on maps with and without holes, with kmalloc among the callers.
CONSTANTS
  MAX_FRAMES = 10
  WORD = 16
  PAGE = 2
  BootInfos <- MCBootInfos
  Counts = {0, 1, 2, 3}
  Reserves <- MCReserves
  HHDM_BASE = 4
  HEAP_BASE = 5
  HEAP_LIMIT = 7
  Sizes = {0, 1}
SPECIFICATION HeapSpec
INVARIANTS
  TypeOK
  CounterMatchesBitmap
  HoleFreeMapsAreSafe
PROPERTIES
  HandoutExclusive
  KmallocLeavesNothing
