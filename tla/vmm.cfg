\* Sixteen frames of four words; the kernel lies in the second large page.
CONSTANTS
  N = 4
  HHDM = 2
  LIMIT = 16
  TOTAL = 10
  Kernel = {5, 6}
  FB_END = 15
  FreeSets = {{}, {3}, {1, 2, 3}, {2, 7, 8}}
SPECIFICATION Spec
INVARIANTS
  KernelKeepsRunning
CHECK_DEADLOCK FALSE
