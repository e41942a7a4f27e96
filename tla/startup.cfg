\* A map of up to five descriptors that changes three times by itself; a drive of
\* two sectors, asked twice for one of three, that may fail or be late at any point.
CONSTANTS
  SIZE_MAX = 5
  EVENT_MAX = 3
  FAILURE_MAX = 1
  UINTN_MAX = 7
  VmmOutcomes = {"mapped", "fault"}
  TRANSFER_MAX = 2
  Value = {v1, v2}
  Kinds = {"ata", "atapi", "none"}
  SIZE = 2
  Lba = {0, 1, 2}
  Errors = {"command", "commit"}
  Late = {"command", "commit"}
SPECIFICATION FairStart
INVARIANTS
  TypeOK
  HandoffIsCurrent
  NoLeak
  InterruptsFindHandlers
  NoPhantomKey
PROPERTIES
  Terminates
  StartsOrHalts
  KeyboardNotWedged
  ReadIsPossible
  WriteIsStored
  TransferReturns
CHECK_DEADLOCK FALSE
