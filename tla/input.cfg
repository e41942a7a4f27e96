\* A ring with room for two events; four events of both Shift keys, a Ctrl key, Caps
\* Lock, a letter, a digit, an arrow and Pause.  Liveness needs the timer.
CONSTANTS
  QUEUE_SIZE = 3
  EVENT_MAX = 4
  NoEvent = NoEvent
  Keys = {"LEFT_SHIFT", "RIGHT_SHIFT", "RIGHT_CTRL", "CAPS_LOCK", "A", "KEY_1", "LEFT", "PAUSE"}
  WIRE_MAX = 1
SPECIFICATION FairPath
INVARIANTS
  TypeOK
  ModifiersFollowKeys
PROPERTIES
  Implements
  EventuallyHandled
  EventNamesKey
  ShiftedCharacter
