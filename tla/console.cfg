\* Lines of up to three characters, two history entries.
CONSTANTS
  a = a
  SP = SP
  Char = {a, SP}
  Space = SP
  NUL = NUL
  Lower <- MCLower
  COMMAND_MAX = 3
  HISTORY_MAX = 2
  PromptColumns = {9, 10, 11}
SPECIFICATION Spec
INVARIANTS
  TypeOK
  LineIsString
PROPERTIES
  Implements
  RecallsLast
