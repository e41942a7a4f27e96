\* A drive of two sectors with two contents that never fails and is never late.
CONSTANTS
  Value = {v1, v2}
  Kinds = {"ata"}
  SIZE = 2
  Lba = {0, 1}
  Errors = {}
  Late = {}
SPECIFICATION AtaSpec
PROPERTIES
  SuccessIsTrue
