SPECIFICATION Spec
CONSTANTS
  Bytes = {a, b, nul}
  NUL = nul
  NoChar = nochar
  Missing = missing
  n_thread = 2
  SMALL = 1
  LARGE = 3
  MaxLen = 5
  MaxFiles = 3
CHECK_DEADLOCK FALSE
INVARIANTS
  ExpandsToText
  RunsAreMaximal
