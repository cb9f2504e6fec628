SPECIFICATION FairSpec
CONSTANTS
  Procs = {p1, p2, p3}
  Files = {f1, f2}
  NoProc = none
  MAX = 2
  OPS = 2
  MAXFILE = 3
  MaxN = 3
  MaxCalls = 1
PROPERTIES
  NoOverlap
  WriteReturnsWhatItDid
  CallsReturn
CHECK_DEADLOCK FALSE
