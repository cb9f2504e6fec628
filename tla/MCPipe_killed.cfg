SPECIFICATION FairSpec
CONSTANTS
  Procs = {parent, child}
  Creator = parent
  NoProc = NoProc
  Slots = {s1}
  Bytes = {a}
  PIPESIZE = 2
  WORD = 4
  MaxN = 3
  MaxCalls = 1
CHECK_DEADLOCK FALSE
PROPERTY KilledReturns
