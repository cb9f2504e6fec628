SPECIFICATION Spec
CONSTANTS
  Procs = {parent, child1, child2}
  Creator = parent
  NoProc = NoProc
  Slots = {s1}
  Bytes = {a, b}
  PIPESIZE = 3
  WORD = 4
  MaxN = 2
  MaxCalls = 1
CHECK_DEADLOCK FALSE
SYMMETRY Alike
INVARIANTS
  TypeOK
  LockDiscipline
  NoMissedWakeup
  EndOpenWhileHeld
  NoUseAfterFree
  NoLeak
  FifoUntilWrap
