SPECIFICATION FairSpec
CONSTANTS
  Procs = {parent, child}
  Creator = parent
  NoProc = NoProc
  Slots = {s1}
  Bytes = {a, b}
  PIPESIZE = 2
  WORD = 4
  MaxN = 5
  MaxCalls = 1
CHECK_DEADLOCK FALSE
INVARIANT Fifo
PROPERTIES
  StreamSpec
  EofMeansDrained
  WriteFailsOnlyIfStuck
  EofReleasesReaders
  CloseReleasesWriters
  BytesReachReaders
  RoomReachesWriters
