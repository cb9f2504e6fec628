SPECIFICATION FairSpec
CONSTANTS
  Names = {"f", "g"}
  Data = {"a", "b"}
  DIRENTS = 4
  BLOCKS = 2
  IMAPS = 4
  INODES = 3
  AsEntry <- MCAsEntry
  WORD = 2
  FAR = 64
  c1 = c1
  c2 = c2
  Clients = {c1, c2}
  Requests <- BothRequests
  Late = FALSE
  MaxCopies = 2
  Loads <- BothLoads
CHECK_DEADLOCK FALSE
INVARIANTS
  Repeatable
  NoneStale
PROPERTIES
  OnceAtReturn
  OwnAtReturn
  CallsReturn
