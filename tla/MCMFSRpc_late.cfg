SPECIFICATION Spec
CONSTANTS
  Names = {"f"}
  Data = {"a"}
  DIRENTS = 4
  BLOCKS = 2
  IMAPS = 3
  INODES = 3
  AsEntry <- MCAsEntry
  WORD = 2
  FAR = 64
  c1 = c1
  c2 = c2
  Clients = {c1}
  Requests <- BothRequests
  Late = TRUE
  MaxCopies = 2
  Loads <- LateLoads
CHECK_DEADLOCK FALSE
PROPERTY UnlinkedIsGone
