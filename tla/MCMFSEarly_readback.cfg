SPECIFICATION Spec
CONSTANTS
  Names = {"f"}
  Data = {"a"}
  DIRENTS = 4
  BLOCKS = 2
  IMAPS = 4
  INODES = 2
  AsEntry <- MCAsEntry
  WORD = 2
  FAR = 64
  MaxCalls = 4
  MaxCrashes = 1
CHECK_DEADLOCK FALSE
INVARIANT ReadsBack
