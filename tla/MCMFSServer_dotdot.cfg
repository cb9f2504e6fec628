SPECIFICATION Spec
CONSTANTS
  Names = {"f", "g"}
  Data = {"a"}
  DIRENTS = 4
  BLOCKS = 2
  IMAPS = 4
  INODES = 2
  AsEntry <- MCAsEntry
  WORD = 3
  FAR = 3
  Libs = {"CREAT", "UNLINK"}
  MaxCalls = 4
  MaxCrashes = 0
CHECK_DEADLOCK FALSE
INVARIANT DotsPoint
