SPECIFICATION Spec
CONSTANTS
  Names = {"f", "g"}
  Data = {"a", "b"}
  DIRENTS = 4
  BLOCKS = 2
  IMAPS = 4
  INODES = 2
  AsEntry <- MCAsEntry
  WORD = 3
  FAR = 2
  Libs = {"CREAT", "WRITE", "UNLINK"}
  MaxCalls = 5
  MaxCrashes = 2
CHECK_DEADLOCK FALSE
INVARIANTS
  NamesResolve
  Disjoint
  DotsPointUnspoiled
  UniqueNames
  SizeCoversEntries
  AnsweredIsDone
  RepeatIsHarmless
PROPERTIES
  TreeSpec
  ContentKept
