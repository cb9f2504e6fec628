SPECIFICATION Spec
CONSTANTS
  Procs = {p1, p2}
  NFILE = 3
  NOFILE = 3
  Pages = {g1}
  None = none
SYMMETRY Alike
INVARIANTS
  RefsCounted
  EndHasOwner
  FreedOnce
  PagesAccounted
  InodeAccounted
PROPERTY Steady
