SPECIFICATION Spec
CONSTANTS
  Procs = {p1, p2, p3}
  NoProc = NoProc
  Inodes = {1, 2, 3, 4}
  NoFile = 0
  MayCrash = FALSE
  MayAge = FALSE
INVARIANTS MutualExclusion
