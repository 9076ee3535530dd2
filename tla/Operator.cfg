SPECIFICATION OperatorSpec
CONSTANTS
  Procs = {p1, p2}
  NoProc = NoProc
  Inodes = {1, 2, 3}
  NoFile = 0
  MayCrash = FALSE
  MayAge = FALSE
CHECK_DEADLOCK FALSE
PROPERTIES  StatusSettles
