SPECIFICATION LiveSpec
CONSTANTS
  Procs = {p1, p2, p3}
  NoProc = NoProc
  Inodes = {1, 2, 3, 4}
  NoFile = 0
  MayCrash = TRUE
  MayAge = TRUE
CHECK_DEADLOCK FALSE
PROPERTIES
  LockReturns
  ExpiredGo
  WorkEnds
