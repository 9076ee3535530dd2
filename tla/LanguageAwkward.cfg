CONSTANT Untracked = Untracked
SPECIFICATION AwkwardSpec
CHECK_DEADLOCK FALSE
INVARIANT FmtKeepsProgram
