SPECIFICATION Spec
CONSTANTS
  Steps <- MCSteps
  Finally <- MCFinally
  Graphs <- MCGraphs
  Faults = {}
  MaxFaults = 1
INVARIANTS FinallyAlwaysRuns
CHECK_DEADLOCK FALSE
