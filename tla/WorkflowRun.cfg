SPECIFICATION FairSpec
CONSTANTS
  Steps <- MCSteps
  Finally <- MCFinally
  Graphs <- MCGraphs
  Faults = {"create", "restart"}
  MaxFaults = 1
INVARIANTS SortIsSound DependenciesFirst OutcomeIsRight
PROPERTIES WorkflowEnds
CHECK_DEADLOCK FALSE
