CONSTANT Untracked = Untracked
SPECIFICATION Spec
CHECK_DEADLOCK FALSE
INVARIANTS
  TypesOK
  
  SettlesOnLatest
  
  OneConnection
  StalenessBounded
  AgentProgramsRun
  ResponseIsWhole
  
  Converged
  
  
  
  
  CompletedIsWhole
  
  
  
  
PROPERTIES
  RequestsAreThrottled
  BudgetsHold
  SessionsExpire
  
  NothingRemovedEarly
  LockNamesTheCache
