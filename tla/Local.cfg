SPECIFICATION LocalSpec
CONSTANTS
  Nil = Nil
  Err = Err
  NoSave = NoSave
  NoBudgets = NoBudgets
  Procs = {p1, p2}
  Writers = {p1, p2}
  Serial = {p1, p2}
  Entries = {Nil, e1, e2}
  Budgets = {NoBudgets}
  MaxVersions = 2
  SideWrites = FALSE
  Faults = {"rename"}
  MaxClock = 5
INVARIANTS
  Durable
  CacheHitsAreFresh
PROPERTY Refinement
