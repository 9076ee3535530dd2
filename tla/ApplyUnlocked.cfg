SPECIFICATION Spec
CONSTANTS
  Procs = {p1, p2}
  NoProc = NoProc
  FQNs = {f, g}
  Hashes = {h1, h2}
  NoHash = NoHash
  NoEntry = NoEntry
  Gone = Gone
  Adapters = {"crds"}
  Locked = FALSE
  Faults = {}
PROPERTY SaveKeepsOthers
