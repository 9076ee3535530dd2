SPECIFICATION Spec
CONSTANTS
  Procs = {p1, p2}
  NoProc = NoProc
  FQNs = {f, g}
  Hashes = {h1, h2}
  NoHash = NoHash
  NoEntry = NoEntry
  Gone = Gone
  Adapters = {"crds", "config"}
  Locked = TRUE
  Faults = {"load", "save", "crash"}
SYMMETRY Symmetry
INVARIANTS  DriftIffChanges
PROPERTY SaveKeepsOthers
