SPECIFICATION Spec
CONSTANTS
  Procs = {p1, p2}
  NoProc = NoProc
  Tx = {t1}
  Foreign = {f1}
  Commands = {"sync", "background", "login", "adopt"}
  Starts = {"synced", "unsynced", "fresh"}
  MaxBlobs = 3
  MaxFaults = 1
  MaxRestores = 2
  MaxSuperseded = 3
SYMMETRY Symmetry
INVARIANT SupersededComplete
PROPERTY ResetStopsBackground NoRollbackInstalled
CHECK_DEADLOCK FALSE
