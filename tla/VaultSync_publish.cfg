SPECIFICATION Spec
CONSTANTS
  Procs = {p1, p2}
  NoProc = NoProc
  Tx = {t1, t2}
  Foreign = {f1}
  Commands = {"mutate", "push_all", "push_only", "status"}
  Starts = {"synced", "first"}
  MaxBlobs = 7
  MaxFaults = 2
  MaxRestores = 0
  MaxSuperseded = 2
SYMMETRY Symmetry
INVARIANTS LedgerComplete ScopeExact CachedWasRemote FinalizesStoredTarget
PROPERTY PublishKeepsRemote
CHECK_DEADLOCK FALSE
