SPECIFICATION Spec
CONSTANTS
  Procs = {p1, p2}
  NoProc = NoProc
  Tx = {t1}
  Foreign = {f1}
  Commands = {"mutate", "sync"}
  Starts = {"synced"}
  MaxBlobs = 4
  MaxFaults = 0
  MaxRestores = 0
  MaxSuperseded = 2
INVARIANT NoSilentOverwrite
CHECK_DEADLOCK FALSE
