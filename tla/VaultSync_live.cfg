SPECIFICATION FairSpec
CONSTANTS
  Procs = {p1, p2}
  NoProc = NoProc
  Tx = {t1}
  Foreign = {f1}
  Commands = {"mutate", "push_only", "sync"}
  Starts = {"synced", "fresh"}
  MaxBlobs = 4
  MaxFaults = 1
  MaxRestores = 0
  MaxSuperseded = 1
PROPERTY CommandsReturn
CHECK_DEADLOCK FALSE
