SPECIFICATION FairSpec
CONSTANTS
  Closed = k2
  Users = {u1, u2}
  NoUser = NoUser
  Keys = {k1, k2}
  Kinds = {"session", "client", "fresh"}
  MaxSessions <- OneSession
  MaxDials = 2
  MaxCloses = 1
  MaxWaits = 1
INVARIANTS RevocationComplete NoLeakedConnection
PROPERTIES RunningSessionsKept PoolProgress
CHECK_DEADLOCK FALSE
