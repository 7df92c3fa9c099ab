SPECIFICATION Spec
CONSTANTS
    Hosts = {"a", "b"}
    Types = {"ed", "rsa"}
    Ids = 2
    InitialFiles <- MCFiles
    Accepters = {a1}
    Clients = {c1}
    MaxAccepts = 2
    MaxRotations = 2
    MaxConnects = 1
INVARIANT TrustSound
PROPERTY OthersKept
CHECK_DEADLOCK FALSE
