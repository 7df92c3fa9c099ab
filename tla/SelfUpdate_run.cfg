SPECIFICATION FairSpec
CONSTANTS
    p1 = p1
    p2 = p2
    None = None
    Process = {p1, p2}
    Platforms = {"linux", "bsd", "windows"}
    Release <- MCMinor
    Installed <- MCInstalled
    MaxImages = 3
    MaxCrashes = 1
    MaxFaults = 1
INVARIANTS RecoverySound InstalledAuthentic PrivilegesReturned
PROPERTIES InstalledStays DispatchAfterRecovery RecoveryCompletes
CHECK_DEADLOCK FALSE
