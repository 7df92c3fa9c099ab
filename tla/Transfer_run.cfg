SPECIFICATION FairSpec
CONSTANTS
    a = a
    b = b
    Proc = {a, b}
    Mixes <- MCMixes
    Blocks = 2
    Overlap = FALSE
    MaxEdits = 1
    MaxFaults = 1
INVARIANTS FilesSound OkMeansDone RootCause
PROPERTIES PublishesWhole KeyNotUsedAfterReturn TransfersReturn
CHECK_DEADLOCK FALSE
