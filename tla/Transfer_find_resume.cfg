SPECIFICATION Spec
CONSTANTS
    a = a
    b = b
    Proc = {a, b}
    Mixes <- MCResume
    Blocks = 2
    Overlap = TRUE
    MaxEdits = 1
    MaxFaults = 1
INVARIANTS
    DestinationWhole
CHECK_DEADLOCK FALSE
