SPECIFICATION Spec
CONSTANTS
    Bases = {"web", "db"}
    Copies = 2
    Materials = 2
    Fields = 2
    HostChanges <- MCHostChanges
    Imports <- MCImports
    InitialInventories <- MCInitial
    MaxMutations = 3
    MaxPublications = 2
    MaxIntent = 2
INVARIANTS LedgerSound PublishedWasReviewed RefusalIsAPlan
PROPERTY OnlyTouchesItsAlias
CHECK_DEADLOCK FALSE
