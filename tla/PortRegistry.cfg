\* Two pytest-xdist workers that test UnrealIRCd, one of which may die anywhere.
SPECIFICATION FairSpecUnreal
CONSTANTS
    Workers = {w1, w2}
    Ports = {p1, p2, p3, p4}
    NoWorker = NoWorker
    XDist = TRUE
    MaxCalls = 2
    MaxCrashes = 1
INVARIANTS
    DisjointOwnership
    OwnershipRegistered
    ReleaseNeverFails
    ListeningIsRegistered
    OnlyAbandonedLeak
    ReadsWholeFile
    OneStartsOrStops
    HolderCanMove
PROPERTIES
    ImplementsAllocator
    StartAndStopEnd
CHECK_DEADLOCK FALSE
