\* Two plain pytest sessions at the same time: the lock is a null context.
SPECIFICATION FairSpec
CONSTANTS
    Workers = {w1, w2}
    Ports = {p1, p2, p3, p4}
    NoWorker = NoWorker
    XDist = FALSE
    MaxCalls = 2
    MaxCrashes = 1
PROPERTIES
    EveryCallReturns
CHECK_DEADLOCK FALSE
