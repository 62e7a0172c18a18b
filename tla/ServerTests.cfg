\* Every test, on a conforming server and on each faulty one it must notice.
SPECIFICATION Spec
CONSTANTS
    NumClients = 4
    Tests <- MCTests
    WithFaults = TRUE
INVARIANTS
    TypeOK
    ConformingServerPasses
    NothingAwaitedForEver
    FaultIsNoticed
PROPERTIES
    AbsenceIsSettled
CHECK_DEADLOCK FALSE
