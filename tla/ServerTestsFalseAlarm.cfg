\* Conforming servers that eight tests fail.
SPECIFICATION Spec
CONSTANTS
    NumClients = 4
    Tests <- MCFalseAlarms
    WithFaults = FALSE
INVARIANT
    ConformingServerPasses
CHECK_DEADLOCK FALSE
