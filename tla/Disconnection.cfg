\* Every failure at once: garbled lines, 451, cuts anywhere, any order of calls.
SPECIFICATION SpecRoutine
CONSTANTS
    SplitCRLF = TRUE
    Garbled = TRUE
    Unregistered = TRUE
    CarefulCallers = FALSE
    MaxLines = 2
    MaxCommands = 2
    MaxCalls = 2
INVARIANTS
    DeliveredInOrder
    AcceptsOnlyClosed
    ClosedBeforeIsNoticed
PROPERTIES
    SyncCapturesReplies
CHECK_DEADLOCK FALSE
