\* A chunk that ends between CR and LF: the PONG is never seen.
SPECIFICATION FairSpec
CONSTANTS
    SplitCRLF = TRUE
    Garbled = FALSE
    Unregistered = FALSE
    CarefulCallers = TRUE
    MaxLines = 1
    MaxCommands = 1
    MaxCalls = 1
PROPERTIES
    CallReturns
CHECK_DEADLOCK FALSE
