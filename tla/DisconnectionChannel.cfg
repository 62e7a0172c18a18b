\* A UTF-8 server, careful callers, and no chunk that ends between CR and LF.
SPECIFICATION FairSpecRoutine
CONSTANTS
    SplitCRLF = FALSE
    Garbled = FALSE
    Unregistered = FALSE
    CarefulCallers = TRUE
    MaxLines = 2
    MaxCommands = 1
    MaxCalls = 2
PROPERTIES
    ImplementsFifoChannel
    CallReturns
CHECK_DEADLOCK FALSE
