\* A timeout of getMessages(synchronize=False) drops buffered messages.
SPECIFICATION Spec
CONSTANTS
    SplitCRLF = FALSE
    Garbled = FALSE
    Unregistered = FALSE
    CarefulCallers = FALSE
    MaxLines = 2
    MaxCommands = 1
    MaxCalls = 2
PROPERTIES
    NoSilentLoss
CHECK_DEADLOCK FALSE
