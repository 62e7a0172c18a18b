\* The server answers the first PING, then closes.
SPECIFICATION SpecRoutine
CONSTANTS
    SplitCRLF = FALSE
    Garbled = FALSE
    Unregistered = FALSE
    CarefulCallers = FALSE
    MaxLines = 1
    MaxCommands = 1
    MaxCalls = 0
INVARIANTS
    NoFalseAlarm
CHECK_DEADLOCK FALSE
