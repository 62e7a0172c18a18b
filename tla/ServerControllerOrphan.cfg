\* A leader that was reaped before kill_proc(): its helper is never signalled.
SPECIFICATION Spec
CONSTANTS
    Helpers = {"server"}
    Stubborn = {}
    RunServices = {FALSE}
    MayRefuse = FALSE
    MaxCrashes = 1
    MaxPolls = 1
    Reruns = {"restart"}
    MaxRestarts = 0
PROPERTIES
    KillSignalsGroup
CHECK_DEADLOCK FALSE
