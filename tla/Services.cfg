\* With services or restarts; both groups may crash and fork helpers, and the
\* services may link late or never.  Of Sable: the server alone, with services, or
\* with a history server too, any two of which may crash.
SPECIFICATION MCSpec
CONSTANTS
    Helpers = {"server", "services"}
    Stubborn = {"server"}
    RunServices = {TRUE, FALSE}
    MayRefuse = TRUE
    MaxCrashes = 2
    MaxPolls = 2
    Reruns = {"restart", "terminate"}
    MaxRestarts = 2
    MaxAsks = 3
    Notified = {"chkNS"}
    SableConfigs = {{}, {"services"}, {"services", "history"}}
    MaxTries = 2
    MaxSableCrashes = 2
INVARIANTS
    AllUpOnceWaited
    OnlyHistoryOutlives
    CleanTearDown
    PortOpenIsCurrent
    ServicesUpIsCurrent
    RefusedOnlyIfGone
PROPERTIES
    SableCallsEnd
    RestartsAlone
    TearDownEnds
    WaitEnds
    ReadinessWaitEnds
    RegistrationEnds
CHECK_DEADLOCK FALSE
