\* Up to three calls, named by the test or not, with every other call in between;
\* and the client tests, of which one needs four connections.
SPECIFICATION MCSpec
CONSTANTS
    Words = {alice}
    GivenNumbers = {2, 3}
    None = None
    TestDoes = {"add", "connect", "remove", "assert"}
    Flaky = TRUE
    MaxSteps = 3
    MaxConnections = 5
    MaxClientCrashes = 1
INVARIANTS
    NumberedByCalls
    ConformingClientPasses
    FaultyClientIsNoticed
    PassedIsTornDown
PROPERTIES
    AutoNameIsFresh
    ClientTestEnds
CHECK_DEADLOCK FALSE
