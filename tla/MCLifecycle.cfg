SPECIFICATION FairSpec
CONSTANTS
    N = 3
    Kind <- AllWaits
    Uninitialized = {"null", "garbage"}
    InitRetries = 1
    MaxSignals = 2
CHECK_DEADLOCK FALSE
INVARIANTS
    TypeOK
    FirstInitMeansInitialized
    StopWaitsForWebsockets
    JoinsGoWrongOnlyAtExit
    DeletedWebsocketsAreQuiet
PROPERTY LateStopEndsProcess
