SPECIFICATION FairSpec
CONSTANTS
    N = 2
    Kind <- Small
    Uninitialized = {"null"}
    InitRetries = 0
    MaxSignals = 1
CHECK_DEADLOCK FALSE
PROPERTY StopStopsServers
