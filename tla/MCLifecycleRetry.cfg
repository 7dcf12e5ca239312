SPECIFICATION Spec
CONSTANTS
    N = 2
    Kind <- Small
    Uninitialized = {"null"}
    InitRetries = 1
    MaxSignals = 1
CHECK_DEADLOCK FALSE
INVARIANT InitMeansInitialized
