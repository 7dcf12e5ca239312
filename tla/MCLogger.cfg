SPECIFICATION FairSpec
CONSTANTS
    Thread = {t1, t2}
    NoThread = NoThread
    FileSize = 1
    Minute = 2
    MaxSecond = 2
    MaxCall = 5
    MaxSignal = 1
CHECK_DEADLOCK FALSE
INVARIANTS
    TypeOK
    FileStaysOpen
    LogsStayBounded
PROPERTIES
    PastLogsAreKept
    CallsReturn
