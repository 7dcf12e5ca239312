SPECIFICATION FairSpec
CONSTANTS
    Conn = {k1, k2}
    Fd = {f1, f2}
    Id = {i1, i2}
    NoConn = NoConn
    NoFd = NoFd
    Flavor = "http"
    Overlap = FALSE
    AnswerEarly = TRUE
    BodyLength = 2
    MaxSend = 2
CHECK_DEADLOCK FALSE
INVARIANTS
    ThreadNeverFaults
    BodiesAreOwn
PROPERTY HangupsAreAnnounced
