SPECIFICATION Spec
CONSTANTS
    Conn = {k1, k2}
    Fd = {f1, f2}
    Id = {i1, i2}
    NoConn = NoConn
    NoFd = NoFd
    Flavor = "http"
    Overlap = TRUE
    AnswerEarly = TRUE
    BodyLength = 2
    MaxSend = 2
CHECK_DEADLOCK FALSE
SYMMETRY Symmetry
INVARIANT BodiesAreOwn
