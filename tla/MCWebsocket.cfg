SPECIFICATION Spec
CONSTANTS
    Conn = {k1, k2, k3}
    Fd = {f1, f2}
    Id = {i1, i2, i3}
    NoConn = NoConn
    NoFd = NoFd
    Flavor = "websocket"
    Overlap = TRUE
    AnswerEarly = TRUE
    BodyLength = 1
    MaxSend = 2
CHECK_DEADLOCK FALSE
SYMMETRY Symmetry
INVARIANTS
    TypeOK
    ClientsHaveOpenWsi
    ThreadNeverFaults
PROPERTY SessionsSpec
