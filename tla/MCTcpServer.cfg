SPECIFICATION Spec
CONSTANTS
    Conn = {k1, k2}
    Fd = {f1, f2}
    Id = {i1, i2, i3}
    NoConn = NoConn
    NoPeer = NoPeer
    Foreign = Foreign
    NoFd = NoFd
    NoId = NoId
    ServerFd = ServerFd
    Domain = "inet"
    EpollSize = 2
    BufferLength = 1
    AppSends = TRUE
    MaxSend = 2
    MaxGhosts = 1
    MaxForeign = 2
CHECK_DEADLOCK FALSE
SYMMETRY Symmetry
INVARIANTS
    TypeOK
    FdsMatchClients
    ThreadNeverFaults
    DisconnectNamesClient
    CallbackSendsReachOwner
    LiveClientsStayReachable
PROPERTY SessionsSpec
