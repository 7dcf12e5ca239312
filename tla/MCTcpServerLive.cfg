SPECIFICATION FairSpec
CONSTANTS
    Conn = {k1, k2}
    Fd = {f1, f2}
    Id = {i1, i2}
    NoConn = NoConn
    NoPeer = NoPeer
    Foreign = Foreign
    NoFd = NoFd
    NoId = NoId
    ServerFd = ServerFd
    Domain = "unix"
    EpollSize = 1
    BufferLength = 1
    AppSends = FALSE
    MaxSend = 2
    MaxGhosts = 0
    MaxForeign = 0
CHECK_DEADLOCK FALSE
PROPERTIES
    BytesAreDelivered
    HangupsAreAnnounced
    ConnectionsAreAnnounced
