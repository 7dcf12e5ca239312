SPECIFICATION Spec
CONSTANTS
    a = a
    b = b
    u = u
    Sender <- Senders
    Cell <- Cells
    AddrOf <- UnixAddresses
    AddrSize = 3
    Junk = Junk
    Nobody = Nobody
    NoGram = NoGram
    NoSession = NoSession
    Id = {i1, i2}
    NoId = NoId
    Lossy = FALSE
    RecvMayFail = FALSE
    DebugBuild = FALSE
    LookupMayFail = FALSE
    MaxSend = 1
CHECK_DEADLOCK FALSE
INVARIANT AnswersReachSender
