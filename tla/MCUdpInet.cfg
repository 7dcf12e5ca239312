SPECIFICATION FairSpec
CONSTANTS
    a = a
    b = b
    u = u
    Sender <- Senders
    Cell <- Cells
    AddrOf <- InetAddresses
    AddrSize = 3
    Junk = Junk
    Nobody = Nobody
    NoGram = NoGram
    NoSession = NoSession
    Id = {i1, i2}
    NoId = NoId
    Lossy = TRUE
    RecvMayFail = TRUE
    DebugBuild = TRUE
    LookupMayFail = TRUE
    MaxSend = 1
CHECK_DEADLOCK FALSE
INVARIANTS
    TypeOK
    AnswersReachSender
    SessionsDoNotOverlap
    ThreadNeverFaults
PROPERTY DatagramsAreHeard
