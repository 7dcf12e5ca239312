SPECIFICATION FairSpec
CONSTANTS
    a = a
    b = b
    t = t
    x = x
    N = 2
    Kind <- Kinds
    Client <- Clients
    Home <- Homes
    Protocol <- Protocols
    NoClient = NoClient
    MaxSend <- Sends
    Leaver <- Leavers
CHECK_DEADLOCK FALSE
INVARIANTS
    TypeOK
    OwnListsAreSafe
    RelayedInOrder
PROPERTY MessagesAreRelayed
