CONSTANTS
    a = a
    b = b
    c1 = c1
    c2 = c2
    p1 = p1
    p2 = p2
    port = port
    Exe = {a, b}
    Pid = {p1, p2}
    Conn = {c1, c2}
    PortOf <- MCPortOf
    Scenes <- MCScenes
    NoPid = NoPid
    NoExe = NoExe
    Unknown = Unknown
    NoEntry = NoEntry
    PacketRing = 2
    MaxConns = 1
    MaxLines = 2
    WriteFails = TRUE
SPECIFICATION Spec
INVARIANTS
    TypeOK
    BooksBalance
    StoreInStep
PROPERTIES
    LoggedToOwner
    RunningIsLogged
    LedgerSpec
    EndedIsForgotten
    TrafficShows
CHECK_DEADLOCK FALSE
