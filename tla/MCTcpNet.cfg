SPECIFICATION FairNetSpec
CONSTANTS
    TCP_MAX_CONNS = 2
    MAXSEGSIZE = 2
    SeqSpace = 16
    InitSeq = 13
    r1 = r1
    r2 = r2
    p1 = p1
    header = header
    body = body
    header2 = header2
    error = error
    error2 = error2
    Remotes = {r1, r2}
    NoRemote = NoRemote
    Ports = {p1}
    HttpPort = p1
    NoPort = NoPort
    Buffers = {header, header2, body, error, error2}
    NoBuf = NoBuf
    BufLen <- MCBufLen
    Wire = {}
    HttpFiles <- MCHttpFiles
    Escaped <- Escape
    Asked <- MCAsked
    Plans <- TwoClients
    Content <- MCContent
    Faults = {"lose", "clock"}
    MaxFaults = 2
    HalfClose = FALSE
    MaxInFlight = 2
    Reliable <- NeverRepeated
INVARIANTS
    ReleasedWhenRead
PROPERTIES
    ResponseDelivered
    ClientsClose
    RowsReleased
    BuffersReturned
CHECK_DEADLOCK FALSE
