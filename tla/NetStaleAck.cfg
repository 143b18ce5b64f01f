SPECIFICATION NetSpec
CONSTANTS
    TCP_MAX_CONNS = 2
    MAXSEGSIZE = 2
    SeqSpace = 16
    InitSeq = 13
    r1 = r1
    r2 = r2
    p1 = p1
    header = header
    body = body
    header2 = header2
    error = error
    error2 = error2
    Remotes = {r1}
    NoRemote = NoRemote
    Ports = {p1}
    HttpPort = p1
    NoPort = NoPort
    Buffers = {header, header2, body, error, error2}
    NoBuf = NoBuf
    BufLen <- MCBufLen
    Wire = {}
    HttpFiles <- MCHttpFiles
    Escaped <- Escape
    Asked <- MCAsked
    Plans <- SplitRequest
    Content <- MCContent
    Faults = {"delay"}
    MaxFaults = 1
    HalfClose = FALSE
    MaxInFlight = 1
    Reliable <- Nothing
INVARIANTS
    ReleasedWhenRead
CHECK_DEADLOCK FALSE
