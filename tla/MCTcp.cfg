SPECIFICATION Spec
CONSTANTS
    TCP_MAX_CONNS = 3
    MAXSEGSIZE = 2
    SeqSpace = 5
    InitSeq = 3
    r1 = r1
    r2 = r2
    p1 = p1
    b1 = b1
    b2 = b2
    Remotes = {r1, r2}
    NoRemote = NoRemote
    Ports = {p1}
    NoPort = NoPort
    Buffers = {b1, b2}
    NoBuf = NoBuf
    BufLen <- MCBufLen
    Wire <- MCWire
INVARIANTS
    TypeOK
    UniqueConnections
    OpenedMatchesState
    BufferOwnership
    SendSpaceContiguous
    SegmentsReadOwnedBytes
PROPERTIES
    ConnectionsMoveForward
    ImplementsSocketApi
