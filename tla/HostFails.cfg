SPECIFICATION HostSpec
CONSTANTS
    zero = zero
    ones = ones
    bcast = bcast
    h1 = h1
    h2 = h2
    a1 = a1
    a2 = a2
    ts = ts
    x = x
    lan = lan
    far = far
    nowhere = nowhere
    everywhere = everywhere
    ARPTAB_SIZE = 2
    Addrs = {zero, ones, bcast, h1, h2, a1, a2, ts, x}
    Zero = zero
    AllOnes = ones
    Net <- MCNet
    Bcast <- MCBcast
    Macs = {h1, h2, x}
    BcastMac = BcastMac
    UDP_MAX_CONNS = 3
    NoPort = "none"
    TickMod = 5
    TIMEOUT = 1
    MIN_INTERVAL = 1
    MAX_INTERVAL = 2
    RESYNC_INTERVAL = 2
    TimeServer = ts
    DHCP_TIMEOUT = 1
    Servers = {h1, h2}
    NoServer = NoServer
    Router <- MCRouter
    Lease <- MCLease
    Station = x
    Ifaces = {0, 1}
    TrueTime = 5
    Faults = {"fail"}
    MaxEvents = 1
    MaxInFlight = 2
PROPERTIES
    ConfiguredByOther
