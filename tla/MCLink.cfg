SPECIFICATION LinkSpec
CONSTANTS
    a = a
    g = g
    zero = zero
    ones = ones
    discover = discover
    f1 = f1
    f2 = f2
    ARPTAB_SIZE = 4
    Addrs = {zero, ones, a, g}
    Zero = zero
    AllOnes = ones
    Net <- MCNet
    Bcast <- MCBcast
    Macs = {a, g}
    BcastMac = BcastMac
    RSB_SIZE = 8
    PcapSize = 4
    Ifaces = {0, 1, 2}
    RouterMac = RouterMac
    Home <- MCHome
    Frames <- MCFrames
    Own <- MCOwn
    MaxOwn = 8
INVARIANTS
    RingRemembers
    EchoesBounded
    LearntHome
PROPERTIES
    WarmsUp
CHECK_DEADLOCK FALSE
