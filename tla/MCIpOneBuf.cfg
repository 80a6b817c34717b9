CONSTANTS
    NULL = NULL
    Ip = {a}
    Mac = {m1}
    table_size = 2
    buf_size = 1
    ARP_TIMEOUT_SEC = 2
    ARP_MIN_INTERVAL = 1
    MaxPackets = 3
    MaxSkew = 0
    MaxTime = 4
    Lengths <- Sizes
    max_len = 1480
    ArpFrameLen = 60
SPECIFICATION IpSpec
INVARIANTS OneBufIsEnough
