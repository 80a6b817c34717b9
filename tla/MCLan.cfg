CONSTANTS
    NULL = NULL
    Host = {a, b}
    Packet = p
    table_size = 2
    buf_size = 2
    ARP_TIMEOUT_SEC = 2
    ARP_MIN_INTERVAL = 1
SPECIFICATION Spec
INVARIANTS TypeOK SomethingUnderWay
PROPERTY AlwaysResolvedAgain
