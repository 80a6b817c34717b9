CONSTANTS
    NULL = NULL
    Ip = {a, b}
    Mac = {m1, m2}
    table_size = 2
    buf_size = 2
    ARP_TIMEOUT_SEC = 2
    ARP_MIN_INTERVAL = 1
    MaxPackets = 3
    MaxSkew = 1
    MaxTime = 5
SPECIFICATION Spec
INVARIANTS TypeOK SentAtMostOnce NoneWaitsResolved
PROPERTIES InOrder LastClaimWins KeptUntilSent RequestsSpaced
SYMMETRY Interchangeable
