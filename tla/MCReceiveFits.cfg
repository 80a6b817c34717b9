SPECIFICATION Spec
CONSTANTS
    NULL = NULL
    p1 = p1  p2 = p2  h1 = h1  h2 = h2
    Port = {p1, p2}
    Handler = {h1, h2}
    udp_size = 1
    BUF_MAX_LEN = 400
    ETHERNET_MAX_TRANSPORT_UNIT = 47
    Frames <- MCFrames
CHECK_DEADLOCK FALSE
INVARIANT FrameFits
