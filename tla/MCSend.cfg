CONSTANTS
    BUF_MAX_LEN = 131325
    UdpLengths = {0, 1, 17, 18, 19, 1471, 1472, 1473, 2952, 2953, 65507, 65508, 65534, 65535}
    IcmpLengths = {8, 25, 26, 36, 1479, 1480}
SPECIFICATION Spec
INVARIANTS TypeOK OnTheWire ChecksumRestores
