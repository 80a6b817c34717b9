CONSTANTS
    Bits = 3
    net_if_ip <- zero
    Devices <- MCDevices
SPECIFICATION Spec
CHECK_DEADLOCK FALSE
INVARIANTS LongestSubnet RefusedForReason ReadyToPoll
