CONSTANTS
    Word = {0, 1, 2, 255, 32768, 65280, 65533, 65535}
    MaxLen = 15
SPECIFICATION Spec
CHECK_DEADLOCK FALSE
INVARIANTS TypeOK IsOnesComplement RightOnTheWire
