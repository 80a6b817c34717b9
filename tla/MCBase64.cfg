CONSTANTS
    Files <- SmallFiles
    SIZE = 4
    CHARS_PER_LINE = 12
    MaxStr = 18
    MaxPiece = 3
    Memory = {0, 255}
SPECIFICATION CoderSpec
CHECK_DEADLOCK FALSE
INVARIANTS CoderTypeOK EncodesFile Lines DecodesFile Fits
