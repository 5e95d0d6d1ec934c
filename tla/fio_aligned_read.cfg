SPECIFICATION Spec
CONSTANTS
    DataSize = 2
    NDirect = 1
    PtrsPerBlock = 2
    EFAULT = 1
    LenMod = 64
    BadBuffers = FALSE
    ZeroedMemory = TRUE
    writer1 = writer1
    writer2 = writer2
    Writers = {writer1}
    Lens = {1, 2, 3}
    Sizes = {}
    MaxPos = 0
    MaxCalls = 2
CHECK_DEADLOCK FALSE
INVARIANTS
    ReadsInBounds
