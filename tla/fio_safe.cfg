SPECIFICATION SafeSpec
CONSTANTS
    DataSize = 2
    NDirect = 1
    PtrsPerBlock = 2
    EFAULT = 1
    LenMod = 64
    BadBuffers = FALSE
    ZeroedMemory = TRUE
    writer1 = writer1
    writer2 = writer2
    Writers = {writer1}
    Lens = {1, 7, 20}
    Sizes = {}
    MaxPos = 30
    MaxCalls = 3
CHECK_DEADLOCK FALSE
INVARIANTS
    LevelsMatch
    NoLeak
    ReadsBack
    OldBytesStay
    ReadersFindBlocks
