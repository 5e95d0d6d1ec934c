SPECIFICATION SafeConcSpec
CONSTANTS
    NZones = 5
    BlocksPerZone = 3
    Nil = Nil
    writer1 = writer1
    writer2 = writer2
    reader1 = reader1
    d1 = d1
    d2 = d2
    Writers = {writer1, writer2}
    Readers = {reader1}
    Data = {d1, d2}
    FailingDevice = FALSE
    MaxCalls = 3
SYMMETRY Sym
CHECK_DEADLOCK FALSE
INVARIANTS
    WritesLand
    QuietReads
    NumbersOwned
PROPERTIES
    StepsImplementBlockStore
