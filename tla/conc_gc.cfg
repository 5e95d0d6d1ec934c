SPECIFICATION ConcSpec
CONSTANTS
    NZones = 5
    BlocksPerZone = 3
    Nil = Nil
    writer1 = writer1
    writer2 = writer2
    reader1 = reader1
    d1 = d1
    d2 = d2
    Writers = {writer1}
    Readers = {reader1}
    Data = {d1}
    FailingDevice = FALSE
    MaxCalls = 3
CHECK_DEADLOCK FALSE
INVARIANTS
    QuietReads
