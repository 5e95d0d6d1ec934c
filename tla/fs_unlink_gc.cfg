SPECIFICATION FSSpec
CONSTANTS
    NZones = 5
    BlocksPerZone = 10
    Nil = Nil
    Data <- FSData
    name1 = name1
    name2 = name2
    Names = {name1, name2}
    MaxDepth = 1
    NDirect = 2
    DirentsPerBlock = 2
    MaxCalls = 4
CHECK_DEADLOCK FALSE
PROPERTIES
    GCKeepsTree
