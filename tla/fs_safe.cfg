SPECIFICATION SafeFSSpec
CONSTANTS
    NZones = 7
    BlocksPerZone = 4
    Nil = Nil
    Data <- FSData
    name1 = name1
    name2 = name2
    Names = {name1, name2}
    MaxDepth = 2
    NDirect = 2
    DirentsPerBlock = 2
    MaxCalls = 4
SYMMETRY Sym
CHECK_DEADLOCK FALSE
INVARIANTS
    DcacheCoherent
    ListingExact
    NumbersDistinct
PROPERTIES
    ImplementsNamespace
    GCKeepsTree
