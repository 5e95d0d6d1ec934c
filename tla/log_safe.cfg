SPECIFICATION SafeSpec
CONSTANTS
    NZones = 5
    BlocksPerZone = 3
    Nil = Nil
    d1 = d1
    d2 = d2
    Data = {d1, d2}
SYMMETRY Sym
CHECK_DEADLOCK FALSE
INVARIANTS
    TypeOK
    IndInv
    NoFault
    NumbersExact
    BitmapExact
    MappingInjective
    LiveReadable
    LogSequential
PROPERTIES
    ImplementsBlockStore
    GCInvisible
