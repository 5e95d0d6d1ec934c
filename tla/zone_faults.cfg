SPECIFICATION SafeSpec
CONSTANTS
    zone1 = zone1
    zone2 = zone2
    Zones = {zone1, zone2}
    Capacity = 2
    MaxOpen = 1
    Errors = {"ZRO", "REPAIR"}
    Explicit = TRUE
    StartConds = {"EMPTY", "IMP_OPEN", "READONLY", "OFFLINE"}
    Async = FALSE
    MaxRefs = 2
    MaxIO = 1
    MaxFaults = 1
INVARIANTS
    TypeOK
    ActiveCount
    ActiveExact
    WpExact
    SizeBacked
    UsedExact
    WroWithin
SYMMETRY Sym
