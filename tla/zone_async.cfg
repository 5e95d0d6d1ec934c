SPECIFICATION SafeSpec
CONSTANTS
    zone1 = zone1
    zone2 = zone2
    Zones = {zone1}
    Capacity = 3
    MaxOpen = 1
    Errors = {"RO", "ZOL", "REPAIR"}
    Explicit = FALSE
    StartConds = {"EMPTY", "CLOSED"}
    Async = TRUE
    MaxRefs = 1
    MaxIO = 3
    MaxFaults = 0
INVARIANTS
    ReadOnlyHasCause
PROPERTIES
    SizeNeverFallsBack
SYMMETRY Sym
