SPECIFICATION SafeSpec
CONSTANTS
    zone1 = zone1
    zone2 = zone2
    Zones = {zone1}
    Capacity = 2
    MaxOpen = 1
    Errors = {"ZRO"}
    Explicit = TRUE
    StartConds = {"EMPTY"}
    Async = FALSE
    MaxRefs = 1
    MaxIO = 1
    MaxFaults = 1
INVARIANTS
    NoneLeftOpen
