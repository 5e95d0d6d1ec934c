SPECIFICATION SafeSpec
CONSTANTS
    zone1 = zone1
    zone2 = zone2
    Zones = {zone1}
    Capacity = 3
    MaxOpen = 1
    Errors = {"REPAIR"}
    Explicit = FALSE
    StartConds = {"EMPTY"}
    Async = TRUE
    MaxRefs = 1
    MaxIO = 3
    MaxFaults = 1
INVARIANTS
    WpExact
