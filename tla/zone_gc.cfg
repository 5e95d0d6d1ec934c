SPECIFICATION Spec
CONSTANTS
    zone1 = zone1
    zone2 = zone2
    Zones = {zone1}
    Capacity = 3
    MaxOpen = 1
    Errors = {"RO"}
    Explicit = FALSE
    StartConds = {"EMPTY"}
    Async = FALSE
    MaxRefs = 1
    MaxIO = 1
    MaxFaults = 0
INVARIANTS
    ReadOnlyHasCause
