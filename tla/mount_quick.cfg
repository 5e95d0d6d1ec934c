SPECIFICATION Spec
CONSTANTS
    NZones = 5
    BlocksPerZone = 10
    name1 = name1
    name2 = name2
    name3 = name3
    Names = {}
    MaxMounts = 2
    MaxReloads = 0
CHECK_DEADLOCK FALSE
INVARIANTS
    RootThere
