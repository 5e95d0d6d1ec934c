SPECIFICATION LiveSafeSpec
CONSTANTS
    NZones = 5
    BlocksPerZone = 10
    name1 = name1
    name2 = name2
    name3 = name3
    Names = {name1, name2, name3}
    MaxMounts = 4
    MaxReloads = 2
CHECK_DEADLOCK FALSE
INVARIANTS
    RootThere
    NamesKept
PROPERTIES
    ComesUp
