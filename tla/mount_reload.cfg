SPECIFICATION Spec
CONSTANTS
    NZones = 5
    BlocksPerZone = 10
    name1 = name1
    name2 = name2
    name3 = name3
    Names = {name1}
    MaxMounts = 2
    MaxReloads = 1
CHECK_DEADLOCK FALSE
PROPERTIES
    InitOnlyWhenFormatted
