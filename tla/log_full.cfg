SPECIFICATION Spec
CONSTANTS
    NZones = 5
    BlocksPerZone = 2
    Nil = Nil
    d1 = d1
    d2 = d2
    Data = {d1}
CHECK_DEADLOCK FALSE
INVARIANTS
    SwapZoneReserved
