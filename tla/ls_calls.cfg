SPECIFICATION Spec
CONSTANTS
    name1 = name1
    name2 = name2
    name3 = name3
    Names = {name1, name2, name3}
    NDirect = 2
    DirentsPerBlock = 2
    MaxCap = 5
    MaxChanges = 5
SYMMETRY Sym
CHECK_DEADLOCK FALSE
INVARIANTS
    ListingComplete
    NoRepeats
