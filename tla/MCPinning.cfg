SPECIFICATION Spec
CONSTANTS
    NurserySize = 2
    Old = {o1, o2}
    NULL = NULL
    MaxPinned = 2
    MaxRoots = 2
    Ids = "unpinned"
    o1 = o1
    o2 = o2
SYMMETRY Symmetry
CHECK_DEADLOCK FALSE
INVARIANTS
    NoDangling
    ParentsRecorded
    NoDeadEntries
    FreeCellsAreFree
    IdsAreStable
PROPERTIES
    PinnedStayPut
