SPECIFICATION LiveSpec
CONSTANTS
    Nursery = {n1}
    Old = {o1, o2}
    Prebuilt = {}
    NULL = NULL
    MaxRoots = 2
    n1 = n1
    o1 = o1
    o2 = o2
PROPERTIES
    CollectorInvisible
    MarkingEnds
    GarbageFreed
CHECK_DEADLOCK FALSE
