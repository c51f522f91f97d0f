SPECIFICATION Spec
CONSTANTS
    Nursery = {n1}
    Old = {o1, o2}
    Prebuilt = {p}
    NULL = NULL
    MaxRoots = 1
    n1 = n1
    o1 = o1
    o2 = o2
    p = p
SYMMETRY Symmetry
CHECK_DEADLOCK FALSE
INVARIANTS
    NoDangling
    SweepsGarbageOnly
    NoBlackToWhite
