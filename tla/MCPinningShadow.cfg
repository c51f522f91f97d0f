SPECIFICATION Spec
CONSTANTS
    NurserySize = 2
    Old = {o1, o2}
    NULL = NULL
    MaxPinned = 2
    MaxRoots = 2
    Ids = "any"
    o1 = o1
    o2 = o2
SYMMETRY Symmetry
INVARIANTS
    NoDangling
\* A program whose survivors have no place is over.
CHECK_DEADLOCK FALSE
