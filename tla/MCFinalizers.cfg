SPECIFICATION Spec
CONSTANTS
    Obj = {x, y, z}
    Prebuilt = {}
    NULL = NULL
    MaxRefs = 3
    MaxRoots = 2
    x = x
    y = y
    z = z
SYMMETRY Symmetry
INVARIANTS
    NoDangling
    WeakrefsClearedFirst
PROPERTIES
    FinalizedBeforeFreed
    InOrder
    WeakrefsKept
