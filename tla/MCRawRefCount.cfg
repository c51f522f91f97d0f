SPECIFICATION FairSpec
CONSTANTS
    Obj = {x, y}
    PyObj = {u, v}
    Nursery = {n}
    Outer = {o, p}
    NULL = NULL
    Marker = Marker
    FromPypy = 10
    Light = 20
    MaxRefs = 1
    x = x
    y = y
    u = u
    v = v
    n = n
    o = o
    p = p
INVARIANTS
    CountIsExact
    FromObjIsExact
PROPERTIES
    KeptForC
    EventuallyFreed
