SPECIFICATION FairSpec
CONSTANTS
    Threads = {a, b}
    Obj = {x, y}
    None = None
    MaxDepth = 5
    MaxCount = 3
    a = a
    b = b
    x = x
    y = y
INVARIANTS
    EachOnce
    EnabledIsEffective
PROPERTIES
    CalledOnlyWhenAllowed
    EventuallyCalled
