SPECIFICATION Spec
CONSTANTS
    Threads = {a, b, c}
    NoThread = none
    None = nil
    Builds = {TRUE, FALSE}
    Requests = {"wait", "try", "forever", "limited", "py3k_try", "locked", "is_acquired"}
    a = a
    b = b
    c = c
    none = none
    nil = nil
CHECK_DEADLOCK FALSE
INVARIANTS
    NoLostWakeup
PROPERTIES
    KeepsContract
    FreeLockIsTaken
