SPECIFICATION Spec
CONSTANTS
    Threads = {m, t}
    Main = m
    NoThread = none
    Enablers = {t}
    Signals = {1, 2}
    Actions = {a}
    HasCounter = TRUE
    Interval = 1
    MaxArrivals = 2
    MaxDepth = 1
    m = m
    t = t
    a = a
    none = none
INVARIANTS
    NoSignalLost
    PendingIsArmed
PROPERTIES
    SignalReported
    ActionPerformed
