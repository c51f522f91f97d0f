SPECIFICATION Spec
CONSTANTS
    Threads = {m, a}
    Main = m
    NoThread = none
    PollBudgets = {0, 1}
    MaxForks = 1
    m = m
    a = a
    none = none
INVARIANTS
    MutualExclusion
    NeverLost
PROPERTIES
    EveryoneRuns
    ImplementsLock
