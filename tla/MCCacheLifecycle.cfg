SPECIFICATION FairSpec
CONSTANTS
    w1 = w1
    p1 = p1
    p2 = p2
    n1 = n1
    t1 = t1
    Works = {w1}
    Canceller = canceller
    Closers = {s1, c1}
    Shutdowns = {s1}
    MaxPolls = 1
    Plugins = {p1, p2}
    Notifiers = {n1}
    Tasks = {t1}
    Loads <- MCLoads
    MaxDrops = 1
INVARIANTS LifecycleInv 
PROPERTIES ShutdownReturns
CHECK_DEADLOCK FALSE
