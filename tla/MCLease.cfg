SPECIFICATION FairSpec
CONSTANTS
    Callers = {c1, c2}
    None = None
    Ttl = 2
    Waits = {0, 1}
    MaxTime = 2
    MaxFaults = 1
INVARIANTS LeaseInv
PROPERTIES LostStaysLost AbandonedIsFreed
CHECK_DEADLOCK FALSE
