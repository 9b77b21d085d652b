SPECIFICATION FairSpec
CONSTANTS
    Messages = {m1, m2}
    Publishers = {p1}
    Shutters = {s1}
    None = None
    Capacity = 1
    MaxIncarnation = 3
    MaxFaults = 1
INVARIANTS ConnectedIsLive SubscriberInv
PROPERTIES RefinesHealth SupervisorSettles
CHECK_DEADLOCK FALSE
