SPECIFICATION Spec
CONSTANTS
    k1 = k1
    k2 = k2
    o1 = o1
    o2 = o2
    Keys = {k1, k2}
    Operations = {o1, o2}
    Guarded = {o1}
    Backends = {"sharded", "retained", "supplied"}
    Shapes <- MCShapes
    LimitEntries = 2
    LimitWeight = 2
    StreamCapacity = 1
    AtRetirement = FALSE
    MaxTime = 1
    MaxEpoch = 2
    MaxGeneration = 3
    MaxCalls = 3
    Pinned = 3
    MaxDisturbances = 1
    MaxSubscriptions = 1
    NoKey = NoKey
SYMMETRY MCSymmetry
INVARIANTS StoreInv NothingComesBack
PROPERTIES DestroyedUnguarded LiveLeaveForCause
CHECK_DEADLOCK FALSE
