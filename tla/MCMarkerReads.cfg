SPECIFICATION FairSpec
CONSTANTS
    r1 = r1
    r2 = r2
    NoOne = NoOne
    Peer = Peer
    Worker = Worker
    Readers = {r1, r2}
    Policies <- MCPolicies
    Forever = 2
    MaxTime = 1
    MaxVersion = 2
    MaxEvents = 2
    MaxEpoch = 2
    MaxReads = 2
INVARIANTS ObservationInv
PROPERTIES ObservationMonotone ReadsEnd
CHECK_DEADLOCK FALSE
