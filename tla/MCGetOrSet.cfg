SPECIFICATION FairSpec
CONSTANTS
    c1 = c1
    c2 = c2
    NoOne = NoOne
    Callers = {c1, c2}
    Policies <- MCPolicies
    Forever = 4
    MaxTime = 2
    MaxEvents = 2
    MaxCalls = 2
    CircuitDuration = 2
INVARIANTS CallsInv ServedIsCurrent
PROPERTIES CallsReturn
CHECK_DEADLOCK FALSE
