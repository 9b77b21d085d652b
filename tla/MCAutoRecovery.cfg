SPECIFICATION FairSpec
CONSTANTS
    d1 = d1  d2 = d2  m1 = m1  p1 = p1  p2 = p2  owned = owned  user = user  c1 = c1  c2 = c2
    s1 = s1  s2 = s2
    DataKeys = {d1}
    MarkerKeys = {m1}
    Producers = {p1}
    Drains = {owned, user}
    Worker = owned
    Callers = {c1}
    Shutters = {s1}
    None = None
    MaxItems = 1
    MaxRetries = 1
    MaxTime = 1
    MaxId = 2
    MaxGen = 1
    MaxEpoch = 1
    MaxEvents = 3
INVARIANTS RecoveryInv
PROPERTIES ExactIdentity 
CHECK_DEADLOCK FALSE
