SPECIFICATION FairSpec
CONSTANTS
    Claimants = {c1, c2, c3}
    Waiters = {w1, w2, w3}
    NoClaimant = NoClaimant
    NoWaiter = NoWaiter
INVARIANTS LaneInv
PROPERTIES RefinesFifoLock QueuedClaimAcquires
