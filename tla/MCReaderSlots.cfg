SPECIFICATION FairSpec
CONSTANTS
    t1 = t1
    t2 = t2
    t3 = t3
    s1 = s1
    s2 = s2
    g1 = g1
    g2 = g2
    NoThread = NoThread
    NoSlot = NoSlot
    Threads <- MCThreads
    Slots <- MCSlots
    Groups <- MCGroups
    SlotOf <- MCSlotOf
    GroupOf <- MCGroupOf
INVARIANTS WriterIsAlone
PROPERTIES WriterEnters SleeperWakes
