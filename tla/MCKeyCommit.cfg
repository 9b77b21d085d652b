SPECIFICATION FairSpec
CONSTANTS
    Writers = {w1, w2}
    Readers = {r1}
    Peers = {p1}
    Kinds = {"Set", "Origin", "Remove", "Retain"}
    Acts = {"Set", "Expire"}
    None = None
    Old = Old
    Free = Free
    Rec = Rec
    MaxTime = 2
    MaxEvents = 3
    Retries = 1
    Strict = TRUE
    FailSafe = TRUE
INVARIANTS  NoStageRepeats 
PROPERTIES EffectsFollowLaneOrder KeySettles
CHECK_DEADLOCK FALSE
