SPECIFICATION FairSpec
CONSTANTS
    Full = 2
    MaxLevel = 3
    Faulty = {"request", "idle"}
    MaxOps = 2
    MaxLid = 2
CHECK_DEADLOCK FALSE
INVARIANTS
    StoppedUnblanked
PROPERTIES
    StateCatchesUp
    LidFollowed
