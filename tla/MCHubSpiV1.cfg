SPECIFICATION FairSpec
CONSTANTS
    Levels = {1, 10}
    Tries = 3
    Starts = {FALSE}
    Scenario <- MCScenario
INVARIANTS
    LastChangeWins
    OtherChangeStays
    StoppedUnblanked
    BrightnessIsKept
PROPERTIES
    StateCatchesUp
CHECK_DEADLOCK FALSE
