SPECIFICATION FilesSpec
CONSTANTS
    Name <- MCName
    Files <- MCFile
    Case <- MCCase
    Bounds <- MCBounds
    Device = {"pi_top_3", "pi_top_4"}
    Timeouts = {"60"}
INVARIANTS
    NothingForgotten
    RebootsBounded
    OthersKept
PROPERTIES
    HubIsTold
    SetupEnds
CHECK_DEADLOCK FALSE
