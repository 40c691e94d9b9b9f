SPECIFICATION FairSpec
CONSTANTS
    Button = {"up"}
    BatteryPeriod = 2
    TempPeriod = 3
    Limit = 3
CHECK_DEADLOCK FALSE
INVARIANTS
    FastAfterPress
PROPERTIES
    ButtonsAreKnown
