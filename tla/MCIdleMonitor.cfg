SPECIFICATION Spec
CONSTANTS
    Timeout = {0, 2, 3, 7}
    DefaultCycle = 5
    SensitiveCycle = 1
    StartupWait = 15
    MaxIdle = 18
INVARIANTS
    DimsWhenInactive
    DarkOnlyWhenInactive
