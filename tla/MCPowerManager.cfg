SPECIFICATION PowerSpec
CONSTANTS
    Threshold <- MCThreshold
    Reads = 5
    Capacity = {2, 3, 5, 6}
    DeviceID <- MCDeviceID
    HasBattery <- MCHasBattery
INVARIANTS
    OneShutdownCommand
    NeverLate
    NoWarningStarved
PROPERTIES
    ShutdownOnlyWhenVerified
    ImplementsSafeShutdown
