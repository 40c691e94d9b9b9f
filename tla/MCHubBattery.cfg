SPECIFICATION FairSpec
CONSTANTS
    Threshold <- MCThreshold
    Reads = 5
    Capacity = {2, 97, 100}
    DeviceID <- MCDeviceID
    HasBattery <- MCHasBattery
    Time = {0, 1}
    Wattage <- MCWattage
    Hub = {"v1", "v2", "v3"}
    Period = 2
CHECK_DEADLOCK FALSE
INVARIANTS
    StoppedForShutdown
    PolicyUpToDate
PROPERTIES
    VerifiedByReads
    ChangingLowBatteryShutsDown
