SPECIFICATION FairSpec
CONSTANTS
    Threshold <- MCThreshold
    Reads = 2
    Capacity = {2, 100}
    DeviceID <- MCDeviceID
    HasBattery <- MCHasBattery
    Time = {0, 1}
    Wattage <- MCWattage
    Hub = {"v3"}
    Period = 2
CHECK_DEADLOCK FALSE
PROPERTY
    SafeShutdownOnLowBattery
