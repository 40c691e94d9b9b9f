SPECIFICATION FairSpec
CONSTANTS
    AddressOrder <- AllPeripherals
    Compatible <- WithProto
    Host <- MCHost
    Bullseye = FALSE
    MaxPlug = 2
    MaxRestart = 1
    MaxFault = 1
INVARIANTS
    FourReboots
PROPERTIES
    ListIsAttached
    AttachedIsListed
