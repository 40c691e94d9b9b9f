SPECIFICATION FairSpec
CONSTANTS
    SpiThread <- MCSpiThread
    Scenario <- MCScenario
CHECK_DEADLOCK FALSE
PROPERTIES
    StateSettles
    BusIsEnabled
    RequestIsMet
    ClientsKnowBus
    UnexpectedIsReverted
