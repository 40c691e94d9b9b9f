SPECIFICATION ServiceSpec
CONSTANTS
    Main = "main"
    Thread = {"main", "hub", "request"}
    Handler = "handler"
    Nobody = "nobody"
INVARIANTS
    OneUserOfTheSocket
    NeverSendsOnClosedSocket
    SilentUntilReady
    HubOutlivesItsUsers
PROPERTIES
    StopEnds
CHECK_DEADLOCK FALSE
