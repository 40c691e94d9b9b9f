------------------------------ MODULE MCHubSpiV1 ------------------------------
(* HubSpiV1 with a link that only tells the device's id now and then, one that *)
(* loses and garbles bytes, and one whose transfers raise.                     *)
EXTENDS HubSpiV1

Bounds(failures, ask, lid, fail) ==
    [failures |-> failures, ask |-> ask, lid |-> lid, fail |-> fail]

MCScenario ==
    {Bounds({"id"}, 2, 1, 1),
     Bounds({"id"}, 1, 2, 1),
     Bounds({"lost", "garbled"}, 1, 1, 2),
     Bounds({"raises"}, 1, 1, 1)}
===============================================================================
