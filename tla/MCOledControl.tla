--------------------------- MODULE MCOledControl ---------------------------
(* OledControl with one request for a bus, and four scenarios.              *)
EXTENDS OledControl

Bounds(spi, control, unexpected, failures, early) ==
    [spi |-> spi, control |-> control, unexpected |-> unexpected,
     failures |-> failures, early |-> early]

MCSpiThread == {"spi"}
MCScenario ==
    {Bounds(MCSpiThread, 1, 0, 0, FALSE),   \* clients only
     Bounds(MCSpiThread, 0, 0, 1, FALSE),   \* a transfer of the running system fails
     Bounds(MCSpiThread, 0, 0, 1, TRUE),    \* any transfer fails
     Bounds({}, 1, 2, 0, FALSE)}            \* the hub changes the bus
=============================================================================
