----------------------- MODULE MCPeripheralManager -----------------------
(* The instances of PeripheralManager: audio peripherals exclude each other, *)
(* the breadboard goes with each.                                            *)
EXTENDS PeripheralManager

AllPeripherals == <<"pulse", "proto", "speaker2", "speaker1">>
MCHost == {"pi_top", "pi_top_3", "pi_top_4"}
WithProto ==
    {<<p, q>> \in Peripheral \X Peripheral : p # q /\ "proto" \in {p, q}}
========================================================================
