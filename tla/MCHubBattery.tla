---------------------------- MODULE MCHubBattery ----------------------------
(* HubBattery with the code's thresholds.                                   *)
EXTENDS HubBattery

MCThreshold == [level \in Level |->
                  CASE level = "shutdown" -> 2 [] level = "critical" -> 3 [] OTHER -> 5]
MCDeviceID == {"unknown", "pi_top", "pi_top_3", "pi_top_4"}
MCHasBattery == {"pi_top", "pi_top_3", "pi_top_4"}
MCWattage == {-50, 0, 50}
=============================================================================
