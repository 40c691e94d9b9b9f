--------------------------- MODULE MCPowerManager ---------------------------
(* PowerManager with one capacity per threshold and one above them all.     *)
EXTENDS PowerManager

MCThreshold == [level \in Level |->
                  CASE level = "shutdown" -> 2 [] level = "critical" -> 3 [] OTHER -> 5]
MCDeviceID == {"unknown", "pi_top_4", "pi_top_ceed"}
MCHasBattery == {"pi_top_4"}
=============================================================================
