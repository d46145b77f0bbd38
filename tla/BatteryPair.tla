------------------------------ MODULE BatteryPair ------------------------------
(* The two batteries of the house, each behind an inverter of its own.        *)
Batteries == {"DEYE", "SOLAX"}
Other(b) == IF b = "DEYE" THEN "SOLAX" ELSE "DEYE"
=============================================================================
