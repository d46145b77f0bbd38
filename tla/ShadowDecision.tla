---------------------------- MODULE ShadowDecision ----------------------------
(***************************************************************************)
(* What the Energy V3 shadow app would do with one target and one set of     *)
(* telemetry: safety_snapshot_from_states (energy_v3/telemetry_adapter.py)    *)
(* and decide (energy_v3/controller.py), which keep no state.                *)
(*                                                                         *)
(* Evidence is what an evaluation collects: the target of the forecasts, if   *)
(* there is one (HaeoPlan: it is of the present and finite); the readings of   *)
(* both batteries and the grid; the batteries whose reports are stale, whose   *)
(* inverter entity is gone or whose fault entities say so; and what nothing   *)
(* tells yet and decide asks for, a fault of SolaX and an export permission.  *)
(* Targets are positive for discharge, readings of batteries for charge.      *)
(***************************************************************************)
EXTENDS Integers, FiniteSets, BatteryPair

CONSTANTS
  Evidence,       \* what an evaluation may collect
  Deadband, MaxPower, SocFloor, ExportTarget, Transfer, \* SafetyConfig
  Mismatch,       \* normalized_power_tolerance_w
  Capable         \* what is verified, of V3Capabilities

Readings == [is : {"number", "text", "gone"}, value : Int]

ASSUME DecisionAssumption ==
  /\ {Deadband, MaxPower, SocFloor, ExportTarget, Transfer, Mismatch} \subseteq Nat
  /\ \A e \in Evidence :
       /\ \A s, t \in e.target : s = t /\ t \in [Batteries -> Int]
       /\ e.soc \in [Batteries -> Readings] /\ e.power \in [Batteries -> Readings]
       /\ e.raw \in Readings /\ e.pcc \in Readings
       /\ e.stale \subseteq Batteries /\ e.gone \subseteq Batteries
       /\ e.fault["SOLAX"] \in {"OK", "unknown", "fault"}
       /\ e.fault["DEYE"] \in {"OK", "unknown", "fault", "gone"}
       /\ \A p, q \in e.permission : p = q /\ p.current \in BOOLEAN /\ p.max \in Int

Positive(x) == IF x > 0 THEN x ELSE 0
Abs(x) == IF x < 0 THEN -x ELSE x

-----------------------------------------------------------------------------
(* safety_snapshot_from_states. A value is a set of at most one.             *)
Number(reading) == IF reading.is = "number" THEN {reading.value} ELSE {}

Soc(e, b) == Number(e.soc[b]) \cap 0..100

(* The power of DEYE is a template's, which must be the raw one reversed.     *)
Power(e, b) ==
  IF /\ b = "DEYE"
     /\ \E p \in Number(e.power[b]), r \in Number(e.raw) : Abs(p + r) > Mismatch
  THEN {} ELSE Number(e.power[b])

Export(e) == {Positive(v) : v \in Number(e.pcc)}

Here(reading) == reading.is # "gone"

Available(e, b) ==
  /\ b \notin e.gone
  /\ Here(e.soc[b]) /\ Here(e.power[b])
  /\ b = "DEYE" => Here(e.raw) /\ e.fault[b] # "gone"

Fresh(e, b) ==
  /\ b \notin e.stale \cup e.gone
  /\ Here(IF b = "SOLAX" THEN e.pcc ELSE e.raw)

-----------------------------------------------------------------------------
(* decide.                                                                  *)
Target(e) ==
  LET t == CHOOSE x \in e.target : TRUE
  IN [b \in Batteries |-> IF Abs(t[b]) <= Deadband THEN 0 ELSE t[b]]

(* The discharge that is in the measured grid power already does not count.   *)
Additional_Unsigned(e, b) ==                  \* mutated: a charge is forgotten
  IF Target(e)[b] > 0
  THEN Positive(Target(e)[b] - Abs(CHOOSE p \in Power(e, b) : TRUE)) ELSE 0

Additional(e, b) ==
  IF Target(e)[b] > 0
  THEN Positive(Target(e)[b] + (CHOOSE p \in Power(e, b) : TRUE)) ELSE 0

Projected(e) ==
  (CHOOSE v \in Export(e) : TRUE) + Additional(e, "SOLAX")
    + Additional(e, "DEYE")

CrossTransfer(e) ==
  \E b \in Batteries : /\ \E p \in Power(e, b) : p > Transfer
                       /\ \E q \in Power(e, Other(b)) : q < -Transfer

Discharging(e) == {b \in Batteries : Target(e)[b] > 0}

PermissionFailure(e) ==
  IF e.permission = {} THEN "EXPORT_AUTHORIZATION_MISSING"
  ELSE LET p == CHOOSE x \in e.permission : TRUE
       IN IF ~p.current THEN "EXPORT_AUTHORIZATION_NOT_CURRENT"
          ELSE IF Projected(e) > p.max THEN "EXPORT_AUTHORIZATION_LIMIT"
          ELSE "NONE"

FloorOf(b) == IF b = "SOLAX" THEN "SOLAX_SOC_FLOOR" ELSE "DEYE_SOC_FLOOR"

(* The failures of the state of charge, SolaX's before DEYE's.               *)
SocFailure(e) ==
  LET failing == {b \in Discharging(e) : \A s \in Soc(e, b) : s <= SocFloor}
      first == IF "SOLAX" \in failing THEN "SOLAX" ELSE "DEYE"
  IN IF failing = {} THEN "NONE"
     ELSE IF Soc(e, first) = {} THEN "TELEMETRY_MISSING" ELSE FloorOf(first)

SafetyFailure(e) ==
  IF \E b \in Batteries : ~Fresh(e, b) THEN "TELEMETRY_STALE"
  ELSE IF Export(e) = {} \/ \E b \in Batteries : Power(e, b) = {}
       THEN "TELEMETRY_MISSING"
  ELSE IF \E b \in Batteries : ~Available(e, b) THEN "INVERTER_UNAVAILABLE"
  ELSE IF \E b \in Batteries : e.fault[b] = "unknown" THEN "TELEMETRY_MISSING"
  ELSE IF \E b \in Batteries : e.fault[b] = "fault" THEN "INVERTER_FAULT"
  ELSE IF SocFailure(e) # "NONE" THEN SocFailure(e)
  ELSE IF Projected(e) > ExportTarget THEN "EXPORT_TARGET_LIMIT"
  ELSE IF Discharging(e) # {} /\ PermissionFailure(e) # "NONE"
       THEN PermissionFailure(e)
  ELSE IF CrossTransfer(e) THEN "CROSS_TRANSFER_RISK"
  ELSE "NONE"

(* What a target of b needs.                                                *)
Required(e, b) ==
  IF Target(e)[b] < 0 THEN {<<b, "charge">>}
  ELSE {<<b, "discharge">>} \cup (IF b = "DEYE" THEN {<<b, "enter">>} ELSE {})

Refused(reason) == [state |-> "RETURN_TO_NORMAL", reason |-> reason, power |-> 0]

Arbitrated(e) ==
  LET active == {b \in Batteries : Target(e)[b] # 0}
      owner == CHOOSE b \in active : TRUE
  IN IF active = {} THEN [state |-> "IDLE", reason |-> "TARGET_ZERO", power |-> 0]
     ELSE IF active = Batteries
     THEN Refused(IF Cardinality(Discharging(e)) = 1
                  THEN "CROSS_TRANSFER_RISK" ELSE "MULTI_OWNER_UNSUPPORTED")
     ELSE IF ~(Required(e, owner) \subseteq Capable)
     THEN Refused("CAPABILITY_UNSUPPORTED")
     ELSE [state |-> owner, reason |-> "CONTROL_ALLOWED",
           power |-> Target(e)[owner]]

Decide(e) ==
  IF e.target = {} THEN Refused("HAEO_INVALID")
  ELSE IF \E t \in e.target, b \in Batteries : Abs(t[b]) > MaxPower
  THEN Refused("TARGET_POWER_LIMIT")
  ELSE IF SafetyFailure(e) # "NONE" THEN Refused(SafetyFailure(e))
  ELSE Arbitrated(e)

Decisions == {Refused("HAEO_INVALID")} \cup {Decide(e) : e \in Evidence}
-----------------------------------------------------------------------------
(* What evidence must bear when b is told to discharge p: the inverters are     *)
(* known to be without fault, the battery is above the protected floor, and    *)
(* once b does what it is told, and nothing else changes, the house exports no  *)
(* more than its own target and the permission. The other is told nothing.     *)
Bears(e, b, p) ==
  LET export == e.pcc.value + e.power[b].value + p
  IN /\ export <= ExportTarget
     /\ \E q \in e.permission : q.current /\ export <= q.max
     /\ e.soc[b].value > SocFloor
     /\ \A c \in Batteries : e.fault[c] = "OK" /\ c \notin e.stale \cup e.gone
     /\ \A t \in e.target : Abs(t[Other(b)]) <= Deadband
     /\ \A r \in Number(e.raw) : Abs(e.power["DEYE"].value + r) <= Mismatch

(* Inverters that could be told to discharge on evidence that does not bear it. *)
Unborne ==
  {b \in Batteries :
     \E e \in Evidence : LET d == Decide(e)
                        IN d.state = b /\ d.power > 0 /\ ~Bears(e, b, d.power)}
=============================================================================
