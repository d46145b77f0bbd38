--------------------------- MODULE ChargeController ---------------------------
(***************************************************************************)
(* DeyeChargeShadowController.evaluate (charge_controller.py): how much the  *)
(* DEYE battery should charge from the surplus of the SolaX one.            *)
(*                                                                         *)
(* A reading is whether the controller is enabled and the telemetry valid,   *)
(* where the state of charge lies between the stop and the start threshold,  *)
(* whether PV is above its minimum, and what DEYE charges and SolaX          *)
(* discharges. The voltage is one, so that a current is its power. Clocks    *)
(* are ages in ticks and stop where the code no longer tells them apart.     *)
(* While the helper energy_v2_charge_shadow_enabled is off nothing is         *)
(* evaluated, and the next evaluation counts the whole gap (app.py:519): such  *)
(* a pause is a long gap here, and counts as lasted in the histories, too.     *)
(***************************************************************************)
EXTENDS Integers, Sequences, FiniteSetsExt

CONSTANTS
  StartConfirm, TransferConfirm, ReturnConfirm,    \* ..._confirmation_s
  Recovery,                                        \* fault_recovery_s
  Window,                                          \* transfer_average_window_s
  Reserve,                                         \* safe_power_reserve_w
  MinimumSafe,                             \* minimum_safe_deye_charge_power_w
  Maximum,                                    \* maximum_deye_charge_current_a
  Flows,       \* pairs of SolaX discharge and DEYE charge, over the tolerances
               \* when positive
  MaxGap       \* bound on the ticks between two evaluations

ASSUME ChargeAssumption ==
  /\ StartConfirm \in Nat \ {0} /\ TransferConfirm \in Nat \ {0}
  /\ ReturnConfirm \in Nat \ {0} /\ Recovery \in Nat \ {0}
  /\ Window \in Nat \ {0}
  /\ Reserve \in Nat /\ MinimumSafe \in Nat /\ Maximum \in Nat
  /\ Flows \subseteq Nat \X Nat /\ MaxGap \in Nat \ {0}

VARIABLES
  state,
  since,      \* how long the state has lasted
  samples,    \* the window: age, and charge less discharge, oldest first
  limited,    \* limited_current_a
  good,       \* history: how long every evaluation has found the start conditions
  feeding,    \* history: how long every evaluation has found a transfer
  below       \* history: how long no reading that was held was above a net one

controlVars == <<state, since, samples, limited, good, feeding, below>>

States == {"DISABLED", "WAITING_FOR_SOLAX", "START_CONFIRMATION",
           "CHARGE_DEYE_FULL", "TRANSFER_CONFIRMATION", "CHARGE_DEYE_LIMITED",
           "RETURN_CONFIRMATION", "SOLAX_PRIORITY", "FAULT"}
Charging == {"CHARGE_DEYE_FULL", "TRANSFER_CONFIRMATION",
             "CHARGE_DEYE_LIMITED", "RETURN_CONFIRMATION"}

Timed == {"START_CONFIRMATION", "TRANSFER_CONFIRMATION",
          "RETURN_CONFIRMATION", "FAULT"}

Telemetry == [soc : {"low", "between", "high"}, pv : BOOLEAN, flow : Flows]

AtMost(t, bound) == IF t < bound THEN t ELSE bound
AtLeast(t, bound) == IF t > bound THEN t ELSE bound
Longest == Max({StartConfirm, TransferConfirm, ReturnConfirm, Recovery})

Eligible(in) == in.soc = "high" /\ in.pv
Transfer(in) == in.flow[1] > 0 /\ in.flow[2] > 0
Net(in) == in.flow[2] - in.flow[1]
Nets == {f[2] - f[1] : f \in Flows}
Elapsed(gap) == AtMost(since + gap, Longest)

-----------------------------------------------------------------------------
(* The window: a value is held until the next one; what is older than the    *)
(* window does not count.                                                   *)
Older(gap) ==
  [i \in DOMAIN samples |->
     [samples[i] EXCEPT !.age = AtMost(@ + gap, 2 * Window + 1)]]

(* add: of the samples older than two windows the last is kept.             *)
Added(gap, in) ==
  LET s == Append(Older(gap), [age |-> 0, net |-> Net(in)])
      old == {i \in DOMAIN s : s[i].age > 2 * Window}
  IN IF old = {} THEN s ELSE SubSeq(s, Max(old), Len(s))

Held_Always(s, i) == s[i].age - (IF i = Len(s) THEN 0 ELSE s[i + 1].age)
                                          \* mutated: old samples count, too

Held(s, i) ==
  AtLeast(AtMost(s[i].age, Window) - (IF i = Len(s) THEN 0 ELSE s[i + 1].age),
          0)

Total(s) == MapThenSumSet(LAMBDA i : s[i].net * Held(s, i), DOMAIN s)
Covered(s) == MapThenSumSet(LAMBDA i : Held(s, i), DOMAIN s)

(* _limited: the averages, less the reserve, rounded down. Two samples span  *)
(* a transfer at least, so that the averages exist.                         *)
Limit_Unclamped(s) ==                      \* mutated: no maximum current
  LET safe == Total(s) - Reserve * Covered(s)
  IN IF safe < MinimumSafe * Covered(s) THEN 0 ELSE safe \div Covered(s)

Limit(s) ==
  LET safe == Total(s) - Reserve * Covered(s)
  IN IF safe < MinimumSafe * Covered(s) THEN 0
     ELSE AtMost(AtLeast(safe \div Covered(s), 0), Maximum)

-----------------------------------------------------------------------------
(* The state machine. Enter is _transition: a state that is entered again    *)
(* goes on. The age of a state that waits for nothing is not kept.          *)
Enter(gap, to) ==
  /\ state' = to
  /\ since' = IF to = state /\ to \in Timed THEN Elapsed(gap) ELSE 0

Stay(gap) == state' = state /\ since' = Elapsed(gap)

Disable(gap) ==
  /\ Enter(gap, "DISABLED")
  /\ samples' = Older(gap) /\ UNCHANGED limited

Fault(gap) ==
  /\ Enter(gap, "FAULT")
  /\ samples' = Older(gap) /\ UNCHANGED limited

GiveWay(gap, in) ==
  /\ in.soc = "low"
  /\ Enter(gap, "SOLAX_PRIORITY")
  /\ UNCHANGED limited

AwaitRecovery(gap, in) ==
  /\ state = "FAULT" /\ Elapsed(gap) < Recovery
  /\ Stay(gap) /\ UNCHANGED limited

AwaitStart(gap, in) ==
  /\ \/ state \in {"DISABLED", "WAITING_FOR_SOLAX", "SOLAX_PRIORITY"}
     \/ state = "FAULT" /\ Elapsed(gap) >= Recovery
  /\ Enter(gap, IF Eligible(in) THEN "START_CONFIRMATION"
                ELSE "WAITING_FOR_SOLAX")
  /\ UNCHANGED limited

ConfirmStart_Once(gap, in) ==              \* mutated: a break is forgiven
  /\ state = "START_CONFIRMATION"
  /\ IF Eligible(in) /\ Elapsed(gap) >= StartConfirm
     THEN Enter(gap, "CHARGE_DEYE_FULL") ELSE Stay(gap)
  /\ UNCHANGED limited

ConfirmStart(gap, in) ==
  /\ state = "START_CONFIRMATION"
  /\ \/ ~Eligible(in) /\ Enter(gap, "WAITING_FOR_SOLAX")
     \/ Eligible(in) /\ Elapsed(gap) >= StartConfirm
          /\ Enter(gap, "CHARGE_DEYE_FULL")
     \/ Eligible(in) /\ Elapsed(gap) < StartConfirm /\ Stay(gap)
  /\ UNCHANGED limited

Charge(gap, in) ==
  /\ state = "CHARGE_DEYE_FULL"
  /\ Enter(gap, IF Transfer(in) THEN "TRANSFER_CONFIRMATION" ELSE state)
  /\ UNCHANGED limited

ConfirmTransfer(gap, in) ==
  /\ state = "TRANSFER_CONFIRMATION"
  /\ \/ ~Transfer(in) /\ Enter(gap, "CHARGE_DEYE_FULL") /\ UNCHANGED limited
     \/ Transfer(in) /\ Elapsed(gap) < TransferConfirm
          /\ Stay(gap) /\ UNCHANGED limited
     \/ Transfer(in) /\ Elapsed(gap) >= TransferConfirm
          /\ Enter(gap, "CHARGE_DEYE_LIMITED")
          /\ limited' = Limit(Added(gap, in))

TryReturn(gap, in) ==
  /\ state = "CHARGE_DEYE_LIMITED"
  /\ Enter(gap, "RETURN_CONFIRMATION")
  /\ UNCHANGED limited

Returns(gap, in) == ~Transfer(in) /\ in.pv /\ Elapsed(gap) >= ReturnConfirm

ConfirmReturn_Afresh(gap, in) ==           \* mutated: each evaluation restarts it
  /\ state = "RETURN_CONFIRMATION"
  /\ since' = 0 /\ UNCHANGED limited
  /\ state' = IF Returns(gap, in) THEN "CHARGE_DEYE_FULL" ELSE state

(* What breaks the confirmation does not restart it.                        *)
ConfirmReturn(gap, in) ==
  /\ state = "RETURN_CONFIRMATION"
  /\ Enter(gap, IF Returns(gap, in) THEN "CHARGE_DEYE_FULL" ELSE state)
  /\ UNCHANGED limited

Proceed(gap, in) ==
  /\ samples' = Added(gap, in)
  /\ \/ GiveWay(gap, in)
     \/ /\ in.soc # "low"
        /\ \/ AwaitRecovery(gap, in) \/ AwaitStart(gap, in)
           \/ ConfirmStart(gap, in) \/ Charge(gap, in)
           \/ ConfirmTransfer(gap, in) \/ TryReturn(gap, in)
           \/ ConfirmReturn(gap, in)

-----------------------------------------------------------------------------
Broken == -1
Lasted(clock, holds, gap, bound) ==
  IF ~holds THEN Broken
  ELSE IF clock = Broken THEN 0 ELSE AtMost(clock + gap, bound)

(* What is neither enabled nor valid is no reading: the last one is held.     *)
Forget(gap) ==
  /\ good' = Broken /\ feeding' = Broken
  /\ below' = [n \in Nets |-> IF below[n] = Broken THEN Broken
                             ELSE AtMost(below[n] + gap, Window)]

Remember(gap, in) ==
  /\ good' = Lasted(good, Eligible(in), gap, StartConfirm)
  /\ feeding' = Lasted(feeding, Transfer(in), gap, TransferConfirm)
  /\ below' = [n \in Nets |-> Lasted(below[n], Net(in) <= n, gap, Window)]

ControlInit ==
  /\ state = "DISABLED" /\ since = 0 /\ samples = <<>> /\ limited = 0
  /\ good = Broken /\ feeding = Broken /\ below = [n \in Nets |-> Window]

ControlTick ==
  \E gap \in 1..MaxGap :
    \/ (Disable(gap) \/ Fault(gap)) /\ Forget(gap)
    \/ \E in \in Telemetry : Proceed(gap, in) /\ Remember(gap, in)

ControlSpec == ControlInit /\ [][ControlTick]_controlVars
FairSpec == ControlSpec /\ WF_controlVars(ControlTick)

-----------------------------------------------------------------------------
ControlTypeOK ==
  /\ state \in States /\ since \in 0..Longest
  /\ state \notin Timed => since = 0
  /\ good \in {Broken} \cup 0..StartConfirm
  /\ feeding \in {Broken} \cup 0..TransferConfirm
  /\ below \in [Nets -> {Broken} \cup 0..Window]

(* "It starts only after SolaX SOC is above 90% and PV is above 1000 W        *)
(* continuously for 30 seconds" (docs/phase-3-deye-surplus-charge-shadow.md): *)
(* whatever happens before and between, charging begins at the end of a       *)
(* period in which every evaluation found valid telemetry and both.          *)
StartIsConfirmed ==
  [][state \notin Charging /\ state' \in Charging => good' = StartConfirm]_controlVars

(* "A reduction is considered only after ten seconds" of transfer (same), and *)
(* the limit is never more than every reading of the averaging window allows: *)
(* a reading is held until the next, and none that ended before the window    *)
(* counts, be it of a time when the surplus was larger. The window may be     *)
(* longer than the confirmation (charge_controller.py:36-64, 106-123, 249).   *)
LimitIsMeasured ==
  [][ state # "CHARGE_DEYE_LIMITED" /\ state' = "CHARGE_DEYE_LIMITED" =>
        /\ feeding' = TransferConfirm
        /\ limited' \in 0..Maximum
        /\ \A n \in Nets :
             below'[n] = Window => limited' <= AtLeast(n - Reserve, 0) ]_controlVars

(* From any fault, wait or limit the controller comes back to the full        *)
(* current, once the start conditions hold and nothing is transferred for     *)
(* good (charge_controller.py:160-246).                                     *)
Charges ==
  <>[](good # Broken /\ feeding = Broken) => <>[](state = "CHARGE_DEYE_FULL")
=============================================================================
