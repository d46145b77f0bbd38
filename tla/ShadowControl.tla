----------------------------- MODULE ShadowControl -----------------------------
(***************************************************************************)
(* The shadow control loop of phase 4: ShadowControlCore.evaluate            *)
(* (shadow_controller.py) over ShadowPowerAllocator (allocator.py), called   *)
(* by the control tick of app.py. Every tick splits the power the site needs *)
(* over two batteries, takes each through a break before a change of         *)
(* direction, and holds both while the measured flows look like a transfer   *)
(* from one to the other.                                                   *)
(*                                                                         *)
(* Power is a small integer, positive when a battery charges. A measured     *)
(* flow is what the code tells apart: within zero_flow_tolerance_w or not    *)
(* (the transfer threshold has the same default, 300 W). Times are ages in   *)
(* control intervals; they stop where the code no longer tells them apart.   *)
(* MaxGap bounds the intervals between two ticks: a tick is skipped while    *)
(* the loop is switched off, and when reading the telemetry raises.          *)
(***************************************************************************)
EXTENDS Integers, BatteryPair

CONSTANTS
  Rated,      \* power limit of a battery
  Slew,       \* slew_limit_w_per_tick
  GridTarget,     \* grid target within the export limit, positive for export
  Surpluses,  \* usable PV power less the load
  Confirm,    \* zero_flow_confirmation_s
  Persist,    \* transfer_confirmation_s
  MaxGap

ASSUME ControlAssumption ==
  /\ Rated \in Nat /\ Slew \in Nat \ {0} /\ GridTarget \in Int
  /\ Surpluses \subseteq Int
  /\ Confirm \in Nat \ {0} /\ Persist \in Nat \ {0} /\ MaxGap \in Nat \ {0}

VARIABLES
  sim,       \* per battery: _last_simulated_power, whether a direction is
             \* pending, and the age of _zero_since, a set of at most one
  transfer,  \* battery a transfer comes from and its age: a set of at most one
  out,       \* the allocation returned: target power per battery
  verdict,   \* what _runtime_transfer says
  rest,      \* history: how long allocations have seen a battery at rest
  owed,      \* history: batteries that have to rest before they move
  good       \* history: the last tick allocated, with both batteries at rest

coreVars == <<sim, transfer, out, verdict, rest, owed, good>>

Flows == {"charges", "rests", "discharges", "unknown"}
Operating == {"READY", "INTENTIONAL_OFF", "OTHER"}
Never == -1

AtMost(t, bound) == IF t < bound THEN t ELSE bound
AtLeast0(t) == IF t > 0 THEN t ELSE 0
Sign(p) == IF p > 0 THEN 1 ELSE IF p < 0 THEN -1 ELSE 0
Nothing == [b \in Batteries |-> 0]

-----------------------------------------------------------------------------
(* The allocation before any break: DEYE first, SolaX the residual. A battery *)
(* can charge or discharge by its state of charge, or neither.              *)
Limit(b, direction, can) == IF direction \in can[b] THEN Rated ELSE 0

Split(need, direction, can) ==
  LET first == AtMost(need, Limit("DEYE", direction, can))
  IN  [DEYE |-> first,
       SOLAX |-> AtMost(AtLeast0(need - first),
                        Limit("SOLAX", direction, can))]

Wanted(surplus, can) ==
  LET need == GridTarget - surplus
      spare == IF GridTarget < 0 THEN AtLeast0(surplus) ELSE -need
      supplied == Split(need, "DISCHARGE", can)
  IN  IF need >= 0 THEN [DEYE |-> -supplied.DEYE, SOLAX |-> -supplied.SOLAX]
      ELSE Split(spare, "CHARGE", can)

(* What may be wanted. Nothing is wanted of a battery that can do neither,    *)
(* as one that is not available.                                            *)
Demands ==
  {Wanted(surplus, can) :
     surplus \in Surpluses,
     can \in [Batteries -> SUBSET {"CHARGE", "DISCHARGE"}]}

(* A battery is available with fresh feedback only, DEYE only when READY.    *)
Able(operating, flow) ==
  {b \in Batteries : /\ flow[b] # "unknown"
                     /\ b = "DEYE" => operating = "READY"}

-----------------------------------------------------------------------------
(* Break before make.                                                       *)
(* invalidate_battery.                                                      *)
Forget(s) == [power |-> 0, waits |-> TRUE, zero |-> {}]

Slewed(power, want) ==
  IF want - power > Slew THEN power + Slew
  ELSE IF power - want > Slew THEN power - Slew ELSE want

Turns(s, want) == ~s.waits /\ Sign(s.power) * Sign(want) = -1

Resting_Afresh(s) == {0}               \* mutated: every sample starts it

(* _zero_since once the battery is seen at rest; its age is that of the tick. *)
Resting(s) == IF s.zero = {} THEN {0} ELSE s.zero

Simulate(s, want, seen) ==
  IF Turns(s, want) THEN Forget(s)
  ELSE IF s.waits
  THEN IF seen = "rests" /\ Confirm \in Resting(s)
       THEN [power |-> want, waits |-> FALSE, zero |-> {}]
       ELSE [power |-> 0, waits |-> TRUE,
             zero |-> IF seen = "rests" THEN Resting(s) ELSE {}]
  ELSE [s EXCEPT !.power = Slewed(@, want)]

Aged(gap) ==
  [b \in Batteries |->
     [sim[b] EXCEPT !.zero = {AtMost(t + gap, Confirm) : t \in @}]]

(* A loss of READY before the allocation, and once more after it.            *)
Lost(b, operating) == b = "DEYE" /\ operating # "READY"

Kept_Always(s, b, operating) == s      \* mutated: READY may come and go

Kept(s, b, operating) == IF Lost(b, operating) THEN Forget(s) ELSE s

-----------------------------------------------------------------------------
(* The transfer that the batteries' measured flows amount to.               *)
Unclear(flow) == \E b \in Batteries : flow[b] = "unknown"

Sources(flow) ==
  {b \in Batteries : flow[b] = "discharges" /\ flow[Other(b)] = "charges"}

TransferSeen_Kept(flow, gap) ==            \* mutated: it outlives lost feedback
  IF Unclear(flow) THEN {[t EXCEPT !.age = AtMost(@ + gap, Persist)] :
                           t \in transfer}
  ELSE {[from |-> b,
         age |-> IF \E t \in transfer : t.from = b
                 THEN AtMost((CHOOSE t \in transfer : t.from = b).age + gap,
                             Persist)
                 ELSE 0] : b \in Sources(flow)}

TransferSeen(flow, gap) ==
  IF Unclear(flow) THEN {}
  ELSE {[from |-> b,
         age |-> IF \E t \in transfer : t.from = b
                 THEN AtMost((CHOOSE t \in transfer : t.from = b).age + gap,
                             Persist)
                 ELSE 0] : b \in Sources(flow)}

Verdict(flow) ==
  IF Unclear(flow) THEN "UNVERIFIED"
  ELSE IF transfer' = {} THEN "CLEAR"
  ELSE IF \E t \in transfer' : t.age >= Persist THEN "FAULT"
  ELSE "SUSPECTED"

-----------------------------------------------------------------------------
(* One tick. The load and the PV power are usable (legible) or not, and the  *)
(* load never is with DEYE in another state than READY or off.               *)
Evaluate(gap, operating, legible, flow, wanted) ==
  LET before == [b \in Batteries |-> Kept(Aged(gap)[b], b, operating)]
      after == IF legible
               THEN [b \in Batteries |->
                       Simulate(before[b], wanted[b], flow[b])]
               ELSE before
  IN  /\ transfer' = TransferSeen(flow, gap)
      /\ verdict' = Verdict(flow)
      /\ sim' = [b \in Batteries |-> Kept(after[b], b, operating)]
      /\ out' = [b \in Batteries |->
                   IF legible /\ verdict' = "CLEAR" /\ ~Lost(b, operating)
                   THEN after[b].power ELSE 0]

(* The histories: rest counts from the first sample that showed it; a loss of *)
(* READY and a demand against the direction of the power oblige to rest.     *)
Watch(gap, operating, legible, flow, wanted) ==
  /\ rest' = [b \in Batteries |->
       IF Lost(b, operating) \/ (legible /\ flow[b] # "rests") THEN Never
       ELSE IF rest[b] # Never THEN AtMost(rest[b] + gap, Confirm)
       ELSE IF legible THEN 0 ELSE Never]
  /\ owed' = {b \in Batteries :
       /\ \/ b \in owed \/ Lost(b, operating)
          \/ legible /\ Sign(sim[b].power) * Sign(wanted[b]) = -1
       /\ rest'[b] # Confirm}
  /\ good' = (legible /\ operating = "READY"
                /\ \A b \in Batteries : flow[b] = "rests")

(* A tick with these inputs, for whatever is wanted.                        *)
Measured(gap, operating, legible, flow) ==
  /\ operating = "OTHER" => ~legible
  /\ \E wanted \in IF legible THEN Demands ELSE {Nothing} :
       /\ \A b \in Batteries : wanted[b] # 0 => b \in Able(operating, flow)
       /\ Evaluate(gap, operating, legible, flow, wanted)
       /\ Watch(gap, operating, legible, flow, wanted)

Tick ==
  \E gap \in 1..MaxGap, operating \in Operating, legible \in BOOLEAN,
     flow \in [Batteries -> Flows] : Measured(gap, operating, legible, flow)

CoreInit ==
  /\ sim = [b \in Batteries |-> [power |-> 0, waits |-> FALSE, zero |-> {}]]
  /\ transfer = {} /\ out = Nothing /\ verdict = "CLEAR"
  /\ rest = [b \in Batteries |-> Never] /\ owed = {} /\ good = FALSE

CoreSpec == CoreInit /\ [][Tick]_coreVars
FairSpec == CoreSpec /\ WF_coreVars(Tick)

-----------------------------------------------------------------------------
Powers == (-Rated)..Rated

CoreTypeOK ==
  /\ sim \in [Batteries -> [power : Powers, waits : BOOLEAN,
                            zero : SUBSET (0..Confirm)]]
  /\ \A b \in Batteries : /\ \A s, t \in sim[b].zero : s = t
                          /\ sim[b].waits => sim[b].power = 0
                          /\ ~sim[b].waits => sim[b].zero = {}
  /\ transfer \subseteq [from : Batteries, age : 0..Persist]
  /\ \A s, t \in transfer : s = t
  /\ out \in [Batteries -> Powers]
  /\ verdict \in {"CLEAR", "UNVERIFIED", "SUSPECTED", "FAULT"}
  /\ rest \in [Batteries -> {Never} \cup 0..Confirm]
  /\ owed \subseteq Batteries /\ good \in BOOLEAN

(* "No previous allocator output may survive a loss of confirmed READY"      *)
(* (shadow_controller.py:165), nor a demand for the other direction: the     *)
(* battery stays on hold until allocations have seen it at rest for Confirm  *)
(* without a break, whatever faults, skipped ticks and changes of mind come  *)
(* in between (allocator.py:229).                                           *)
RestBeforeMotion == \A b \in owed : out[b] = 0

(* "A shorter event is TRANSFER_SUSPECTED and only a confirmed event becomes  *)
(* FAULT": a fault is never raised at the first sight of a transfer, after a  *)
(* loss of feedback, or when a transfer turns round                          *)
(* (shadow_controller.py:219).                                              *)
FaultIsConfirmed ==
  [][ verdict' = "FAULT" =>
        /\ verdict \in {"SUSPECTED", "FAULT"}
        /\ \A s \in transfer', t \in transfer : s.from = t.from ]_coreVars

(* No wait for rest is endless: once DEYE is READY, the inputs are usable and *)
(* the batteries rest for good, each battery is free again and again, even    *)
(* if the demand turns at every tick (allocator.py:231).                     *)
WaitsEnd == <>[]good => \A b \in Batteries : []<>(~sim[b].waits)
=============================================================================
