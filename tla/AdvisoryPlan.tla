----------------------------- MODULE AdvisoryPlan -----------------------------
(***************************************************************************)
(* When the advisory planner replans: AdvisoryRuntime.tick (advisory.py).   *)
(* A tick collects the inputs and compares them with those of the plan it   *)
(* has; a meaningful change invalidates the plan at once, but the next plan *)
(* is made only after the change is Debounce old and the last attempt       *)
(* Interval old. Collecting and planning may fail.                          *)
(*                                                                         *)
(* The inputs are one number, their meaningful change a distance of Delta.  *)
(* Times are counted in evaluation periods of ten seconds and saturate      *)
(* where the code stops telling them apart, so that behaviours are infinite *)
(* over finitely many states. MaxGap bounds the periods between two ticks.  *)
(***************************************************************************)
EXTENDS Integers

CONSTANTS
  Readings,   \* what the inputs may be
  Delta,      \* change that calls for another plan
  Interval,   \* minimum_interval_s
  Debounce,   \* debounce_s
  Refresh,    \* horizon_refresh_s
  Horizons,   \* how long a new plan may reach
  MaxGap

ASSUME AdvisoryAssumption ==
  /\ Readings \subseteq Int /\ Delta \in Nat \ {0}
  /\ Interval \in Nat \ {0} /\ Debounce \in Nat \ {0} /\ Refresh \in Nat \ {0}
  /\ Horizons \subseteq Nat \ {0} /\ MaxGap \in Nat \ {0}

VARIABLES
  plan,      \* reading it was made from and time left, a set of at most one
  valid,
  pending,   \* time since pending_since, a set of at most one
  attempt,   \* time since last_attempt; Interval from then on, and at first
  reading,   \* history: the inputs collected last
  failed,    \* history: the last tick failed to collect or to plan
  planned,   \* history: the last tick made a plan
  unrest     \* history: how long a plan has been wanted without a break

Broken == -1     \* unrest after a tick that wanted no plan or saw no inputs

vars == <<plan, valid, pending, attempt, reading, failed, planned, unrest>>

AtMost(t, bound) == IF t < bound THEN t ELSE bound
AtLeast0(t) == IF t > 0 THEN t ELSE 0

(* What a number of periods does to the clocks.                             *)
Aged(gap) == {[p EXCEPT !.left = AtLeast0(@ - gap)] : p \in plan}
Since(gap) == AtMost(attempt + gap, Interval)
Waited(gap) == {AtMost(t + gap, Debounce) : t \in pending}

Differ(a, b) == a - b >= Delta \/ b - a >= Delta

Wanted_Drift(p, in) ==                 \* mutated: compared with the last tick
  \/ p = {} \/ ~valid
  \/ Differ(in, reading) \/ \E q \in p : q.left <= Refresh

Wanted(p, in) ==
  \/ p = {} \/ ~valid
  \/ \E q \in p : Differ(in, q.reading) \/ q.left <= Refresh

Pending_Restarted(gap) == {0}          \* mutated: every tick starts it again

(* pending_since, after a tick that wants a plan.                           *)
Pending(gap) == IF pending = {} THEN {0} ELSE Waited(gap)

Due(gap) ==
  /\ Since(gap) = Interval
  /\ plan = {} \/ Debounce \in Pending(gap)

-----------------------------------------------------------------------------
CollectFails_Pending(gap) ==           \* mutated: pending_since survives
  /\ plan' = Aged(gap) /\ attempt' = Since(gap)
  /\ valid' = FALSE /\ pending' = Waited(gap)
  /\ failed' = TRUE /\ planned' = FALSE /\ unrest' = Broken
  /\ UNCHANGED reading

CollectFails(gap) ==
  /\ plan' = Aged(gap) /\ attempt' = Since(gap)
  /\ valid' = FALSE /\ pending' = {}
  /\ failed' = TRUE /\ planned' = FALSE /\ unrest' = Broken
  /\ UNCHANGED reading

Calm(gap, in) ==
  /\ ~Wanted(Aged(gap), in)
  /\ plan' = Aged(gap) /\ attempt' = Since(gap)
  /\ pending' = Waited(gap)
  /\ failed' = FALSE /\ planned' = FALSE /\ unrest' = Broken
  /\ reading' = in /\ UNCHANGED valid

Wait(gap, in) ==
  /\ Wanted(Aged(gap), in) /\ ~Due(gap)
  /\ plan' = Aged(gap) /\ attempt' = Since(gap)
  /\ valid' = FALSE /\ pending' = Pending(gap)
  /\ failed' = FALSE /\ planned' = FALSE /\ reading' = in

Replan(gap, in) ==
  /\ Wanted(Aged(gap), in) /\ Due(gap)
  /\ \E h \in Horizons : plan' = {[reading |-> in, left |-> h]}
  /\ attempt' = 0 /\ valid' = TRUE /\ pending' = {}
  /\ failed' = FALSE /\ planned' = TRUE /\ reading' = in

PlannerFails(gap, in) ==
  /\ Wanted(Aged(gap), in) /\ Due(gap)
  /\ plan' = Aged(gap) /\ attempt' = 0
  /\ valid' = FALSE /\ pending' = Pending(gap)
  /\ failed' = TRUE /\ planned' = FALSE /\ reading' = in

(* The time a plan has been wanted, from the first of an unbroken series of  *)
(* ticks that wanted one.                                                   *)
Endure(gap) ==
  unrest' = IF valid \/ unrest = Broken THEN 0
            ELSE AtMost(unrest + gap, Debounce)

Tick ==
  \E gap \in 1..MaxGap :
    \/ CollectFails(gap)
    \/ \E in \in Readings :
         \/ Calm(gap, in)
         \/ /\ Wait(gap, in) \/ Replan(gap, in) \/ PlannerFails(gap, in)
            /\ Endure(gap)

Init ==
  /\ plan = {} /\ valid = FALSE /\ pending = {} /\ attempt = Interval
  /\ reading \in Readings /\ failed = FALSE /\ planned = FALSE /\ unrest = Broken

Spec == Init /\ [][Tick]_vars
FairSpec == Spec /\ WF_vars(Tick)

(* The status published, ADVISORY.                                          *)
Advisory == valid /\ \A p \in plan : p.left > 0

-----------------------------------------------------------------------------
TypeOK ==
  /\ \A p \in plan : p.reading \in Readings /\ p.left \in Nat
  /\ \A p, q \in plan : p = q
  /\ valid \in BOOLEAN /\ failed \in BOOLEAN /\ planned \in BOOLEAN
  /\ pending \subseteq 0..Debounce /\ \A s, t \in pending : s = t
  /\ attempt \in 0..Interval /\ unrest \in {Broken} \cup 0..Debounce
  /\ reading \in Readings
  /\ valid => plan # {} /\ pending = {}

(* Whatever came between, advice is published only from a plan whose inputs  *)
(* are, within Delta, those collected in the same tick, and that reaches     *)
(* further than Refresh unless it was just made: no slow drift, recovery or  *)
(* lost collection leaves advice for other circumstances (advisory.py:568).  *)
AdviceFits ==
  Advisory => /\ ~failed
              /\ \A p \in plan : /\ ~Differ(reading, p.reading)
                                 /\ p.left > Refresh \/ planned

(* A plan in hand is replaced only after the wish has lasted for Debounce    *)
(* without a break, however often the inputs changed, failed to be collected *)
(* or went back in the meantime (advisory.py:596).                          *)
ReplanIsDebounced ==
  [][ planned' /\ plan # {} => unrest' = Debounce ]_vars

(* Inputs that keep changing never starve the planner: if collecting and     *)
(* planning work from some time on, advice is published again and again      *)
(* (advisory.py:584).                                                       *)
AdviceReturns == <>[]~failed => []<>Advisory
=============================================================================
