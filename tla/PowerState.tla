------------------------------ MODULE PowerState ------------------------------
(***************************************************************************)
(* When DEYE has to be on for a trading plan, and when it may be off:        *)
(* build_deye_power_state_schedule (trading/power_state.py), which keeps no   *)
(* state. A plan is the number of its slots and those in which DEYE is         *)
(* active, counted from 0; durations are in minutes.                         *)
(***************************************************************************)
EXTENDS Integers, Sequences

CONSTANTS
  SlotLength,
  MaxSlots,     \* bound of the plans considered
  Durations     \* the values each of the four durations may be given

(* _SLOT is a quarter of an hour (power_state.py:17); a duration below none      *)
(* counts as none (:221).                                                   *)
ASSUME DurationAssumption ==
  /\ SlotLength \in Nat \ {0} /\ MaxSlots \in Nat /\ Durations \subseteq Nat

Settings ==
  [lead : Durations, minimumOn : Durations, minimumOff : Durations,
   shutdown : Durations]

Larger(a, b) == IF a > b THEN a ELSE b
Smaller(a, b) == IF a < b THEN a ELSE b

(* _duration_slots: rounded up.                                             *)
Slots(duration) == (duration + SlotLength - 1) \div SlotLength

-----------------------------------------------------------------------------
(* _required_on_blocks. The minimum is counted from the start that is left     *)
(* of the lead.                                                             *)
Block_MinimumFromActivity(n, i, c) ==      \* mutated: counted from the activity
  LET start == Larger(0, i - Slots(c.lead))
      stop == Larger(i + Slots(c.shutdown), i + Larger(1, Slots(c.minimumOn)))
  IN [first |-> start, last |-> Smaller(n - 1, stop)]

Block(n, i, c) ==
  LET start == Larger(0, i - Slots(c.lead))
      stop == Larger(i + Slots(c.shutdown),
                     start + Larger(1, Slots(c.minimumOn)) - 1)
  IN [first |-> start, last |-> Smaller(n - 1, stop)]

(* A block is joined to the last one when fewer than gap slots separate them.  *)
Join(blocks, b, gap) ==
  LET k == Len(blocks)
  IN IF k > 0 /\ b.first - blocks[k].last - 1 < gap
     THEN [blocks EXCEPT ![k].last = Larger(@, b.last)]
     ELSE Append(blocks, b)

(* The blocks of the activities, and these joined over gaps too short to be off. *)
Touching(n, active, c) ==
  LET upTo[i \in -1..(n - 1)] ==
        IF i = -1 THEN <<>>
        ELSE IF i \in active THEN Join(upTo[i - 1], Block(n, i, c), 1)
        ELSE upTo[i - 1]
  IN upTo[n - 1]

Blocks(n, active, c) ==
  LET touching == Touching(n, active, c)
      upTo[k \in 0..Len(touching)] ==
        IF k = 0 THEN <<>>
        ELSE Join(upTo[k - 1], touching[k], Slots(c.minimumOff))
  IN upTo[Len(touching)]

Required(n, active, c) ==
  LET blocks == Blocks(n, active, c)
  IN UNION {blocks[k].first..blocks[k].last : k \in 1..Len(blocks)}

(* build_deye_power_state_schedule: the states of the slots.                  *)
Overlay(n, active, c) ==
  LET required == Required(n, active, c)
      Ahead(i) == \E a \in active : a \in (i + 1)..(i + Slots(c.lead))
  IN [i \in 0..(n - 1) |->
        IF i \in active THEN "ON_REQUIRED"
        ELSE IF i \notin required THEN "OFF_ELIGIBLE"
        ELSE IF Ahead(i) THEN "STARTING" ELSE "READY"]

(* _off_windows: the longest runs of slots in which DEYE may be off.          *)
OffWindows(n, states) ==
  {w \in [first : 0..(n - 1), last : 0..(n - 1)] :
     /\ w.first <= w.last
     /\ \A i \in w.first..w.last : states[i] = "OFF_ELIGIBLE"
     /\ w.first = 0 \/ states[w.first - 1] # "OFF_ELIGIBLE"
     /\ w.last = n - 1 \/ states[w.last + 1] # "OFF_ELIGIBLE"}

-----------------------------------------------------------------------------
(* "no activity, startup lead, minimum-on constraint or shutdown delay"        *)
(* (docs/phase-5a-deye-power-state-shadow.md:20), of slot i.                  *)
Idle(active, c, i) ==
  \A a \in active :
    /\ i \notin (a - Slots(c.lead))..(a + Slots(c.shutdown))
    /\ i >= a => i >= Larger(0, a - Slots(c.lead)) + Slots(c.minimumOn)

(* "and the idle gap is at least the minimum-off duration" (same): a gap that    *)
(* the plan's beginning or end cuts may be shorter.                            *)
MayBeOff(n, active, c, i) ==
  /\ Idle(active, c, i)
  /\ \A l \in 0..(i - 1), r \in (i + 1)..(n - 1) :
       ~Idle(active, c, l) /\ ~Idle(active, c, r) =>
         \/ r - l - 1 >= Slots(c.minimumOff)
         \/ \E k \in (l + 1)..(r - 1) : ~Idle(active, c, k)

AsDocumented(n, active, c) ==
  LET states == Overlay(n, active, c)
      windows == OffWindows(n, states)
  IN /\ \A i \in 0..(n - 1) :
          states[i] = "OFF_ELIGIBLE" <=> MayBeOff(n, active, c, i)
     /\ \A w \in windows : w.last < n - 1 =>
          /\ w.last + Slots(c.lead) + 1 \in active
          /\ \A i \in 1..Slots(c.lead) : states[w.last + i] = "STARTING"
     /\ \A v, w \in windows : v.last < w.first =>
          w.first - v.last - 1 >= Slots(c.minimumOn)

(* DEYE may be off in the slots that the document names and in no others; each   *)
(* window ends the whole lead before an activity, and DEYE stays on between two    *)
(* windows for the minimum: merging blocks neither loses a lead nor keeps DEYE    *)
(* on for nothing (power_state.py:225-284).                                    *)
AllAsDocumented ==
  \A n \in 1..MaxSlots, c \in Settings :
    \A active \in SUBSET (0..(n - 1)) : AsDocumented(n, active, c)
=============================================================================
