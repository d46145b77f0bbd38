----------------------------- MODULE TradingPolicy -----------------------------
(***************************************************************************)
(* When a trading plan may export from the battery that is the reserve of     *)
(* the house, and how much it must keep: resolve_soc_policy                  *)
(* (trading/policy.py), which plan_trading_schedule calls once for a plan that *)
(* does not trade in the morning and, if there is sun enough to make up for    *)
(* it, for one that does; the optimizer obeys what it returns.                *)
(*                                                                         *)
(* Time is counted in parts of a slot, the clock is time within the day. The   *)
(* times of the configuration need not fall on a slot's. A horizon is where    *)
(* its slots begin and how many there are. Whether the reserve of the evening  *)
(* is within reach, and the sun's forecast, are not in the model.            *)
(***************************************************************************)
EXTENDS Integers

CONSTANTS
  SlotTime, Day,     \* in parts of a slot
  MaxHorizon         \* bound of the slots of the horizons considered

(* A day is a whole number of slots, of a quarter of an hour each.              *)
ASSUME DayAssumption ==
  /\ SlotTime \in Nat \ {0} /\ Day \in Nat \ {0} /\ Day % SlotTime = 0
  /\ MaxHorizon \in Nat

Clock(t) == t % Day
DayOf(t) == t \div Day

(* PlannerConfig.validate. The evening's time may be missing.                 *)
Configs ==
  {c \in [evening : -1..(Day - 1), start : 0..(Day - 1), end : 0..(Day - 1),
          deadline : 0..(Day - 1)] :
     c.start < c.end /\ c.end < c.deadline /\ c.evening # c.start}

Spans == [from : {k * SlotTime : k \in 0..(Day \div SlotTime - 1)},
          slots : 1..MaxHorizon]

SlotTimes(h) == {h.from + i * SlotTime : i \in 0..(h.slots - 1)}
StateTimes(h) == SlotTimes(h) \cup {h.from + h.slots * SlotTime}

-----------------------------------------------------------------------------
(* _first_state_at_or_after: a set of at most one.                            *)
First(h, day, clock) ==
  {t \in StateTimes(h) :
     /\ DayOf(t) = day /\ Clock(t) >= clock
     /\ \A u \in StateTimes(h) : DayOf(u) = day /\ Clock(u) >= clock => t <= u}

(* _morning_assessments: the mornings the horizon shows as a whole.           *)
Mornings(h, c) ==
  {[start |-> x[1], end |-> x[2], deadline |-> x[3]] :
     x \in UNION {{y \in First(h, day, c.start) \X First(h, day, c.end)
                          \X First(h, day, c.deadline) :
                      y[1] < y[2] /\ y[2] < y[3]} :
                   day \in {DayOf(t) : t \in StateTimes(h)}}}

Night_Unwrapped(t, c) ==               \* mutated: no night past midnight
  c.evening # -1 /\ Clock(t) >= c.evening
    /\ (c.evening < c.start => Clock(t) < c.start)

(* _overnight_export_blocked_indexes.                                        *)
Night(t, c) ==
  /\ c.evening # -1
  /\ IF c.evening < c.start
     THEN Clock(t) >= c.evening /\ Clock(t) < c.start
     ELSE Clock(t) >= c.evening \/ Clock(t) < c.start

Blocked_Recovery(h, c, trading) ==     \* mutated: the window is always open
  {t \in SlotTimes(h) :
     \/ Night(t, c)
     \/ \E m \in Mornings(h, c) : t < m.deadline /\ t >= m.end}

(* resolve_soc_policy.                                                      *)
Blocked(h, c, trading) ==
  LET mornings == Mornings(h, c)
  IN {t \in SlotTimes(h) :
        \/ Night(t, c)
        \/ \E m \in mornings :
             t < m.deadline /\ t >= IF trading THEN m.end ELSE m.start}

(* _apply_morning_floor: the states kept above the floor of morning trading.   *)
Floored(h, c, trading) ==
  IF trading THEN StateTimes(h) \cap UNION {m.start..m.end : m \in Mornings(h, c)}
  ELSE {}

(* The states at which the whole recovery target is a hard checkpoint.        *)
Recoveries(h, c, trading) ==
  IF trading THEN {m.deadline : m \in Mornings(h, c)} ELSE {}

-----------------------------------------------------------------------------
(* The night: evening was struck since the morning's start last was.           *)
SinceEvening(t, c) ==
  \E n \in 0..(Day - 1) : /\ Clock(t - n) = c.evening
                          /\ \A k \in 0..n : Clock(t - k) # c.start

(* The next slot's beginning at or after a time of the clock, on a day.        *)
OnGrid(day, clock) ==
  day * Day + ((clock + SlotTime - 1) \div SlotTime) * SlotTime

(* The horizon begins after the day's window or ends before its deadline, or   *)
(* the day has no slots of its own for the three times.                       *)
Cut(h, c, day) ==
  \/ OnGrid(day, c.end) <= h.from
  \/ h.from + h.slots * SlotTime < OnGrid(day, c.deadline)
  \/ OnGrid(day, c.start) = OnGrid(day, c.end)
  \/ OnGrid(day, c.end) = OnGrid(day, c.deadline)
  \/ DayOf(OnGrid(day, c.deadline)) # day

InMorning(t, c) == c.start <= Clock(t) /\ Clock(t) < c.deadline

Kept(h, c, trading) ==
  LET blocked == Blocked(h, c, trading)
      floored == Floored(h, c, trading)
      recoveries == Recoveries(h, c, trading)
  IN \A t \in SlotTimes(h) :
       LET whole == InMorning(t, c) /\ ~Cut(h, c, DayOf(t))
           traded == trading /\ whole /\ Clock(t) < c.end
       IN IF t \in blocked
          THEN SinceEvening(t, c) \/ (InMorning(t, c) /\ ~traded)
          ELSE /\ ~SinceEvening(t, c)
               /\ whole =>
                    /\ traded
                    /\ {t, t + SlotTime} \subseteq floored
                    /\ OnGrid(DayOf(t), c.deadline)
                          \in recoveries \cap StateTimes(h)

(* No slot of the night is open to export, nor one between a morning window's     *)
(* start and its recovery deadline, but those of a window that is traded in, and   *)
(* those only with the floor kept at both of their ends and the recovery demanded  *)
(* within the horizon; and nothing else is blocked. Nights cross midnight, times    *)
(* fall between slots, horizons begin in the midst of a window (policy.py:33-114,   *)
(* :156-225). Of a morning that is cut it asks nothing: the code leaves it open,   *)
(* and the document would have it closed (phase-5a-trading-planner-shadow.md:134). *)
AllKept == \A h \in Spans, c \in Configs, trading \in BOOLEAN : Kept(h, c, trading)
=============================================================================
