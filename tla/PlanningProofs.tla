---------------------------- MODULE PlanningProofs ----------------------------
(* Theorems about planning, for every set of readings and horizons, every delay *)
(* and every length of a day and a slot: about when a plan is made              *)
(* (AdvisoryPlan), about the reserve that any plan keeps (TradingPolicy), about   *)
(* when DEYE may be off in it (PowerState), and about how it is published, for    *)
(* every set of plans and types and every bound (PlannerPublication).          *)
EXTENDS MCAdvisoryPlan, PlannerPublication, Induction, SequenceTheorems, TLAPS

(* A valid plan is one that the last tick did not want replaced.             *)
ValidFits ==
  valid => /\ ~failed
           /\ \A p \in plan : /\ ~Differ(reading, p.reading)
                              /\ p.left > Refresh \/ planned

(* While a plan is wanted, the code's clock shows how long it has been.      *)
Debounced == ~valid => pending = IF unrest = Broken THEN {} ELSE {unrest}

Inv == TypeOK /\ ValidFits /\ Debounced

(* The clocks stay within their bounds as time passes.                      *)
LEMMA Ageing ==
  ASSUME TypeOK, NEW gap \in 1..MaxGap
  PROVE  /\ Since(gap) \in 0..Interval
         /\ Waited(gap) \subseteq 0..Debounce
         /\ \A s, t \in Waited(gap) : s = t
         /\ \A p \in Aged(gap) : p.reading \in Readings /\ p.left \in Nat
         /\ \A p, q \in Aged(gap) : p = q
         /\ Aged(gap) = {} <=> plan = {}
<1>. gap \in Nat \ {0} /\ Interval \in Nat \ {0} /\ Debounce \in Nat \ {0}
  BY AdvisoryAssumption
<1>1. Since(gap) \in 0..Interval
  BY DEF Since, AtMost, TypeOK
<1>2. ASSUME NEW t \in pending PROVE AtMost(t + gap, Debounce) \in 0..Debounce
  BY DEF AtMost, TypeOK
<1>3. Waited(gap) \subseteq 0..Debounce /\ \A s, t \in Waited(gap) : s = t
  BY <1>2 DEF Waited, TypeOK
<1>4. ASSUME NEW p \in plan
      PROVE  /\ [p EXCEPT !.left = AtLeast0(@ - gap)].reading \in Readings
             /\ [p EXCEPT !.left = AtLeast0(@ - gap)].left \in Nat
  BY DEF AtLeast0, TypeOK
<1>5. \A p \in Aged(gap) : p.reading \in Readings /\ p.left \in Nat
  BY <1>4 DEF Aged
<1>6. (\A p, q \in Aged(gap) : p = q) /\ (Aged(gap) = {} <=> plan = {})
  BY DEF Aged, TypeOK
<1>. QED  BY <1>1, <1>3, <1>5, <1>6

(* The history of the wish is the code's clock.                             *)
LEMMA Counting ==
  ASSUME Inv, NEW gap \in 1..MaxGap, Endure(gap)
  PROVE  /\ Pending(gap) = {unrest'}
         /\ unrest' \in 0..Debounce /\ unrest' # Broken
<1>. gap \in Nat \ {0} /\ Debounce \in Nat \ {0}
  BY AdvisoryAssumption
<1>1. CASE valid \/ unrest = Broken
  BY <1>1 DEF Endure, Inv, Debounced, TypeOK, Pending, Broken
<1>2. CASE ~valid /\ unrest # Broken
  <2>1. pending = {unrest} /\ unrest \in 0..Debounce
    BY <1>2 DEF Inv, Debounced, TypeOK
  <2>2. Pending(gap) = {AtMost(unrest + gap, Debounce)}
    BY <2>1 DEF Pending, Waited
  <2>3. unrest' = AtMost(unrest + gap, Debounce)
    BY <1>2 DEF Endure
  <2>4. unrest' \in 0..Debounce
    BY <2>1, <2>3 DEF AtMost
  <2>. QED  BY <2>2, <2>3, <2>4 DEF Broken
<1>. QED  BY <1>1, <1>2

LEMMA Initial == Init => Inv
<1>. SUFFICES ASSUME Init PROVE Inv
  OBVIOUS
<1>1. Interval \in 0..Interval
  BY AdvisoryAssumption
<1>2. TypeOK
  BY <1>1 DEF Init, TypeOK
<1>3. ValidFits /\ Debounced
  BY DEF Init, ValidFits, Debounced
<1>. QED  BY <1>2, <1>3 DEF Inv

LEMMA Step == Inv /\ [Tick]_vars => Inv'
<1>. SUFFICES ASSUME Inv, [Tick]_vars PROVE Inv'
  OBVIOUS
<1>. USE DEF Inv
<1>1. CASE UNCHANGED vars
  BY <1>1 DEF vars, TypeOK, ValidFits, Debounced, Differ
<1>2. ASSUME NEW gap \in 1..MaxGap, CollectFails(gap) PROVE Inv'
  BY <1>2, Ageing DEF CollectFails, TypeOK, ValidFits, Debounced
<1>3. ASSUME NEW gap \in 1..MaxGap, NEW in \in Readings, Calm(gap, in)
      PROVE  Inv'
  <2>1. /\ Aged(gap) # {} /\ valid /\ pending = {} /\ Waited(gap) = {}
        /\ \A p \in Aged(gap) : ~Differ(in, p.reading) /\ ~(p.left <= Refresh)
    BY <1>3 DEF Calm, Wanted, TypeOK, Waited
  <2>2. \A p \in Aged(gap) : p.left > Refresh
    BY <2>1, Ageing, AdvisoryAssumption
  <2>. QED  BY <1>3, <2>1, <2>2, Ageing DEF Calm, TypeOK, ValidFits, Debounced
<1>4. ASSUME NEW gap \in 1..MaxGap, NEW in \in Readings, Wait(gap, in),
             Endure(gap)
      PROVE  Inv'
  BY <1>4, Ageing, Counting DEF Wait, TypeOK, ValidFits, Debounced
<1>5. ASSUME NEW gap \in 1..MaxGap, NEW in \in Readings, PlannerFails(gap, in),
             Endure(gap)
      PROVE  Inv'
  <2>1. 0 \in 0..Interval
    BY AdvisoryAssumption
  <2>. QED  BY <1>5, <2>1, Ageing, Counting
            DEF PlannerFails, TypeOK, ValidFits, Debounced
<1>6. ASSUME NEW gap \in 1..MaxGap, NEW in \in Readings, Replan(gap, in),
             Endure(gap)
      PROVE  Inv'
  <2>1. 0 \in 0..Interval
    BY AdvisoryAssumption
  <2>2. PICK h \in Horizons : plan' = {[reading |-> in, left |-> h]}
    BY <1>6 DEF Replan
  <2>3. h \in Nat /\ in \in Int /\ ~Differ(in, in)
    BY AdvisoryAssumption DEF Differ
  <2>4. \A p \in plan' : p.reading = in /\ p.left = h
    BY <2>2
  <2>5. \A p, q \in plan' : p = q
    BY <2>2
  <2>6. plan' # {} /\ valid' = TRUE /\ pending' = {} /\ attempt' = 0
        /\ failed' = FALSE /\ planned' = TRUE /\ reading' = in
    BY <1>6, <2>2 DEF Replan
  <2>7. unrest' \in 0..Debounce
    BY <1>6, Counting
  <2>8. TypeOK'
    BY <2>1, <2>3, <2>4, <2>5, <2>6, <2>7 DEF TypeOK
  <2>9. ValidFits'
    BY <2>3, <2>4, <2>6 DEF ValidFits, Differ
  <2>10. Debounced'
    BY <2>6 DEF Debounced
  <2>. QED  BY <2>8, <2>9, <2>10
<1>. QED  BY <1>1, <1>2, <1>3, <1>4, <1>5, <1>6 DEF Tick

LEMMA InvCorrect == Spec => []Inv
BY Initial, Step, PTL DEF Spec

(* Every variable keeps its type, and a valid plan awaits no other.          *)
THEOREM TypeCorrect == Spec => []TypeOK
BY InvCorrect, PTL DEF Inv

(* Advice fits the inputs collected last.                                   *)
THEOREM AdviceCorrect == Spec => []AdviceFits
<1>1. Inv => AdviceFits
  BY DEF Inv, ValidFits, AdviceFits, Advisory
<1>. QED  BY <1>1, InvCorrect, PTL

(* A plan in hand is replaced after the debounce only.                      *)
THEOREM DebounceCorrect == Spec => ReplanIsDebounced
<1>1. ASSUME Inv, [Tick]_vars, UNCHANGED vars \/ planned', plan # {},
             ~UNCHANGED vars
      PROVE  unrest' = Debounce
  <2>1. PICK gap \in 1..MaxGap, in \in Readings :
          Replan(gap, in) /\ Endure(gap)
    BY <1>1 DEF Tick, CollectFails, Calm, Wait, PlannerFails
  <2>2. Debounce \in Pending(gap)
    BY <1>1, <2>1 DEF Replan, Due
  <2>. QED  BY <1>1, <2>1, <2>2, Counting
<1>2. Inv /\ [Tick]_vars => [planned' /\ plan # {} => unrest' = Debounce]_vars
  BY <1>1
<1>. QED  BY <1>2, InvCorrect, PTL DEF Spec, ReplanIsDebounced

-----------------------------------------------------------------------------
(* When the last slot of a horizon ends.                                    *)
End(h) == h.from + h.slots * SlotTime
OnSlot(t) == \E k \in Nat : t = k * SlotTime

-----------------------------------------------------------------------------
(* Times on the grid of the slots are whole slots apart.                    *)
LEMMA Multiples ==
  ASSUME NEW S \in Nat \ {0}, NEW p \in Int, NEW q \in Int
  PROVE  /\ p * S < q * S => p * S + S <= q * S
         /\ p * S < q * S <=> p < q
OBVIOUS

(* Rounding up to a whole slot.                                             *)
LEMMA RoundedUp ==
  ASSUME NEW S \in Nat \ {0}, NEW x \in Nat
  PROVE  /\ (x + S - 1) \div S \in Nat
         /\ x <= ((x + S - 1) \div S) * S
         /\ ((x + S - 1) \div S) * S < x + S
OBVIOUS

(* The day is a whole number of slots.                                      *)
LEMMA DayHasSlots == Day \div SlotTime \in Nat /\ Day = (Day \div SlotTime) * SlotTime
BY DayAssumption

(* A time is its day and its clock.                                         *)
LEMMA DayAndClock ==
  ASSUME NEW t \in Int
  PROVE  /\ DayOf(t) \in Int /\ Clock(t) \in 0..(Day - 1)
         /\ t = DayOf(t) * Day + Clock(t)
         /\ t \in Nat => DayOf(t) \in Nat
         /\ \A day \in Int : DayOf(t) = day <=> day * Day <= t /\ t < (day + 1) * Day
<1>1. /\ DayOf(t) \in Int /\ Clock(t) \in 0..(Day - 1)
      /\ t = DayOf(t) * Day + Clock(t)
  BY DayAssumption DEF DayOf, Clock
<1>2. t \in Nat => DayOf(t) \in Nat
  BY DayAssumption DEF DayOf
<1>3. ASSUME NEW day \in Int
      PROVE  DayOf(t) = day <=> day * Day <= t /\ t < (day + 1) * Day
  <2>1. CASE DayOf(t) = day
    BY <1>1, <2>1, DayAssumption
  <2>2. CASE DayOf(t) < day
    <3>1. DayOf(t) * Day + Day <= day * Day
      BY <1>1, <2>2, Multiples, DayAssumption
    <3>. QED  BY <1>1, <2>2, <3>1, DayAssumption
  <2>3. CASE day < DayOf(t)
    <3>1. day * Day + Day <= DayOf(t) * Day
      BY <1>1, <2>3, Multiples, DayAssumption
    <3>2. (day + 1) * Day = day * Day + Day
      BY DayAssumption
    <3>. QED  BY <1>1, <2>3, <3>1, <3>2, DayAssumption
  <2>. QED  BY <1>1, <2>1, <2>2, <2>3
<1>. QED  BY <1>1, <1>2, <1>3

(* The next slot at or after a time of the day.                              *)
LEMMA NextSlot ==
  ASSUME NEW day \in Nat, NEW x \in 0..(Day - 1)
  PROVE  /\ OnGrid(day, x) \in Nat /\ OnSlot(OnGrid(day, x))
         /\ day * Day + x <= OnGrid(day, x)
         /\ \A u \in Nat : OnSlot(u) =>
               (day * Day + x <= u <=> OnGrid(day, x) <= u)
<1>. DEFINE q == (x + SlotTime - 1) \div SlotTime
            M == Day \div SlotTime
            k == day * M + q
<1>0. x \in Nat /\ SlotTime \in Nat \ {0}
  BY DayAssumption
<1>1. q \in Nat /\ x <= q * SlotTime /\ q * SlotTime < x + SlotTime
  BY <1>0, RoundedUp
<1>2. M \in Nat /\ day * Day = (day * M) * SlotTime
  BY DayHasSlots, DayAssumption
<1>3. OnGrid(day, x) = day * Day + q * SlotTime
  BY DEF OnGrid
<1>. HIDE DEF q, M
<1>4. k \in Nat /\ day * Day + q * SlotTime = k * SlotTime
  BY <1>1, <1>2, DayAssumption
<1>5. OnGrid(day, x) \in Nat /\ OnSlot(OnGrid(day, x))
  BY <1>3, <1>4, DayAssumption DEF OnSlot
<1>6. ASSUME NEW u \in Nat, OnSlot(u), day * Day + x <= u
      PROVE  OnGrid(day, x) <= u
  <2>1. PICK j \in Nat : u = j * SlotTime
    BY <1>6 DEF OnSlot
  <2>2. k * SlotTime < u + SlotTime
    BY <1>1, <1>2, <1>4, <1>6, DayAssumption
  <2>3. ~(j * SlotTime < k * SlotTime)
    BY <1>4, <2>1, <2>2, Multiples, DayAssumption
  <2>. QED  BY <1>3, <1>4, <2>1, <2>3, DayAssumption
<1>7. day * Day + x <= OnGrid(day, x)
  BY <1>1, <1>2, <1>3, DayAssumption
<1>8. day * Day \in Nat
  BY DayAssumption
<1>. QED  BY <1>5, <1>6, <1>7, <1>8

(* The times of a horizon.                                                  *)
LEMMA Horizon ==
  ASSUME NEW h \in Spans
  PROVE  /\ h.from \in Nat /\ h.from < Day /\ DayOf(h.from) = 0
         /\ End(h) \in Nat /\ h.from < End(h)
         /\ StateTimes(h) = {u \in Nat : OnSlot(u) /\ h.from <= u /\ u <= End(h)}
         /\ SlotTimes(h) = {u \in StateTimes(h) : u + SlotTime <= End(h)}
         /\ \A u \in SlotTimes(h) : u + SlotTime \in StateTimes(h)
<1>1. PICK k \in 0..(Day \div SlotTime - 1) : h.from = k * SlotTime
  BY DEF Spans
<1>2. h.slots \in Nat /\ h.slots >= 1
  BY DEF Spans
<1>3. h.from \in Nat
  BY <1>1, DayAssumption, DayHasSlots
<1>4. h.from < Day
  BY <1>1, DayHasSlots, Multiples, DayAssumption
<1>5. DayOf(h.from) = 0
  <2>1. 0 * Day = 0 /\ (0 + 1) * Day = Day
    BY DayAssumption
  <2>. QED  BY <1>3, <1>4, <2>1, DayAndClock
<1>6. End(h) = (k + h.slots) * SlotTime /\ k + h.slots \in Nat
  BY <1>1, <1>2, DayAssumption, DayHasSlots DEF End
<1>7. End(h) \in Nat /\ h.from < End(h)
  BY <1>1, <1>2, <1>6, Multiples, DayAssumption, DayHasSlots
<1>8. \A u : u \in SlotTimes(h) <=>
         \E i \in k..(k + h.slots - 1) : u = i * SlotTime
  <2>1. ASSUME NEW i \in 0..(h.slots - 1)
        PROVE  h.from + i * SlotTime = (k + i) * SlotTime
    BY <1>1, <1>2, DayAssumption, DayHasSlots
  <2>2. ASSUME NEW i \in k..(k + h.slots - 1)
        PROVE  i * SlotTime = h.from + (i - k) * SlotTime /\ i - k \in 0..(h.slots - 1)
    BY <1>1, <1>2, DayAssumption, DayHasSlots
  <2>3. \A i \in 0..(h.slots - 1) : k + i \in k..(k + h.slots - 1)
    BY <1>1, <1>2, DayHasSlots
  <2>. QED  BY <2>1, <2>2, <2>3 DEF SlotTimes
<1>9. \A u : u \in StateTimes(h) <=>
         \E i \in k..(k + h.slots) : u = i * SlotTime
  <2>1. k + h.slots \in k..(k + h.slots)
    BY <1>1, <1>2, DayHasSlots
  <2>2. \A i \in k..(k + h.slots) : i = k + h.slots \/ i \in k..(k + h.slots - 1)
    BY <1>1, <1>2, DayHasSlots
  <2>3. k..(k + h.slots - 1) \subseteq k..(k + h.slots)
    BY <1>1, <1>2, DayHasSlots
  <2>4. StateTimes(h) = SlotTimes(h) \cup {End(h)}
    BY DEF StateTimes, End
  <2>. QED  BY <1>6, <1>8, <2>1, <2>2, <2>3, <2>4
<1>10. \A j \in Nat : /\ h.from <= j * SlotTime <=> k <= j
                      /\ j * SlotTime <= End(h) <=> j <= k + h.slots
                      /\ j * SlotTime + SlotTime <= End(h) <=> j < k + h.slots
  <2>1. PICK m \in Nat : m = k + h.slots /\ End(h) = m * SlotTime
    BY <1>6
  <2>2. k \in Nat
    BY <1>1, DayHasSlots
  <2>3. ASSUME NEW p \in Nat, NEW q \in Nat
        PROVE  /\ p * SlotTime \in Nat
               /\ p * SlotTime <= q * SlotTime <=> p <= q
               /\ p * SlotTime + SlotTime <= q * SlotTime <=> p < q
    BY Multiples, DayAssumption
  <2>4. \A j \in Nat : /\ k * SlotTime <= j * SlotTime <=> k <= j
                       /\ j * SlotTime <= m * SlotTime <=> j <= m
                       /\ j * SlotTime + SlotTime <= m * SlotTime <=> j < m
    BY <2>2, <2>3
  <2>. QED  BY <1>1, <2>1, <2>4
<1>11. StateTimes(h) = {u \in Nat : OnSlot(u) /\ h.from <= u /\ u <= End(h)}
  <2>1. ASSUME NEW u \in StateTimes(h)
        PROVE  u \in Nat /\ OnSlot(u) /\ h.from <= u /\ u <= End(h)
    <3>1. PICK i \in k..(k + h.slots) : u = i * SlotTime
      BY <1>9
    <3>2. i \in Nat /\ k <= i /\ i <= k + h.slots
      BY <1>1, <1>2, DayHasSlots
    <3>3. u \in Nat
      BY <3>1, <3>2, DayAssumption
    <3>. QED  BY <1>10, <3>1, <3>2, <3>3 DEF OnSlot
  <2>2. ASSUME NEW u \in Nat, OnSlot(u), h.from <= u, u <= End(h)
        PROVE  u \in StateTimes(h)
    <3>1. PICK i \in Nat : u = i * SlotTime
      BY <2>2 DEF OnSlot
    <3>2. i \in k..(k + h.slots)
      BY <1>1, <1>2, <1>10, <2>2, <3>1, DayHasSlots
    <3>. QED  BY <1>9, <3>1, <3>2
  <2>. QED  BY <2>1, <2>2
<1>12. SlotTimes(h) = {u \in StateTimes(h) : u + SlotTime <= End(h)}
  <2>1. ASSUME NEW u \in SlotTimes(h)
        PROVE  u \in StateTimes(h) /\ u + SlotTime <= End(h)
    <3>1. PICK i \in k..(k + h.slots - 1) : u = i * SlotTime
      BY <1>8
    <3>2. i \in Nat /\ i < k + h.slots
      BY <1>1, <1>2, DayHasSlots
    <3>. QED  BY <1>10, <3>1, <3>2 DEF StateTimes
  <2>2. ASSUME NEW u \in StateTimes(h), u + SlotTime <= End(h)
        PROVE  u \in SlotTimes(h)
    <3>1. PICK i \in k..(k + h.slots) : u = i * SlotTime
      BY <1>9
    <3>2. i \in k..(k + h.slots - 1)
      BY <1>1, <1>2, <1>10, <2>2, <3>1, DayHasSlots
    <3>. QED  BY <1>8, <3>1, <3>2
  <2>. QED  BY <2>1, <2>2
<1>13. ASSUME NEW u \in SlotTimes(h) PROVE u + SlotTime \in StateTimes(h)
  <2>1. PICK i \in k..(k + h.slots - 1) : u = i * SlotTime
    BY <1>8
  <2>2. u + SlotTime = (i + 1) * SlotTime /\ i + 1 \in k..(k + h.slots)
    BY <1>1, <1>2, <2>1, DayHasSlots, DayAssumption
  <2>. QED  BY <1>9, <2>2
<1>. QED  BY <1>3, <1>4, <1>5, <1>7, <1>11, <1>12, <1>13

-----------------------------------------------------------------------------
(* The first state at or after a time of the day, if the horizon has one that  *)
(* day: on the grid, or where the horizon begins.                             *)
LEMMA FirstIs ==
  ASSUME NEW h \in Spans, NEW day \in Nat, NEW x \in 0..(Day - 1),
         NEW p, p = Larger(OnGrid(day, x), h.from)
  PROVE  /\ p \in Nat
         /\ \A t : t \in First(h, day, x) <=> t = p /\ p <= End(h) /\ DayOf(p) = day
<1>. DEFINE Fits(u) == DayOf(u) = day /\ Clock(u) >= x
<1>1. /\ h.from \in Nat /\ End(h) \in Nat /\ OnSlot(h.from)
      /\ StateTimes(h) = {u \in Nat : OnSlot(u) /\ h.from <= u /\ u <= End(h)}
      /\ OnGrid(day, x) \in Nat /\ OnSlot(OnGrid(day, x))
  <2>1. PICK k \in 0..(Day \div SlotTime - 1) : h.from = k * SlotTime
    BY DEF Spans
  <2>2. OnSlot(h.from)
    BY <2>1, DayHasSlots DEF OnSlot
  <2>. QED  BY <2>2, Horizon, NextSlot
<1>2. p \in Nat /\ OnSlot(p) /\ OnGrid(day, x) <= p /\ h.from <= p
  BY <1>1 DEF Larger
<1>3. ASSUME NEW u \in Nat, OnSlot(u)
      PROVE  Fits(u) <=> OnGrid(day, x) <= u /\ DayOf(u) = day
  <2>1. u = DayOf(u) * Day + Clock(u) /\ Clock(u) \in Int /\ DayOf(u) \in Int
    BY DayAndClock, DayAssumption
  <2>2. day * Day + x <= u <=> OnGrid(day, x) <= u
    BY <1>3, NextSlot
  <2>3. day * Day \in Int /\ x \in Int
    BY DayAssumption
  <2>. QED  BY <2>1, <2>2, <2>3
<1>4. ASSUME NEW u \in Nat, DayOf(u) = day, p <= u
      PROVE  DayOf(p) = day
  <2>1. day * Day <= p
    BY <1>1, <1>2, NextSlot, DayAssumption
  <2>2. u < (day + 1) * Day /\ (day + 1) * Day \in Int /\ day * Day \in Int
    BY <1>4, DayAndClock, DayAssumption
  <2>3. p < (day + 1) * Day
    BY <1>2, <1>4, <2>2
  <2>. QED  BY <1>2, <2>1, <2>3, DayAndClock
<1>5. \A u \in StateTimes(h) : Fits(u) => p <= u /\ DayOf(p) = day
  <2>. SUFFICES ASSUME NEW u \in StateTimes(h), Fits(u)
                PROVE  p <= u /\ DayOf(p) = day
    OBVIOUS
  <2>1. u \in Nat /\ OnSlot(u) /\ h.from <= u
    BY <1>1
  <2>2. OnGrid(day, x) <= u
    BY <1>3, <2>1
  <2>3. p <= u
    BY <2>1, <2>2 DEF Larger
  <2>. QED  BY <1>4, <2>1, <2>3
<1>6. ASSUME p <= End(h), DayOf(p) = day
      PROVE  p \in StateTimes(h) /\ Fits(p)
  BY <1>1, <1>2, <1>3, <1>6
<1>7. \A t : t \in First(h, day, x) <=>
         /\ t \in StateTimes(h) /\ Fits(t)
         /\ \A u \in StateTimes(h) : Fits(u) => t <= u
  BY DEF First
<1>8. ASSUME NEW t \in First(h, day, x)
      PROVE  t = p /\ p <= End(h) /\ DayOf(p) = day
  <2>1. t \in Nat /\ t <= End(h) /\ p <= t /\ DayOf(p) = day
    BY <1>1, <1>5, <1>7
  <2>2. t <= p
    BY <1>1, <1>2, <1>6, <1>7, <2>1
  <2>. QED  BY <1>1, <1>2, <2>1, <2>2
<1>9. ASSUME p <= End(h), DayOf(p) = day
      PROVE  p \in First(h, day, x)
  BY <1>5, <1>6, <1>7, <1>9
<1>. QED  BY <1>2, <1>8, <1>9

(* The days of which the horizon shows the window's end and the deadline.       *)
Shown(h, c) ==
  {day \in 0..DayOf(h.from + h.slots * SlotTime) :
     /\ OnGrid(day, c.start) < OnGrid(day, c.end)
     /\ OnGrid(day, c.end) < OnGrid(day, c.deadline)
     /\ h.from < OnGrid(day, c.end)
     /\ OnGrid(day, c.deadline) <= h.from + h.slots * SlotTime
     /\ DayOf(OnGrid(day, c.deadline)) = day}

During(t, day, from, to) == t >= OnGrid(day, from) /\ t < OnGrid(day, to)

(* The mornings of the code are those that the horizon shows as a whole.        *)
LEMMA MorningsAreShown ==
  ASSUME NEW h \in Spans, NEW c \in Configs
  PROVE  \A m : m \in Mornings(h, c) <=>
           \E day \in Shown(h, c) :
             m = [start |-> Larger(OnGrid(day, c.start), h.from),
                  end |-> OnGrid(day, c.end), deadline |-> OnGrid(day, c.deadline)]
<1>. DEFINE Triple(day) == First(h, day, c.start) \X First(h, day, c.end)
                              \X First(h, day, c.deadline)
            Days == {DayOf(t) : t \in StateTimes(h)}
            Morning(x) == [start |-> x[1], end |-> x[2], deadline |-> x[3]]
            G(day, x) == Larger(OnGrid(day, x), h.from)
<1>1. /\ c.start \in 0..(Day - 1) /\ c.end \in 0..(Day - 1)
      /\ c.deadline \in 0..(Day - 1)
  BY DEF Configs
<1>2. \A m : m \in Mornings(h, c) <=>
         \E day \in Days : \E x \in Triple(day) :
            x[1] < x[2] /\ x[2] < x[3] /\ m = Morning(x)
  BY DEF Mornings
<1>3. h.from \in Nat /\ h.from < Day /\ DayOf(h.from) = 0 /\ End(h) \in Nat
      /\ StateTimes(h) = {u \in Nat : OnSlot(u) /\ h.from <= u /\ u <= End(h)}
  BY Horizon
<1>4. Days \subseteq Nat
  BY <1>3, DayAndClock
<1>5. \A day \in Nat, x \in 0..(Day - 1) :
         OnGrid(day, x) \in Nat /\ OnSlot(OnGrid(day, x)) /\ day * Day <= OnGrid(day, x)
  <2>1. \A day \in Nat, x \in 0..(Day - 1) : day * Day + x <= OnGrid(day, x)
                                            /\ day * Day \in Nat
    BY NextSlot, DayAssumption
  <2>. QED  BY <2>1, NextSlot
<1>6. \A m : m \in Mornings(h, c) <=>
         \E day \in Days :
            /\ G(day, c.start) < G(day, c.end) /\ G(day, c.end) < G(day, c.deadline)
            /\ \A x \in {c.start, c.end, c.deadline} :
                  G(day, x) <= End(h) /\ DayOf(G(day, x)) = day
            /\ m = [start |-> G(day, c.start), end |-> G(day, c.end),
                    deadline |-> G(day, c.deadline)]
  <2>1. \A day \in Nat, x \in 0..(Day - 1) : \A t :
           t \in First(h, day, x) <=> /\ t = G(day, x) /\ G(day, x) <= End(h)
                                     /\ DayOf(G(day, x)) = day
    BY FirstIs
  <2>2. ASSUME NEW day \in Days
        PROVE  \A m : (\E x \in Triple(day) : x[1] < x[2] /\ x[2] < x[3] /\ m = Morning(x))
                 <=> (\E s \in First(h, day, c.start), e \in First(h, day, c.end),
                         d \in First(h, day, c.deadline) :
                         s < e /\ e < d /\ m = [start |-> s, end |-> e, deadline |-> d])
    <3>1. ASSUME NEW x \in Triple(day)
          PROVE  /\ x[1] \in First(h, day, c.start) /\ x[2] \in First(h, day, c.end)
                 /\ x[3] \in First(h, day, c.deadline)
      OBVIOUS
    <3>2. ASSUME NEW s \in First(h, day, c.start), NEW e \in First(h, day, c.end),
                 NEW d \in First(h, day, c.deadline)
          PROVE  /\ <<s, e, d>> \in Triple(day)
                 /\ Morning(<<s, e, d>>) = [start |-> s, end |-> e, deadline |-> d]
                 /\ <<s, e, d>>[1] = s /\ <<s, e, d>>[2] = e /\ <<s, e, d>>[3] = d
      OBVIOUS
    <3>3. ASSUME NEW m, NEW x \in Triple(day), x[1] < x[2], x[2] < x[3], m = Morning(x)
          PROVE  \E s \in First(h, day, c.start), e \in First(h, day, c.end),
                    d \in First(h, day, c.deadline) :
                    s < e /\ e < d /\ m = [start |-> s, end |-> e, deadline |-> d]
      BY <3>1, <3>3
    <3>4. ASSUME NEW m, NEW s \in First(h, day, c.start), NEW e \in First(h, day, c.end),
                 NEW d \in First(h, day, c.deadline), s < e, e < d,
                 m = [start |-> s, end |-> e, deadline |-> d]
          PROVE  \E x \in Triple(day) : x[1] < x[2] /\ x[2] < x[3] /\ m = Morning(x)
      <4>. DEFINE x == <<s, e, d>>
      <4>1. x \in Triple(day) /\ x[1] = s /\ x[2] = e /\ x[3] = d /\ m = Morning(x)
        BY <3>2, <3>4
      <4>. HIDE DEF Triple, Morning, x
      <4>. QED  BY <3>4, <4>1
    <3>. HIDE DEF Triple, Morning
    <3>. QED  BY <3>3, <3>4
  <2>3. ASSUME NEW day \in Days
        PROVE  \A m : (\E s \in First(h, day, c.start), e \in First(h, day, c.end),
                         d \in First(h, day, c.deadline) :
                         s < e /\ e < d /\ m = [start |-> s, end |-> e, deadline |-> d])
               <=> (/\ G(day, c.start) < G(day, c.end) /\ G(day, c.end) < G(day, c.deadline)
                    /\ \A x \in {c.start, c.end, c.deadline} :
                         G(day, x) <= End(h) /\ DayOf(G(day, x)) = day
                    /\ m = [start |-> G(day, c.start), end |-> G(day, c.end),
                            deadline |-> G(day, c.deadline)])
    <3>. HIDE DEF G, Days
    <3>. QED  BY <1>1, <1>4, <2>1
  <2>. HIDE DEF G, Days, Triple, Morning
  <2>. QED  BY <1>2, <2>2, <2>3
<1>7. ASSUME NEW day \in Days,
             G(day, c.start) < G(day, c.end), G(day, c.end) < G(day, c.deadline),
             G(day, c.deadline) <= End(h), DayOf(G(day, c.deadline)) = day
      PROVE  /\ day \in Shown(h, c)
             /\ G(day, c.end) = OnGrid(day, c.end)
             /\ G(day, c.deadline) = OnGrid(day, c.deadline)
  <2>1. /\ G(day, c.end) = OnGrid(day, c.end)
        /\ G(day, c.deadline) = OnGrid(day, c.deadline)
        /\ OnGrid(day, c.start) < OnGrid(day, c.end)
        /\ OnGrid(day, c.end) < OnGrid(day, c.deadline) /\ h.from < OnGrid(day, c.end)
    <3>1. /\ OnGrid(day, c.start) \in Nat /\ OnGrid(day, c.end) \in Nat
          /\ OnGrid(day, c.deadline) \in Nat
      <4>. HIDE DEF G, Days
      <4>. QED  BY <1>1, <1>4, <1>5
    <3>. QED  BY <1>3, <1>7, <3>1 DEF Larger
  <2>2. day \in 0..DayOf(h.from + h.slots * SlotTime)
    <3>1. DayOf(End(h)) \in Nat /\ End(h) < (DayOf(End(h)) + 1) * Day
      BY <1>3, DayAndClock
    <3>2. day * Day <= End(h) /\ day \in Nat
      BY <1>1, <1>3, <1>4, <1>5, <1>7, <2>1, DayAssumption
    <3>3. ~(DayOf(End(h)) + 1 <= day)
      <4>1. SUFFICES ASSUME DayOf(End(h)) + 1 <= day PROVE FALSE
        OBVIOUS
      <4>2. (DayOf(End(h)) + 1) * Day <= day * Day
        BY <3>1, <3>2, <4>1, DayAssumption
      <4>. QED  BY <1>3, <3>1, <3>2, <4>2, DayAssumption
    <3>. QED  BY <3>1, <3>2, <3>3 DEF End
  <2>. QED  BY <1>7, <2>1, <2>2 DEF Shown, End
<1>8. ASSUME NEW day \in Shown(h, c)
      PROVE  /\ day \in Days
             /\ G(day, c.start) < G(day, c.end) /\ G(day, c.end) < G(day, c.deadline)
             /\ \A x \in {c.start, c.end, c.deadline} :
                  G(day, x) <= End(h) /\ DayOf(G(day, x)) = day
             /\ G(day, c.end) = OnGrid(day, c.end)
             /\ G(day, c.deadline) = OnGrid(day, c.deadline)
  <2>1. /\ day \in Nat
        /\ OnGrid(day, c.start) < OnGrid(day, c.end)
        /\ OnGrid(day, c.end) < OnGrid(day, c.deadline)
        /\ h.from < OnGrid(day, c.end) /\ OnGrid(day, c.deadline) <= End(h)
        /\ DayOf(OnGrid(day, c.deadline)) = day
    <3>1. DayOf(End(h)) \in Nat
      BY <1>3, DayAndClock
    <3>. QED  BY <3>1 DEF Shown, End
  <2>2. /\ OnGrid(day, c.start) \in Nat /\ OnGrid(day, c.end) \in Nat
        /\ OnGrid(day, c.deadline) \in Nat /\ day * Day \in Nat
        /\ day * Day <= OnGrid(day, c.start)
        /\ OnGrid(day, c.deadline) < (day + 1) * Day /\ (day + 1) * Day \in Nat
    <3>1. /\ OnGrid(day, c.start) \in Nat /\ OnGrid(day, c.end) \in Nat
          /\ OnGrid(day, c.deadline) \in Nat /\ day * Day <= OnGrid(day, c.start)
      BY <1>1, <1>5, <2>1
    <3>2. day * Day \in Nat /\ (day + 1) * Day \in Nat
      BY <2>1, DayAssumption
    <3>3. OnGrid(day, c.deadline) < (day + 1) * Day
      BY <2>1, <3>1, DayAndClock
    <3>. QED  BY <3>1, <3>2, <3>3
  <2>3. OnGrid(day, c.deadline) \in StateTimes(h)
    BY <1>1, <1>3, <1>5, <2>1, <2>2
  <2>4. \A x \in {c.start, c.end, c.deadline} :
           /\ G(day, x) \in Nat /\ day * Day <= G(day, x)
           /\ G(day, x) <= OnGrid(day, c.deadline)
    BY <1>3, <2>1, <2>2 DEF Larger
  <2>5. \A x \in {c.start, c.end, c.deadline} :
           G(day, x) <= End(h) /\ DayOf(G(day, x)) = day
    <3>. SUFFICES ASSUME NEW x \in {c.start, c.end, c.deadline}
                  PROVE  G(day, x) <= End(h) /\ DayOf(G(day, x)) = day
      OBVIOUS
    <3>1. /\ G(day, x) \in Nat /\ day * Day <= G(day, x)
          /\ G(day, x) <= OnGrid(day, c.deadline)
      BY <2>4
    <3>. HIDE DEF G
    <3>2. G(day, x) <= End(h) /\ G(day, x) < (day + 1) * Day
      BY <1>3, <2>1, <2>2, <3>1
    <3>. QED  BY <2>1, <3>1, <3>2, DayAndClock
  <2>. QED  BY <1>3, <2>1, <2>2, <2>3, <2>5 DEF Larger
<1>. HIDE DEF Days
<1>9. ASSUME NEW m \in Mornings(h, c)
      PROVE  \E day \in Shown(h, c) :
                m = [start |-> G(day, c.start), end |-> OnGrid(day, c.end),
                     deadline |-> OnGrid(day, c.deadline)]
  <2>. HIDE DEF G
  <2>. QED  BY <1>6, <1>7
<1>10. ASSUME NEW day \in Shown(h, c), NEW m,
              m = [start |-> G(day, c.start), end |-> OnGrid(day, c.end),
                   deadline |-> OnGrid(day, c.deadline)]
       PROVE  m \in Mornings(h, c)
  <2>. HIDE DEF G
  <2>. QED  BY <1>6, <1>8, <1>10
<1>. QED  BY <1>9, <1>10

-----------------------------------------------------------------------------
LEMMA ClockBack ==
  ASSUME NEW t \in Nat, NEW k \in 0..(Day - 1)
  PROVE  Clock(t - k) = IF k <= Clock(t) THEN Clock(t) - k ELSE Clock(t) - k + Day
<1>1. \A D \in Nat \ {0} : \A q \in Int, r \in 0..(D - 1) : (D * q + r) % D = r
  OBVIOUS
<1>. DEFINE q == DayOf(t)
            x == Clock(t)
<1>2. q \in Int /\ x \in 0..(Day - 1) /\ t = Day * q + x
  BY DayAndClock, DayAssumption
<1>3. CASE k <= x
  <2>1. t - k = Day * q + (x - k) /\ x - k \in 0..(Day - 1)
    BY <1>2, <1>3, DayAssumption
  <2>. HIDE DEF q, x
  <2>2. Clock(t - k) = x - k
    BY <1>1, <1>2, <2>1, DayAssumption DEF Clock
  <2>. QED  BY <1>3, <2>2 DEF x
<1>4. CASE ~(k <= x)
  <2>1. t - k = Day * (q - 1) + (x - k + Day) /\ x - k + Day \in 0..(Day - 1)
    <3>1. \A D \in Nat, p \in Int : D * (p - 1) = D * p - D
      OBVIOUS
    <3>2. Day * (q - 1) = Day * q - Day
      BY <1>2, <3>1, DayAssumption
    <3>3. Day * q \in Int
      BY <1>2, DayAssumption
    <3>. HIDE DEF q, x
    <3>. QED  BY <1>2, <1>4, <3>2, <3>3, DayAssumption
  <2>. HIDE DEF q, x
  <2>2. Clock(t - k) = x - k + Day
    BY <1>1, <1>2, <2>1, DayAssumption DEF Clock
  <2>. QED  BY <1>4, <2>2 DEF x
<1>. QED  BY <1>3, <1>4

(* The night of the code lasts from the evening until the morning's start.      *)
LEMMA NightIsSinceEvening ==
  ASSUME NEW t \in Nat, NEW c \in Configs
  PROVE  Night(t, c) <=> SinceEvening(t, c)
<1>. DEFINE x == Clock(t)
            At(k) == IF k <= x THEN x - k ELSE x - k + Day
<1>1. /\ c.start \in 0..(Day - 1) /\ c.evening \in -1..(Day - 1)
      /\ c.evening # c.start /\ Day \in Nat
  BY DayAssumption DEF Configs
<1>2. x \in 0..(Day - 1)
  BY DayAndClock
<1>3. \A k \in 0..(Day - 1) : Clock(t - k) = At(k)
  BY ClockBack
<1>4. SinceEvening(t, c) <=>
        \E n \in 0..(Day - 1) : At(n) = c.evening /\ \A k \in 0..n : At(k) # c.start
  <2>1. \A n \in 0..(Day - 1) : 0..n \subseteq 0..(Day - 1)
    BY <1>1
  <2>. HIDE DEF At, x
  <2>. QED  BY <1>3, <2>1 DEF SinceEvening
<1>5. ASSUME NEW n \in 0..(Day - 1), At(n) = c.evening,
             \A k \in 0..n : At(k) # c.start
      PROVE  Night(t, c)
  <2>1. CASE n <= x
    <3>1. c.evening = x - n
      BY <1>5, <2>1
    <3>2. ~(c.evening < c.start /\ c.start <= x)
      <4>. SUFFICES ASSUME c.evening < c.start, c.start <= x PROVE FALSE
        OBVIOUS
      <4>1. x - c.start \in 0..n /\ At(x - c.start) = c.start
        BY <1>1, <1>2, <3>1
      <4>. QED  BY <1>5, <4>1
    <3>. QED  BY <1>1, <1>2, <2>1, <3>1, <3>2 DEF Night
  <2>2. CASE ~(n <= x)
    <3>1. c.evening = x - n + Day
      BY <1>5, <2>2
    <3>2. ~(c.start <= x)
      <4>. SUFFICES ASSUME c.start <= x PROVE FALSE
        OBVIOUS
      <4>1. x - c.start \in 0..n /\ At(x - c.start) = c.start
        BY <1>1, <1>2, <2>2
      <4>. QED  BY <1>5, <4>1
    <3>3. ~(c.evening < c.start)
      <4>. SUFFICES ASSUME c.evening < c.start PROVE FALSE
        OBVIOUS
      <4>1. x - c.start + Day \in 0..n /\ At(x - c.start + Day) = c.start
        BY <1>1, <1>2, <2>2, <3>1, <3>2
      <4>. QED  BY <1>5, <4>1
    <3>. QED  BY <1>1, <1>2, <3>1, <3>2, <3>3 DEF Night
  <2>. QED  BY <2>1, <2>2
<1>6. ASSUME Night(t, c)
      PROVE  \E n \in 0..(Day - 1) :
                At(n) = c.evening /\ \A k \in 0..n : At(k) # c.start
  <2>1. CASE c.evening <= x
    <3>1. x - c.evening \in 0..(Day - 1) /\ At(x - c.evening) = c.evening
      BY <1>1, <1>2, <1>6, <2>1 DEF Night
    <3>2. \A k \in 0..(x - c.evening) : At(k) # c.start
      BY <1>1, <1>2, <1>6, <2>1 DEF Night
    <3>. QED  BY <3>1, <3>2
  <2>2. CASE x < c.evening
    <3>1. x < c.start /\ c.start < c.evening
      BY <1>1, <1>2, <1>6, <2>2 DEF Night
    <3>2. /\ x - c.evening + Day \in 0..(Day - 1)
          /\ At(x - c.evening + Day) = c.evening
      BY <1>1, <1>2, <2>2
    <3>3. \A k \in 0..(x - c.evening + Day) : At(k) # c.start
      BY <1>1, <1>2, <3>1
    <3>. QED  BY <3>2, <3>3
  <2>. QED  BY <1>1, <1>2, <2>1, <2>2
<1>. QED  BY <1>4, <1>5, <1>6

-----------------------------------------------------------------------------
(* A slot's day is shown unless its morning is cut.                           *)
LEMMA ShownUnlessCut ==
  ASSUME NEW h \in Spans, NEW c \in Configs, NEW t \in SlotTimes(h),
         ~Cut(h, c, DayOf(t))
  PROVE  DayOf(t) \in Shown(h, c)
<1>. DEFINE day == DayOf(t)
<1>1. /\ c.start \in 0..(Day - 1) /\ c.end \in 0..(Day - 1)
      /\ c.deadline \in 0..(Day - 1) /\ c.start < c.end /\ c.end < c.deadline
  BY DEF Configs
<1>2. t \in Nat /\ t <= End(h) /\ h.from \in Nat /\ End(h) \in Nat
  BY Horizon
<1>3. day \in Nat /\ day * Day \in Nat /\ day * Day <= t
  <2>1. DayOf(t) \in Nat /\ Clock(t) \in Nat /\ t = DayOf(t) * Day + Clock(t)
    BY <1>2, DayAndClock
  <2>2. DayOf(t) * Day \in Nat
    BY <2>1, DayAssumption
  <2>. QED  BY <1>2, <2>1, <2>2
<1>. HIDE DEF day
<1>4. \A x \in 0..(Day - 1) :
        /\ OnGrid(day, x) \in Nat
        /\ \A y \in 0..(Day - 1) : x <= y => OnGrid(day, x) <= OnGrid(day, y)
  <2>1. ASSUME NEW x \in 0..(Day - 1), NEW y \in 0..(Day - 1), x <= y
        PROVE  OnGrid(day, x) <= OnGrid(day, y)
    <3>1. /\ OnGrid(day, y) \in Nat /\ OnSlot(OnGrid(day, y))
          /\ day * Day + y <= OnGrid(day, y)
      BY <1>3, NextSlot
    <3>2. day * Day + x <= OnGrid(day, y)
      BY <1>3, <2>1, <3>1, DayAssumption
    <3>. QED  BY <1>3, <3>1, <3>2, NextSlot
  <2>2. \A x \in 0..(Day - 1) : OnGrid(day, x) \in Nat
    BY <1>3, NextSlot
  <2>. QED  BY <2>1, <2>2
<1>5. day \in 0..DayOf(End(h))
  <2>1. DayOf(End(h)) \in Nat /\ End(h) < (DayOf(End(h)) + 1) * Day
    BY <1>2, DayAndClock
  <2>2. ~(DayOf(End(h)) + 1 <= day)
    <3>1. SUFFICES ASSUME DayOf(End(h)) + 1 <= day PROVE FALSE
      OBVIOUS
    <3>2. (DayOf(End(h)) + 1) * Day <= day * Day
      BY <1>3, <2>1, <3>1, DayAssumption
    <3>. QED  BY <1>2, <1>3, <2>1, <3>2, DayAssumption
  <2>. QED  BY <1>3, <2>1, <2>2
<1>6. /\ h.from < OnGrid(day, c.end) /\ OnGrid(day, c.deadline) <= End(h)
      /\ OnGrid(day, c.start) < OnGrid(day, c.end)
      /\ OnGrid(day, c.end) < OnGrid(day, c.deadline)
      /\ DayOf(OnGrid(day, c.deadline)) = day
  <2>1. ~Cut(h, c, day)
    BY DEF day
  <2>2. /\ OnGrid(day, c.start) <= OnGrid(day, c.end)
        /\ OnGrid(day, c.end) <= OnGrid(day, c.deadline)
        /\ OnGrid(day, c.start) \in Nat /\ OnGrid(day, c.end) \in Nat
        /\ OnGrid(day, c.deadline) \in Nat
    BY <1>1, <1>4
  <2>. QED  BY <1>2, <2>1, <2>2 DEF Cut, End
<1>7. day \in Shown(h, c)
  BY <1>5, <1>6 DEF Shown, End
<1>. QED  BY <1>7 DEF day

(* Within a day, the slots at or after a time are those the clock shows so.     *)
LEMMA ClockOnGrid ==
  ASSUME NEW t \in Nat, OnSlot(t), NEW x \in 0..(Day - 1)
  PROVE  OnGrid(DayOf(t), x) <= t <=> x <= Clock(t)
<1>1. /\ DayOf(t) \in Nat /\ Clock(t) \in 0..(Day - 1)
      /\ t = DayOf(t) * Day + Clock(t) /\ DayOf(t) * Day \in Nat
  BY DayAndClock, DayAssumption
<1>2. DayOf(t) * Day + x <= t <=> OnGrid(DayOf(t), x) <= t
  BY <1>1, NextSlot
<1>. QED  BY <1>1, <1>2, DayAssumption

(* What is during the morning of a day shown is of that day.                  *)
LEMMA DuringItsDay ==
  ASSUME NEW h \in Spans, NEW c \in Configs, NEW day \in Shown(h, c),
         NEW t \in Nat, NEW x \in 0..(Day - 1), During(t, day, x, c.deadline)
  PROVE  DayOf(t) = day
<1>1. End(h) \in Nat /\ DayOf(End(h)) \in Nat /\ c.deadline \in 0..(Day - 1)
  BY Horizon, DayAndClock DEF Configs
<1>2. day \in Nat /\ DayOf(OnGrid(day, c.deadline)) = day
  BY <1>1 DEF Shown, End
<1>3. /\ OnGrid(day, x) \in Nat /\ OnGrid(day, c.deadline) \in Nat
      /\ day * Day + x <= OnGrid(day, x)
  BY <1>1, <1>2, NextSlot
<1>6. day * Day \in Nat /\ (day + 1) * Day \in Nat
  BY <1>2, DayAssumption
<1>4. OnGrid(day, c.deadline) < (day + 1) * Day
  BY <1>2, <1>3, DayAndClock
<1>5. day * Day <= t /\ t < (day + 1) * Day
  BY <1>3, <1>4, <1>6 DEF During
<1>. QED  BY <1>2, <1>5, DayAndClock

-----------------------------------------------------------------------------
(* One horizon, one configuration: what is blocked is the night and what the mornings*)
(* show, and what is not keeps the floor and the recovery.                  *)
LEMMA PolicyKeeps ==
  ASSUME NEW h \in Spans, NEW c \in Configs, NEW trading \in BOOLEAN
  PROVE  Kept(h, c, trading)
<1>. DEFINE s(day) == OnGrid(day, c.start)
            e(day) == OnGrid(day, c.end)
            d(day) == OnGrid(day, c.deadline)
            M(day) == [start |-> Larger(s(day), h.from), end |-> e(day), deadline |-> d(day)]
<1>1. \A t \in SlotTimes(h) :
        /\ t \in Nat /\ h.from <= t /\ t \in StateTimes(h) /\ OnSlot(t)
        /\ t + SlotTime \in StateTimes(h)
        /\ Night(t, c) <=> SinceEvening(t, c)
  BY Horizon, NightIsSinceEvening
<1>2. \A day \in Shown(h, c) :
        /\ day \in Nat /\ s(day) \in Nat /\ e(day) \in Nat /\ d(day) \in Nat
        /\ OnSlot(e(day)) /\ OnSlot(d(day)) /\ h.from < e(day) /\ e(day) < d(day)
        /\ d(day) <= End(h)
  <2>1. DayOf(End(h)) \in Nat
    BY Horizon, DayAndClock
  <2>2. \A day \in Shown(h, c) :
           day \in Nat /\ h.from < e(day) /\ e(day) < d(day) /\ d(day) <= End(h)
    BY <2>1 DEF Shown, End
  <2>3. c.start \in 0..(Day - 1) /\ c.end \in 0..(Day - 1) /\ c.deadline \in 0..(Day - 1)
    BY DEF Configs
  <2>. QED  BY <2>2, <2>3, NextSlot
<1>3. \A m : m \in Mornings(h, c) <=> \E day \in Shown(h, c) : m = M(day)
  BY MorningsAreShown
<1>4. h.from \in Nat
  BY Horizon
<1>5. \A t \in SlotTimes(h) :
        t \in Blocked(h, c, trading) <=>
           \/ SinceEvening(t, c)
           \/ \E day \in Shown(h, c) :
                During(t, day, IF trading THEN c.end ELSE c.start, c.deadline)
  <2>1. ASSUME NEW t \in SlotTimes(h), NEW day \in Shown(h, c)
        PROVE  t < M(day).deadline /\ t >= (IF trading THEN M(day).end ELSE M(day).start)
               <=> During(t, day, IF trading THEN c.end ELSE c.start, c.deadline)
    BY <1>1, <1>2, <1>4 DEF During, Larger
  <2>2. ASSUME NEW t \in SlotTimes(h)
        PROVE  t \in Blocked(h, c, trading) <=>
                 \/ SinceEvening(t, c)
                 \/ \E m \in Mornings(h, c) :
                      t < m.deadline /\ t >= IF trading THEN m.end ELSE m.start
    BY <1>1 DEF Blocked
  <2>. HIDE DEF M
  <2>. QED  BY <1>3, <2>1, <2>2
<1>6. ASSUME NEW t \in SlotTimes(h), t \notin Blocked(h, c, trading),
             NEW day \in Shown(h, c), During(t, day, c.start, c.deadline)
      PROVE  /\ trading /\ t < e(day)
             /\ {t, t + SlotTime} \subseteq Floored(h, c, trading)
             /\ d(day) \in Recoveries(h, c, trading) \cap StateTimes(h)
  <2>1. trading /\ t < e(day)
    BY <1>1, <1>2, <1>5, <1>6 DEF During
  <2>2. M(day) \in Mornings(h, c)
    BY <1>3
  <2>3. t + SlotTime <= e(day)
    <3>1. PICK i \in Nat : t = i * SlotTime
      BY <1>1 DEF OnSlot
    <3>2. PICK j \in Nat : e(day) = j * SlotTime
      BY <1>2 DEF OnSlot
    <3>. QED  BY <2>1, <3>1, <3>2, Multiples, DayAssumption
  <2>4. \A u \in {t, t + SlotTime} : u \in M(day).start..M(day).end
    <3>1. s(day) <= t
      BY <1>6 DEF During
    <3>. QED  BY <1>1, <1>2, <1>4, <2>1, <2>3, <3>1, DayAssumption DEF Larger
  <2>5. {t, t + SlotTime} \subseteq Floored(h, c, trading)
    <3>. HIDE DEF M
    <3>. QED  BY <1>1, <2>1, <2>2, <2>4 DEF Floored
  <2>6. d(day) \in Recoveries(h, c, trading)
    <3>1. M(day).deadline = d(day)
      OBVIOUS
    <3>. HIDE DEF M
    <3>. QED  BY <2>1, <2>2, <3>1 DEF Recoveries
  <2>7. d(day) \in StateTimes(h)
    BY <1>2, <1>4, Horizon
  <2>. QED  BY <2>1, <2>5, <2>6, <2>7
<1>7. /\ c.start \in 0..(Day - 1) /\ c.end \in 0..(Day - 1)
      /\ c.deadline \in 0..(Day - 1) /\ c.start < c.end /\ c.end < c.deadline
  BY DEF Configs
<1>. HIDE DEF M
<1>8. ASSUME NEW t \in SlotTimes(h)
      PROVE  /\ DayOf(t) \in Nat /\ Clock(t) \in Nat
             /\ s(DayOf(t)) \in Nat /\ e(DayOf(t)) \in Nat /\ d(DayOf(t)) \in Nat
             /\ s(DayOf(t)) <= t <=> c.start <= Clock(t)
             /\ e(DayOf(t)) <= t <=> c.end <= Clock(t)
             /\ d(DayOf(t)) <= t <=> c.deadline <= Clock(t)
  <2>1. t \in Nat /\ OnSlot(t)
    BY <1>1, <1>8
  <2>2. DayOf(t) \in Nat /\ Clock(t) \in Nat
    BY <2>1, DayAndClock
  <2>3. s(DayOf(t)) \in Nat /\ e(DayOf(t)) \in Nat /\ d(DayOf(t)) \in Nat
    BY <1>7, <2>2, NextSlot
  <2>. QED  BY <1>7, <2>1, <2>2, <2>3, ClockOnGrid
<1>9. ASSUME NEW t \in SlotTimes(h), t \in Blocked(h, c, trading),
             ~SinceEvening(t, c)
      PROVE  /\ InMorning(t, c)
             /\ trading => c.end <= Clock(t)
  <2>1. PICK day \in Shown(h, c) :
           During(t, day, IF trading THEN c.end ELSE c.start, c.deadline)
    BY <1>5, <1>9
  <2>2. day = DayOf(t)
    BY <1>1, <1>7, <1>9, <2>1, DuringItsDay
  <2>3. IF trading THEN e(DayOf(t)) <= t ELSE s(DayOf(t)) <= t
    BY <2>1, <2>2 DEF During
  <2>4. t < d(DayOf(t)) /\ t \in Nat
    BY <1>1, <1>9, <2>1, <2>2 DEF During
  <2>. HIDE DEF s, e, d
  <2>. QED  BY <1>7, <1>8, <1>9, <2>3, <2>4 DEF InMorning
<1>10. ASSUME NEW t \in SlotTimes(h), t \notin Blocked(h, c, trading),
              InMorning(t, c), ~Cut(h, c, DayOf(t))
       PROVE  /\ trading /\ Clock(t) < c.end
              /\ {t, t + SlotTime} \subseteq Floored(h, c, trading)
              /\ d(DayOf(t)) \in Recoveries(h, c, trading) \cap StateTimes(h)
  <2>1. DayOf(t) \in Shown(h, c)
    BY <1>10, ShownUnlessCut
  <2>2. t \in Nat
    BY <1>1, <1>10
  <2>3. s(DayOf(t)) <= t /\ t < d(DayOf(t))
    <3>. HIDE DEF s, e, d
    <3>. QED  BY <1>7, <1>8, <1>10, <2>2 DEF InMorning
  <2>4. During(t, DayOf(t), c.start, c.deadline)
    BY <1>8, <1>10, <2>2, <2>3 DEF During
  <2>5. /\ trading /\ t < e(DayOf(t))
        /\ {t, t + SlotTime} \subseteq Floored(h, c, trading)
        /\ d(DayOf(t)) \in Recoveries(h, c, trading) \cap StateTimes(h)
    BY <1>6, <1>10, <2>1, <2>4
  <2>6. Clock(t) < c.end
    <3>. HIDE DEF s, e, d
    <3>. QED  BY <1>7, <1>8, <1>10, <2>2, <2>5
  <2>. QED  BY <2>5, <2>6
<1>11. \A t \in SlotTimes(h) : t \notin Blocked(h, c, trading) => ~SinceEvening(t, c)
  BY <1>5
<1>. HIDE DEF s, e
<1>. SUFFICES ASSUME NEW t \in SlotTimes(h)
     PROVE  IF t \in Blocked(h, c, trading)
            THEN \/ SinceEvening(t, c)
                 \/ /\ InMorning(t, c)
                    /\ ~(/\ trading /\ InMorning(t, c) /\ ~Cut(h, c, DayOf(t))
                         /\ Clock(t) < c.end)
            ELSE /\ ~SinceEvening(t, c)
                 /\ InMorning(t, c) /\ ~Cut(h, c, DayOf(t)) =>
                      /\ trading /\ Clock(t) < c.end
                      /\ {t, t + SlotTime} \subseteq Floored(h, c, trading)
                      /\ d(DayOf(t)) \in Recoveries(h, c, trading) \cap StateTimes(h)
  BY DEF Kept
<1>12. trading /\ c.end <= Clock(t) => ~(Clock(t) < c.end)
  BY <1>7, <1>8
<1>. QED  BY <1>9, <1>10, <1>11, <1>12

(* Of any horizon and configuration, resolve_soc_policy leaves no slot of the    *)
(* night open, nor of a morning that is not cut but those it trades in, with the  *)
(* floor and the recovery kept, and blocks nothing else (policy.py:33-114,        *)
(* :156-225).  Of a morning that is cut nothing is said.                       *)
THEOREM PolicyCorrect == AllKept
BY PolicyKeeps DEF AllKept

(* A plan that is shown opens the reserve of the house to export in no slot of   *)
(* the night, nor of a morning it shows from before its window's end to its       *)
(* deadline and does not trade in, and in one it trades in demands the reserve     *)
(* back, for every day and slot (policy.py:33-114).                            *)
THEOREM ReserveCorrect == Spec => []ReserveIsKept
<1>1. ReserveIsKept
  BY PolicyCorrect DEF ReserveIsKept
<1>. QED  BY <1>1, PTL

-----------------------------------------------------------------------------
(* The blocks of slots in which DEYE has to be on, from first to last.           *)
Pieces == [first : Int, last : Int]

(* Durations are numbers of slots.                                          *)
LEMMA SlotsType == \A d \in Durations : Slots(d) \in Nat
  BY DurationAssumption DEF Slots

(* A block holds its activity and lies in the plan; its end is the later of the
   shutdown and the minimum from the start that is left of the lead
   (power_state.py:225-238).                                                *)
LEMMA BlockType ==
  ASSUME NEW n \in Nat \ {0}, NEW c \in Settings, NEW i \in 0..(n - 1)
  PROVE  /\ Block(n, i, c) \in Pieces
         /\ Block(n, i, c).first \in 0..i /\ Block(n, i, c).last \in i..(n - 1)
         /\ Block(n, i, c).first = Larger(0, i - Slots(c.lead))
         /\ Block(n, i, c).last =
              Smaller(n - 1, Larger(i + Slots(c.shutdown),
                 Larger(0, i - Slots(c.lead)) + Larger(1, Slots(c.minimumOn)) - 1))
<1>1. Slots(c.lead) \in Nat /\ Slots(c.shutdown) \in Nat /\ Slots(c.minimumOn) \in Nat
  BY SlotsType DEF Settings
<1>. HIDE DEF Slots
<1>. QED  BY <1>1 DEF Block, Pieces, Larger, Smaller

(* Blocks that are joined are blocks.                                       *)
LEMMA JoinType ==
  ASSUME NEW s \in Seq(Pieces), NEW b \in Pieces, NEW gap \in Int
  PROVE  Join(s, b, gap) \in Seq(Pieces)
<1>. DEFINE k == Len(s)
<1>1. CASE k > 0 /\ b.first - s[k].last - 1 < gap
  <2>1. s[k] \in Pieces
    BY <1>1
  <2>2. [s[k] EXCEPT !.last = Larger(@, b.last)] \in Pieces
    BY <2>1 DEF Pieces, Larger
  <2>3. Join(s, b, gap) = [s EXCEPT ![k] = [s[k] EXCEPT !.last = Larger(@, b.last)]]
    BY <1>1 DEF Join
  <2>. DEFINE e == [s[k] EXCEPT !.last = Larger(@, b.last)]
  <2>. HIDE DEF e
  <2>. QED  BY <1>1, <2>2, <2>3, ExceptSeq DEF e
<1>2. CASE ~(k > 0 /\ b.first - s[k].last - 1 < gap)
  BY <1>2 DEF Join
<1>. QED  BY <1>1, <1>2

(* The loop over the slots (power_state.py:236-242), step by step.               *)
LEMMA TouchingUnfolds ==
  ASSUME NEW n \in Nat \ {0}, NEW c \in Settings, NEW active \in SUBSET (0..(n - 1))
  PROVE  \E h :
           /\ Touching(n, active, c) = h[n - 1] /\ h[-1] = <<>>
           /\ \A i \in 0..(n - 1) :
                h[i] = IF i \in active THEN Join(h[i - 1], Block(n, i, c), 1)
                       ELSE h[i - 1]
<1>. DEFINE E(g) == [i \in -1..(n - 1) |->
                       IF i = -1 THEN <<>>
                       ELSE IF i \in active THEN Join(g[i - 1], Block(n, i, c), 1)
                       ELSE g[i - 1]]
            T == CHOOSE g : g = E(g)
            F == [i \in 0..(n - 1) |-> [s \in Seq(Pieces) |->
                    IF i \in active THEN Join(s, Block(n, i, c), 1) ELSE s]]
<1>1. Touching(n, active, c) = T[n - 1]
  BY DEF Touching
<1>2. F \in [0..(n - 1) -> [Seq(Pieces) -> Seq(Pieces)]]
  <2>1. \A i \in 0..(n - 1) : Block(n, i, c) \in Pieces
    BY BlockType
  <2>2. \A i \in 0..(n - 1), s \in Seq(Pieces) : Join(s, Block(n, i, c), 1) \in Seq(Pieces)
    BY <2>1, JoinType
  <2>. QED  BY <2>2
<1>3. \E h \in [-1..(n - 1) -> Seq(Pieces)] :
         h[-1] = <<>> /\ \A i \in 0..(n - 1) : h[i] = F[i][h[i - 1]]
  <2>. DEFINE lo == -1
              hi == n - 1
  <2>1. lo \in Int /\ hi \in Int /\ lo <= hi /\ lo + 1 = 0 /\ <<>> \in Seq(Pieces)
    OBVIOUS
  <2>2. F \in [(lo + 1)..hi -> [Seq(Pieces) -> Seq(Pieces)]]
    BY <1>2, <2>1
  <2>3. \E h \in [lo..hi -> Seq(Pieces)] : Follows(h, lo, hi, <<>>, F)
    <3>. HIDE DEF F, lo, hi
    <3>. QED  BY <2>1, <2>2, Recursion
  <2>4. \E h \in [lo..hi -> Seq(Pieces)] :
          h[lo] = <<>> /\ \A i \in 0..hi : h[i] = F[i][h[i - 1]]
    <3>. HIDE DEF F, lo, hi
    <3>. QED  BY <2>1, <2>3 DEF Follows
  <2>. HIDE DEF F
  <2>. QED  BY <2>4
<1>4. PICK h \in [-1..(n - 1) -> Seq(Pieces)] :
         h[-1] = <<>> /\ \A i \in 0..(n - 1) : h[i] = F[i][h[i - 1]]
  BY <1>3
<1>5. h = E(h)
  <2>1. \A i \in 0..(n - 1) : h[i - 1] \in Seq(Pieces)
    OBVIOUS
  <2>2. \A i \in 0..(n - 1) :
          h[i] = IF i \in active THEN Join(h[i - 1], Block(n, i, c), 1) ELSE h[i - 1]
    BY <1>4, <2>1
  <2>. QED  BY <1>4, <2>2
<1>6. T = E(T)
  <2>. HIDE DEF E
  <2>. QED  BY <1>5, Zenon
<1>7. T[-1] = <<>> /\ \A i \in 0..(n - 1) :
        T[i] = IF i \in active THEN Join(T[i - 1], Block(n, i, c), 1) ELSE T[i - 1]
  <2>. HIDE DEF T
  <2>. QED  BY <1>6
<1>. QED  BY <1>1, <1>7

(* Slot x lies in a block.                                                  *)
Holds(s, x) == \E k \in 1..Len(s) : x \in s[k].first..s[k].last

(* Blocks are in order, with slots between them.                             *)
Apart(s) ==
  \A k \in 1..Len(s) :
    /\ s[k].first <= s[k].last
    /\ \A j \in 1..(k - 1) : s[j].last + 1 < s[k].first

(* When b is joined to the last block.                                       *)
JoinsLast(s, b, gap) == Len(s) > 0 /\ b.first - s[Len(s)].last - 1 < gap

(* What a join changes: the last block, or one more.                         *)
LEMMA JoinIs ==
  ASSUME NEW s \in Seq(Pieces), NEW b \in Pieces, NEW gap \in Int
  PROVE  /\ JoinsLast(s, b, gap) =>
              /\ Len(Join(s, b, gap)) = Len(s)
              /\ \A j \in 1..(Len(s) - 1) : Join(s, b, gap)[j] = s[j]
              /\ Join(s, b, gap)[Len(s)].first = s[Len(s)].first
              /\ Join(s, b, gap)[Len(s)].last = Larger(s[Len(s)].last, b.last)
         /\ ~JoinsLast(s, b, gap) =>
              /\ Len(Join(s, b, gap)) = Len(s) + 1
              /\ \A j \in 1..Len(s) : Join(s, b, gap)[j] = s[j]
              /\ Join(s, b, gap)[Len(s) + 1] = b
<1>. DEFINE k == Len(s)
<1>1. CASE JoinsLast(s, b, gap)
  <2>1. s[k] \in Pieces /\ k \in 1..Len(s)
    BY <1>1 DEF JoinsLast
  <2>. DEFINE e == [s[k] EXCEPT !.last = Larger(@, b.last)]
  <2>2. e \in Pieces /\ e.first = s[k].first /\ e.last = Larger(s[k].last, b.last)
    BY <2>1 DEF Pieces, Larger
  <2>3. Join(s, b, gap) = [s EXCEPT ![k] = e]
    BY <1>1 DEF Join, JoinsLast
  <2>. HIDE DEF e
  <2>4. /\ Len(Join(s, b, gap)) = k
        /\ \A j \in 1..k : Join(s, b, gap)[j] = IF j = k THEN e ELSE s[j]
    BY <2>1, <2>2, <2>3, ExceptSeq
  <2>5. \A j \in 1..(k - 1) : j \in 1..k /\ j # k
    OBVIOUS
  <2>. HIDE DEF k
  <2>. QED  BY <1>1, <2>1, <2>2, <2>4, <2>5 DEF k
<1>2. CASE ~JoinsLast(s, b, gap)
  <2>1. Join(s, b, gap) = Append(s, b)
    BY <1>2 DEF Join, JoinsLast
  <2>. QED  BY <1>2, <2>1
<1>. QED  BY <1>1, <1>2

(* Every block has a first and a last slot.                                  *)
LEMMA PieceAt ==
  ASSUME NEW s \in Seq(Pieces), NEW j \in 1..Len(s)
  PROVE  s[j] \in Pieces /\ s[j].first \in Int /\ s[j].last \in Int
<1>1. s[j] \in Pieces
  OBVIOUS
<1>. QED  BY <1>1 DEF Pieces

(* What a join holds.                                                       *)
LEMMA JoinHolds ==
  ASSUME NEW s \in Seq(Pieces), NEW b \in Pieces, NEW gap \in Int, NEW x \in Int,
         b.first <= b.last,
         Len(s) > 0 => s[Len(s)].first <= b.first /\ s[Len(s)].first <= s[Len(s)].last
  PROVE  Holds(Join(s, b, gap), x) <=>
           \/ Holds(s, x) \/ x \in b.first..b.last
           \/ JoinsLast(s, b, gap) /\ s[Len(s)].last < x /\ x < b.first
<1>. DEFINE k == Len(s)
            t == Join(s, b, gap)
<1>0. \A j \in 1..k : s[j] \in Pieces /\ s[j].first \in Int /\ s[j].last \in Int
  BY PieceAt
<1>1. b.first \in Int /\ b.last \in Int /\ k \in Nat
  BY DEF Pieces
<1>2. CASE JoinsLast(s, b, gap)
  <2>1. /\ Len(t) = k /\ \A j \in 1..(k - 1) : t[j] = s[j]
        /\ t[k].first = s[k].first /\ t[k].last = Larger(s[k].last, b.last)
        /\ k \in 1..k
    BY <1>2, <1>1, JoinIs DEF JoinsLast
  <2>2. s[k].first <= s[k].last /\ s[k].first <= b.first
    BY <2>1
  <2>3. x \in t[k].first..t[k].last <=>
          \/ x \in s[k].first..s[k].last \/ x \in b.first..b.last
          \/ s[k].last < x /\ x < b.first
    BY <2>1, <2>2, <1>0, <1>1 DEF Larger
  <2>. HIDE DEF t, k
  <2>4. Holds(t, x) <=> (\E j \in 1..(k - 1) : x \in s[j].first..s[j].last)
                          \/ x \in t[k].first..t[k].last
    <3>1. \A j \in 1..k : j \in 1..(k - 1) \/ j = k
      BY <1>1
    <3>2. \A j \in 1..(k - 1) : j \in 1..k
      BY <1>1
    <3>3. Holds(t, x) <=> \E j \in 1..k : x \in t[j].first..t[j].last
      BY <2>1 DEF Holds
    <3>. QED  BY <2>1, <3>1, <3>2, <3>3
  <2>5. Holds(s, x) <=> (\E j \in 1..(k - 1) : x \in s[j].first..s[j].last)
                          \/ x \in s[k].first..s[k].last
    BY <2>1, <1>1 DEF Holds, k
  <2>. QED  BY <1>2, <2>3, <2>4, <2>5 DEF t, k
<1>3. CASE ~JoinsLast(s, b, gap)
  <2>1. /\ Len(t) = k + 1 /\ t[k + 1] = b
        /\ \A j \in 1..k : t[j] = s[j]
    BY <1>3, JoinIs
  <2>. HIDE DEF t, k
  <2>2. Holds(t, x) <=> (\E j \in 1..k : x \in s[j].first..s[j].last)
                          \/ x \in b.first..b.last
    BY <2>1, <1>1 DEF Holds
  <2>. QED  BY <1>3, <2>2 DEF t, k, Holds
<1>. QED  BY <1>2, <1>3

(* The last block ends where the new one does, unless it ended later.          *)
LEMMA JoinLast ==
  ASSUME NEW s \in Seq(Pieces), NEW b \in Pieces, NEW gap \in Int,
         b.first <= b.last, Len(s) > 0 => s[Len(s)].first <= b.first,
         NEW t, t = Join(s, b, gap)
  PROVE  /\ Len(t) > 0 /\ t[Len(t)].first <= b.first
         /\ \/ t[Len(t)].last = b.last
            \/ Len(s) > 0 /\ t[Len(t)].last = s[Len(s)].last /\ b.last < t[Len(t)].last
<1>. DEFINE k == Len(s)
<1>1. b.first \in Int /\ b.last \in Int /\ k \in Nat
  BY DEF Pieces
<1>2. CASE JoinsLast(s, b, gap)
  <2>1. k > 0 /\ k \in 1..Len(s)
    BY <1>2, <1>1 DEF JoinsLast
  <2>3. s[k].first \in Int /\ s[k].last \in Int
    BY <2>1, PieceAt
  <2>2. Len(t) = k /\ t[k].first = s[k].first /\ t[k].last = Larger(s[k].last, b.last)
    BY <1>2, JoinIs
  <2>4. t[Len(t)].first = s[Len(s)].first /\ t[Len(t)].last = Larger(s[Len(s)].last, b.last)
    BY <2>2
  <2>. QED  BY <1>1, <2>1, <2>2, <2>3, <2>4 DEF Larger
<1>3. CASE ~JoinsLast(s, b, gap)
  <2>1. Len(t) = k + 1 /\ t[k + 1] = b
    BY <1>3, JoinIs
  <2>. QED  BY <1>1, <2>1
<1>. QED  BY <1>2, <1>3

(* Blocks that touch are joined, so that those left are apart.               *)
LEMMA JoinApart ==
  ASSUME NEW s \in Seq(Pieces), NEW b \in Pieces, NEW gap \in Int, gap >= 1,
         Apart(s), b.first <= b.last, Len(s) > 0 => s[Len(s)].first <= b.first
  PROVE  Apart(Join(s, b, gap))
<1>. DEFINE k == Len(s)
            t == Join(s, b, gap)
<1>0. \A j \in 1..k : s[j] \in Pieces /\ s[j].first \in Int /\ s[j].last \in Int
  BY PieceAt
<1>1. b.first \in Int /\ b.last \in Int /\ k \in Nat
  BY DEF Pieces
<1>2. CASE JoinsLast(s, b, gap)
  <2>1. /\ Len(t) = k /\ \A j \in 1..(k - 1) : t[j] = s[j]
        /\ t[k].first = s[k].first /\ t[k].last = Larger(s[k].last, b.last)
        /\ k \in 1..k
    BY <1>2, <1>1, JoinIs DEF JoinsLast
  <2>2. s[k].first <= t[k].last
    BY <2>1, <1>0, <1>1 DEF Apart, Larger
  <2>. HIDE DEF t, k
  <2>3. ASSUME NEW m \in 1..k
        PROVE  t[m].first = s[m].first /\ t[m].first <= t[m].last
    <3>1. CASE m = k
      BY <2>1, <2>2, <3>1
    <3>2. CASE m < k
      BY <2>1, <3>2, <1>1 DEF Apart, k
    <3>. QED  BY <3>1, <3>2, <1>1
  <2>4. ASSUME NEW m \in 1..k, NEW j \in 1..(m - 1)
        PROVE  t[j].last + 1 < t[m].first
    <3>1. t[j] = s[j]
      BY <2>1, <1>1
    <3>2. s[j].last + 1 < s[m].first
      BY DEF Apart, k
    <3>. QED  BY <2>3, <3>1, <3>2
  <2>. QED  BY <2>1, <2>3, <2>4 DEF Apart, t
<1>3. CASE ~JoinsLast(s, b, gap)
  <2>1. /\ Len(t) = k + 1 /\ t[k + 1] = b
        /\ \A j \in 1..k : t[j] = s[j]
    BY <1>3, JoinIs
  <2>2. \A j \in 1..k : s[j].last + 1 < b.first
    <3>. TAKE j \in 1..k
    <3>1. s[k].last + 1 < b.first
      BY <1>3, <1>0, <1>1 DEF JoinsLast
    <3>2. CASE j < k
      <4>0. k \in 1..Len(s) /\ j \in 1..(k - 1)
        BY <3>2, <1>1
      <4>1. s[j].last + 1 < s[k].first /\ s[k].first <= s[k].last
        BY <4>0 DEF Apart
      <4>2. s[k].first \in Int /\ s[k].last \in Int /\ s[j].last \in Int
        BY <1>0, <1>1
      <4>3. \A p, q, r, l \in Int : p + 1 < q /\ q <= r /\ r + 1 < l => p + 1 < l
        OBVIOUS
      <4>. QED  BY <4>1, <4>2, <4>3, <3>1, <1>1
    <3>3. CASE j = k
      BY <3>1, <3>3
    <3>. QED  BY <3>2, <3>3, <1>1
  <2>. HIDE DEF t, k
  <2>3. ASSUME NEW m \in 1..(k + 1)
        PROVE  /\ t[m].first <= t[m].last
               /\ \A j \in 1..(m - 1) : t[j].last + 1 < t[m].first
    <3>1. CASE m = k + 1
      <4>1. t[m] = b /\ \A j \in 1..(m - 1) : j \in 1..k /\ t[j] = s[j]
        BY <2>1, <3>1, <1>1
      <4>. QED  BY <4>1, <2>2
    <3>2. CASE m \in 1..k
      <4>1. t[m] = s[m] /\ \A j \in 1..(m - 1) : t[j] = s[j]
        BY <2>1, <3>2, <1>1
      <4>. QED  BY <4>1, <3>2 DEF Apart, k
    <3>. QED  BY <3>1, <3>2, <1>1
  <2>. QED  BY <2>1, <2>3 DEF Apart, t
<1>. QED  BY <1>2, <1>3

(* Slot x lies in the block of activity a.                                    *)
Within(n, c, a, x) == x \in Block(n, a, c).first..Block(n, a, c).last

(* The invariant of the first loop, after slot i: its blocks are apart and hold
   the slots that an activity so far needs, no others.                       *)
TouchingUpTo(n, active, c, i, s) ==
  /\ s \in Seq(Pieces) /\ Apart(s)
  /\ Len(s) > 0 => s[Len(s)].first <= Larger(0, i - Slots(c.lead))
  /\ \A x \in Int : Holds(s, x) <=> \E a \in active : a <= i /\ Within(n, c, a, x)

(* The next slot keeps it.                                                  *)
LEMMA TouchingStep ==
  ASSUME NEW n \in Nat \ {0}, NEW c \in Settings, NEW active \in SUBSET (0..(n - 1)),
         NEW i \in 0..(n - 1), NEW s, TouchingUpTo(n, active, c, i - 1, s)
  PROVE  TouchingUpTo(n, active, c, i,
           IF i \in active THEN Join(s, Block(n, i, c), 1) ELSE s)
<1>0. Slots(c.lead) \in Nat
  BY SlotsType DEF Settings
<1>1. \A a \in active : a <= i <=> a <= i - 1 \/ a = i
  OBVIOUS
<1>2. s \in Seq(Pieces) /\ Apart(s) /\ Len(s) \in Nat
  BY DEF TouchingUpTo
<1>3. Larger(0, (i - 1) - Slots(c.lead)) <= Larger(0, i - Slots(c.lead))
  BY <1>0 DEF Larger
<1>3a. Larger(0, (i - 1) - Slots(c.lead)) \in Int /\ Larger(0, i - Slots(c.lead)) \in Int
  BY <1>0 DEF Larger
<1>3b. Len(s) > 0 => /\ s[Len(s)].first \in Int /\ s[Len(s)].last \in Int
                     /\ s[Len(s)].first <= Larger(0, i - Slots(c.lead))
  <2>. SUFFICES ASSUME Len(s) > 0
                PROVE  /\ s[Len(s)].first \in Int /\ s[Len(s)].last \in Int
                       /\ s[Len(s)].first <= Larger(0, i - Slots(c.lead))
    OBVIOUS
  <2>1. s[Len(s)].first \in Int /\ s[Len(s)].last \in Int
    BY <1>2, PieceAt
  <2>2. s[Len(s)].first <= Larger(0, (i - 1) - Slots(c.lead))
    BY DEF TouchingUpTo
  <2>. HIDE DEF Slots, Larger
  <2>. QED  BY <2>1, <2>2, <1>3, <1>3a
<1>4. CASE i \in active
  <2>. DEFINE b == Block(n, i, c)
              t == Join(s, b, 1)
  <2>1. b \in Pieces /\ b.first \in Int /\ b.last \in Int /\ b.first <= b.last
        /\ b.first = Larger(0, i - Slots(c.lead))
    BY BlockType DEF Pieces
  <2>. HIDE DEF b
  <2>2. Len(s) > 0 => s[Len(s)].first <= b.first
    BY <2>1, <1>3b
  <2>3. t \in Seq(Pieces) /\ Apart(t)
    BY <1>2, <2>1, <2>2, JoinType, JoinApart
  <2>4. t[Len(t)].first <= b.first
    BY <1>2, <2>1, <2>2, JoinLast
  <2>5. ASSUME NEW x \in Int
        PROVE  Holds(t, x) <=> Holds(s, x) \/ Within(n, c, i, x)
    <3>1. Holds(t, x) <=> \/ Holds(s, x) \/ x \in b.first..b.last
                          \/ JoinsLast(s, b, 1) /\ s[Len(s)].last < x /\ x < b.first
      <4>1. Len(s) > 0 => s[Len(s)].first <= s[Len(s)].last
        BY <1>2 DEF Apart
      <4>. QED  BY <1>2, <2>1, <2>2, <4>1, JoinHolds
    <3>2. ~(JoinsLast(s, b, 1) /\ s[Len(s)].last < x /\ x < b.first)
      BY <1>3b, <2>1 DEF JoinsLast
    <3>. QED  BY <3>1, <3>2 DEF Within, b
  <2>6. ASSUME NEW x \in Int
        PROVE  Holds(t, x) <=> \E a \in active : a <= i /\ Within(n, c, a, x)
    <3>1. Holds(s, x) <=> \E a \in active : a <= i - 1 /\ Within(n, c, a, x)
      BY DEF TouchingUpTo
    <3>. QED  BY <1>1, <1>4, <2>5, <3>1
  <2>. HIDE DEF t
  <2>7. TouchingUpTo(n, active, c, i, t)
    BY <2>1, <2>3, <2>4, <2>6 DEF TouchingUpTo
  <2>. QED  BY <2>7, <1>4 DEF t, b
<1>5. CASE i \notin active
  <2>1. \A x \in Int : Holds(s, x) <=> \E a \in active : a <= i /\ Within(n, c, a, x)
    BY <1>1, <1>5 DEF TouchingUpTo
  <2>2. TouchingUpTo(n, active, c, i, s)
    BY <1>2, <1>3b, <2>1 DEF TouchingUpTo
  <2>. QED  BY <1>5, <2>2
<1>. QED  BY <1>4, <1>5

(* What the first loop returns.                                             *)
LEMMA TouchingIs ==
  ASSUME NEW n \in Nat \ {0}, NEW c \in Settings, NEW active \in SUBSET (0..(n - 1)),
         NEW t, t = Touching(n, active, c)
  PROVE  /\ t \in Seq(Pieces) /\ Apart(t)
         /\ \A x \in Int : Holds(t, x) <=> \E a \in active : Within(n, c, a, x)
<1>1. PICK h :
        /\ Touching(n, active, c) = h[n - 1] /\ h[-1] = <<>>
        /\ \A i \in 0..(n - 1) :
             h[i] = IF i \in active THEN Join(h[i - 1], Block(n, i, c), 1)
                    ELSE h[i - 1]
  BY TouchingUnfolds
<1>. DEFINE G == {i \in -1..(n - 1) : TouchingUpTo(n, active, c, i, h[i])}
            lo == -1
            hi == n - 1
<1>2. lo \in G
  <2>1. \A a \in active : ~(a <= -1)
    OBVIOUS
  <2>2. h[-1] = <<>> /\ Len(h[-1]) = 0 /\ h[-1] \in Seq(Pieces)
    BY <1>1
  <2>3. \A x : ~Holds(h[-1], x)
    BY <2>2 DEF Holds
  <2>4. Apart(h[-1])
    BY <2>2 DEF Apart
  <2>5. TouchingUpTo(n, active, c, -1, h[-1])
    BY <2>1, <2>2, <2>3, <2>4 DEF TouchingUpTo
  <2>. QED  BY <2>5
<1>3. ASSUME NEW i \in lo..(hi - 1), i \in G
      PROVE  i + 1 \in G
  <2>1. i + 1 \in 0..(n - 1) /\ (i + 1) - 1 = i
    OBVIOUS
  <2>2. TouchingUpTo(n, active, c, (i + 1) - 1, h[i])
    BY <1>3, <2>1
  <2>3. h[i + 1] = IF i + 1 \in active THEN Join(h[i], Block(n, i + 1, c), 1) ELSE h[i]
    BY <1>1, <2>1
  <2>4. TouchingUpTo(n, active, c, i + 1, h[i + 1])
    BY <2>1, <2>2, <2>3, TouchingStep
  <2>. QED  BY <2>1, <2>4
<1>4. n - 1 \in G
  <2>1. lo \in Int /\ hi \in Int /\ hi \in lo..hi
    OBVIOUS
  <2>. HIDE DEF G, lo, hi
  <2>2. \A i \in lo..hi : i \in G
    BY <1>2, <1>3, <2>1, Upwards
  <2>3. hi \in G
    BY <2>1, <2>2
  <2>. QED  BY <2>3 DEF hi
<1>5. TouchingUpTo(n, active, c, n - 1, t)
  BY <1>1, <1>4
<1>6. \A a \in active : a <= n - 1
  OBVIOUS
<1>. QED  BY <1>5, <1>6 DEF TouchingUpTo

(* The loop that joins over short gaps (power_state.py:244-251), step by step.   *)
LEMMA BlocksUnfolds ==
  ASSUME NEW n \in Nat \ {0}, NEW c \in Settings, NEW active \in SUBSET (0..(n - 1)),
         NEW t, t = Touching(n, active, c)
  PROVE  \E h :
           /\ Blocks(n, active, c) = h[Len(t)] /\ h[0] = <<>>
           /\ \A k \in 1..Len(t) : h[k] = Join(h[k - 1], t[k], Slots(c.minimumOff))
<1>. DEFINE E(g) == [k \in 0..Len(t) |->
                       IF k = 0 THEN <<>>
                       ELSE Join(g[k - 1], t[k], Slots(c.minimumOff))]
            T == CHOOSE g : g = E(g)
            F == [k \in 1..Len(t) |-> [s \in Seq(Pieces) |->
                    Join(s, t[k], Slots(c.minimumOff))]]
<1>0. t \in Seq(Pieces) /\ Len(t) \in Nat /\ Slots(c.minimumOff) \in Int
  BY TouchingIs, SlotsType DEF Settings
<1>1. Blocks(n, active, c) = T[Len(t)]
  BY DEF Blocks
<1>2. F \in [1..Len(t) -> [Seq(Pieces) -> Seq(Pieces)]]
  <2>. HIDE DEF Slots
  <2>1. \A k \in 1..Len(t) : t[k] \in Pieces
    BY <1>0
  <2>2. \A k \in 1..Len(t), s \in Seq(Pieces) :
          Join(s, t[k], Slots(c.minimumOff)) \in Seq(Pieces)
    BY <1>0, <2>1, JoinType
  <2>. QED  BY <2>2
<1>3. PICK h \in [0..Len(t) -> Seq(Pieces)] :
         h[0] = <<>> /\ \A k \in 1..Len(t) : h[k] = F[k][h[k - 1]]
  <2>. DEFINE lo == 0
              hi == Len(t)
  <2>1. lo \in Int /\ hi \in Int /\ lo <= hi /\ lo + 1 = 1 /\ <<>> \in Seq(Pieces)
    BY <1>0
  <2>2. F \in [(lo + 1)..hi -> [Seq(Pieces) -> Seq(Pieces)]]
    BY <1>2, <2>1
  <2>3. \E h \in [lo..hi -> Seq(Pieces)] : Follows(h, lo, hi, <<>>, F)
    <3>. HIDE DEF F, lo, hi
    <3>. QED  BY <2>1, <2>2, Recursion
  <2>4. \E h \in [lo..hi -> Seq(Pieces)] :
          h[lo] = <<>> /\ \A k \in 1..hi : h[k] = F[k][h[k - 1]]
    <3>. HIDE DEF F, lo, hi
    <3>. QED  BY <2>1, <2>3 DEF Follows
  <2>. HIDE DEF F
  <2>. QED  BY <2>4
<1>5. h = E(h)
  <2>1. \A k \in 1..Len(t) : h[k - 1] \in Seq(Pieces)
    BY <1>0
  <2>2. \A k \in 1..Len(t) : h[k] = Join(h[k - 1], t[k], Slots(c.minimumOff))
    BY <1>3, <2>1
  <2>. QED  BY <1>0, <1>3, <2>2
<1>6. T = E(T)
  <2>. HIDE DEF E
  <2>. QED  BY <1>5, Zenon
<1>7. T[0] = <<>> /\ \A k \in 1..Len(t) : T[k] = Join(T[k - 1], t[k], Slots(c.minimumOff))
  <2>. HIDE DEF T
  <2>. QED  BY <1>0, <1>6
<1>. QED  BY <1>1, <1>7

(* Slot x lies in a gap too short for DEYE to be off, after block j.             *)
Between(t, gap, j, x) ==
  /\ t[j + 1].first - t[j].last - 1 < gap
  /\ t[j].last < x /\ x < t[j + 1].first

(* The invariant of the second loop, after block k: it holds the slots of the
   blocks so far and of the short gaps between them.                         *)
BlocksUpTo(t, gap, k, s) ==
  /\ s \in Seq(Pieces)
  /\ k = 0 => Len(s) = 0
  /\ k > 0 => /\ Len(s) > 0 /\ s[Len(s)].first <= t[k].first
              /\ s[Len(s)].last = t[k].last
  /\ \A x \in Int : Holds(s, x) <=>
       \/ \E j \in 1..k : x \in t[j].first..t[j].last
       \/ \E j \in 1..(k - 1) : Between(t, gap, j, x)

(* The next block keeps it.                                                 *)
LEMMA BlocksStep ==
  ASSUME NEW t \in Seq(Pieces), Apart(t), NEW gap \in Int, NEW k \in 1..Len(t),
         NEW s, BlocksUpTo(t, gap, k - 1, s)
  PROVE  BlocksUpTo(t, gap, k, Join(s, t[k], gap))
<1>. DEFINE b == t[k]
            u == Join(s, b, gap)
<1>1. /\ b \in Pieces /\ b.first \in Int /\ b.last \in Int /\ b.first <= b.last
  BY PieceAt DEF Apart
<1>2. s \in Seq(Pieces) /\ Len(s) \in Nat /\ k - 1 \in Nat
  BY DEF BlocksUpTo
<1>3. ASSUME k > 1
      PROVE  /\ k - 1 \in 1..Len(t) /\ (k - 1) + 1 = k
             /\ t[k - 1].first \in Int /\ t[k - 1].last \in Int
             /\ t[k - 1].first <= t[k - 1].last /\ t[k - 1].last + 1 < b.first
  <2>1. k - 1 \in 1..Len(t) /\ k - 1 \in 1..(k - 1)
    BY <1>3
  <2>. QED  BY <2>1, PieceAt DEF Apart
<1>4. Len(s) > 0 => /\ k > 1 /\ s[Len(s)].first \in Int /\ s[Len(s)].last = t[k - 1].last
                    /\ s[Len(s)].first <= t[k - 1].first
  <2>. SUFFICES ASSUME Len(s) > 0
                PROVE  /\ k > 1 /\ s[Len(s)].first \in Int /\ s[Len(s)].last = t[k - 1].last
                       /\ s[Len(s)].first <= t[k - 1].first
    OBVIOUS
  <2>1. k - 1 # 0
    BY DEF BlocksUpTo
  <2>2. s[Len(s)].first \in Int
    BY <1>2, PieceAt
  <2>3. k > 1 /\ k - 1 > 0
    BY <2>1, <1>2
  <2>. QED  BY <2>2, <2>3 DEF BlocksUpTo
<1>5. Len(s) > 0 => s[Len(s)].first <= b.first /\ s[Len(s)].first <= s[Len(s)].last
  <2>. HIDE DEF b
  <2>. QED  BY <1>1, <1>3, <1>4
<1>6. u \in Seq(Pieces)
  BY <1>1, <1>2, JoinType
<1>7. /\ Len(u) > 0 /\ u[Len(u)].first <= b.first /\ u[Len(u)].last = b.last
  <2>. HIDE DEF b, u
  <2>1. /\ Len(u) > 0 /\ u[Len(u)].first <= b.first
        /\ \/ u[Len(u)].last = b.last
           \/ Len(s) > 0 /\ u[Len(u)].last = s[Len(s)].last /\ b.last < u[Len(u)].last
    BY <1>1, <1>2, <1>5, JoinLast DEF u
  <2>. QED  BY <1>1, <1>3, <1>4, <2>1
<1>8. ASSUME NEW x \in Int
      PROVE  Holds(u, x) <=>
               \/ \E j \in 1..k : x \in t[j].first..t[j].last
               \/ \E j \in 1..(k - 1) : Between(t, gap, j, x)
  <2>1. Holds(u, x) <=> \/ Holds(s, x) \/ x \in b.first..b.last
                        \/ JoinsLast(s, b, gap) /\ s[Len(s)].last < x /\ x < b.first
    <3>. HIDE DEF b
    <3>. QED  BY <1>1, <1>2, <1>5, JoinHolds
  <2>2. JoinsLast(s, b, gap) /\ s[Len(s)].last < x /\ x < b.first <=>
          k > 1 /\ Between(t, gap, k - 1, x)
    <3>1. CASE k > 1
      <4>1. Len(s) > 0
        BY <3>1, <1>2 DEF BlocksUpTo
      <4>. QED  BY <3>1, <4>1, <1>3, <1>4 DEF Between, JoinsLast
    <3>2. CASE ~(k > 1)
      BY <3>2, <1>4 DEF JoinsLast
    <3>. QED  BY <3>1, <3>2
  <2>3. Holds(s, x) <=> \/ \E j \in 1..(k - 1) : x \in t[j].first..t[j].last
                        \/ \E j \in 1..((k - 1) - 1) : Between(t, gap, j, x)
    BY DEF BlocksUpTo
  <2>4. \A j : j \in 1..k <=> j \in 1..(k - 1) \/ j = k
    OBVIOUS
  <2>5. /\ \A j \in 1..(k - 1) : j \in 1..((k - 1) - 1) \/ (k > 1 /\ j = k - 1)
        /\ \A j \in 1..((k - 1) - 1) : j \in 1..(k - 1)
        /\ k > 1 => k - 1 \in 1..(k - 1)
    OBVIOUS
  <2>. HIDE DEF u
  <2>. QED  BY <2>1, <2>2, <2>3, <2>4, <2>5
<1>. HIDE DEF u
<1>9. BlocksUpTo(t, gap, k, u)
  BY <1>6, <1>7, <1>8 DEF BlocksUpTo
<1>. QED  BY <1>9 DEF u

(* What the second loop returns.                                            *)
LEMMA BlocksIs ==
  ASSUME NEW n \in Nat \ {0}, NEW c \in Settings, NEW active \in SUBSET (0..(n - 1)),
         NEW t, t = Touching(n, active, c), NEW x \in Int
  PROVE  x \in Required(n, active, c) <=>
           \/ Holds(t, x)
           \/ \E j \in 1..(Len(t) - 1) : Between(t, Slots(c.minimumOff), j, x)
<1>. DEFINE gap == Slots(c.minimumOff)
<1>0. /\ t \in Seq(Pieces) /\ Apart(t) /\ Len(t) \in Nat /\ gap \in Int
  BY TouchingIs, SlotsType DEF Settings
<1>. HIDE DEF gap
<1>1. PICK h :
        /\ Blocks(n, active, c) = h[Len(t)] /\ h[0] = <<>>
        /\ \A k \in 1..Len(t) : h[k] = Join(h[k - 1], t[k], gap)
  BY BlocksUnfolds DEF gap
<1>. DEFINE G == {k \in 0..Len(t) : BlocksUpTo(t, gap, k, h[k])}
            lo == 0
            hi == Len(t)
<1>2. lo \in G
  <2>1. Len(h[0]) = 0 /\ h[0] \in Seq(Pieces)
    BY <1>1
  <2>2. \A y : ~Holds(h[0], y)
    BY <2>1 DEF Holds
  <2>3. BlocksUpTo(t, gap, 0, h[0])
    BY <2>1, <2>2 DEF BlocksUpTo
  <2>. QED  BY <2>3, <1>0
<1>3. ASSUME NEW k \in lo..(hi - 1), k \in G
      PROVE  k + 1 \in G
  <2>1. k + 1 \in 1..Len(t) /\ (k + 1) - 1 = k /\ k + 1 \in 0..Len(t)
    BY <1>0
  <2>2. BlocksUpTo(t, gap, (k + 1) - 1, h[k])
    BY <1>3, <2>1
  <2>3. h[k + 1] = Join(h[k], t[k + 1], gap)
    BY <1>1, <2>1
  <2>4. BlocksUpTo(t, gap, k + 1, h[k + 1])
    BY <1>0, <2>1, <2>2, <2>3, BlocksStep
  <2>. QED  BY <2>1, <2>4
<1>4. Len(t) \in G
  <2>1. lo \in Int /\ hi \in Int /\ hi \in lo..hi
    BY <1>0
  <2>. HIDE DEF G, lo, hi
  <2>2. \A k \in lo..hi : k \in G
    BY <1>2, <1>3, <2>1, Upwards
  <2>3. hi \in G
    BY <2>1, <2>2
  <2>. QED  BY <2>3 DEF hi
<1>5. BlocksUpTo(t, gap, Len(t), Blocks(n, active, c))
  BY <1>1, <1>4
<1>6. x \in Required(n, active, c) <=> Holds(Blocks(n, active, c), x)
  BY DEF Required, Holds
<1>7. Holds(Blocks(n, active, c), x) <=>
        \/ \E j \in 1..Len(t) : x \in t[j].first..t[j].last
        \/ \E j \in 1..(Len(t) - 1) : Between(t, gap, j, x)
  BY <1>5 DEF BlocksUpTo
<1>. QED  BY <1>6, <1>7 DEF Holds, gap

(* The document's idle slots are those in no block of an activity.             *)
LEMMA IdleIs ==
  ASSUME NEW n \in Nat \ {0}, NEW c \in Settings, NEW active \in SUBSET (0..(n - 1)),
         NEW x \in 0..(n - 1)
  PROVE  Idle(active, c, x) <=> ~\E a \in active : Within(n, c, a, x)
<1>. SUFFICES ASSUME NEW a \in active
              PROVE  (/\ x \notin (a - Slots(c.lead))..(a + Slots(c.shutdown))
                      /\ x >= a => x >= Larger(0, a - Slots(c.lead)) + Slots(c.minimumOn))
                       <=> ~Within(n, c, a, x)
  BY DEF Idle
<1>. DEFINE lead == Slots(c.lead)
            shut == Slots(c.shutdown)
            on == Slots(c.minimumOn)
<1>1. lead \in Nat /\ shut \in Nat /\ on \in Nat
  BY SlotsType DEF Settings
<1>2. /\ Block(n, a, c).first = Larger(0, a - lead)
      /\ Block(n, a, c).last =
           Smaller(n - 1, Larger(a + shut, Larger(0, a - lead) + Larger(1, on) - 1))
  BY BlockType
<1>. HIDE DEF lead, shut, on
<1>3. Within(n, c, a, x) <=>
        /\ x >= Larger(0, a - lead)
        /\ x <= Smaller(n - 1, Larger(a + shut, Larger(0, a - lead) + Larger(1, on) - 1))
  <2>1. a \in Int
    OBVIOUS
  <2>2. /\ Larger(0, a - lead) \in Int
        /\ Smaller(n - 1, Larger(a + shut, Larger(0, a - lead) + Larger(1, on) - 1)) \in Int
    BY <1>1, <2>1 DEF Larger, Smaller
  <2>. QED  BY <1>2, <2>2 DEF Within
<1>4. (/\ x \notin (a - lead)..(a + shut)
       /\ x >= a => x >= Larger(0, a - lead) + on) <=> ~Within(n, c, a, x)
  BY <1>1, <1>3 DEF Larger, Smaller
<1>. QED  BY <1>4 DEF lead, shut, on

(* Every slot that a block holds is one of the plan.                        *)
LEMMA WithinPlan ==
  ASSUME NEW n \in Nat \ {0}, NEW c \in Settings, NEW a \in 0..(n - 1), NEW x \in Int,
         Within(n, c, a, x)
  PROVE  x \in 0..(n - 1)
  BY BlockType DEF Within

(* So the first loop holds the slots of the plan that are not idle.            *)
LEMMA HoldsNeeded ==
  ASSUME NEW n \in Nat \ {0}, NEW c \in Settings, NEW active \in SUBSET (0..(n - 1)),
         NEW t, t = Touching(n, active, c), NEW x \in Int
  PROVE  Holds(t, x) <=> x \in 0..(n - 1) /\ ~Idle(active, c, x)
<1>1. Holds(t, x) <=> \E a \in active : Within(n, c, a, x)
  BY TouchingIs
<1>2. (\E a \in active : Within(n, c, a, x)) => x \in 0..(n - 1)
  BY WithinPlan
<1>. QED  BY <1>1, <1>2, IdleIs

(* DEYE is not required on where the document lets it be off, and there alone.    *)
LEMMA Off ==
  ASSUME NEW n \in Nat \ {0}, NEW c \in Settings, NEW active \in SUBSET (0..(n - 1)),
         NEW x \in 0..(n - 1)
  PROVE  x \notin Required(n, active, c) <=> MayBeOff(n, active, c, x)
<1>. DEFINE t == Touching(n, active, c)
            gap == Slots(c.minimumOff)
<1>0. /\ t \in Seq(Pieces) /\ Apart(t) /\ Len(t) \in Nat /\ gap \in Int
  BY TouchingIs, SlotsType DEF Settings
<1>1. x \in Required(n, active, c) <=>
        \/ Holds(t, x)
        \/ \E j \in 1..(Len(t) - 1) : Between(t, gap, j, x)
  BY BlocksIs
<1>2. \A y \in Int : Holds(t, y) <=> y \in 0..(n - 1) /\ ~Idle(active, c, y)
  BY HoldsNeeded
<1>. HIDE DEF t, gap
<1>3. \A j \in 1..Len(t) : /\ t[j].first \in Int /\ t[j].last \in Int
                           /\ t[j].first <= t[j].last
  BY <1>0, PieceAt DEF Apart
<1>4. \A j \in 1..Len(t) : \A y \in t[j].first..t[j].last : Holds(t, y)
  BY <1>3 DEF Holds
<1>5. \A j, m \in 1..Len(t) : j < m => t[j].last + 1 < t[m].first
  BY <1>0 DEF Apart
<1>6. ASSUME MayBeOff(n, active, c, x), NEW j \in 1..(Len(t) - 1), Between(t, gap, j, x)
      PROVE  FALSE
  <2>. DEFINE l == t[j].last
              r == t[j + 1].first
  <2>0. j \in 1..Len(t) /\ j + 1 \in 1..Len(t)
    BY <1>0
  <2>1. l \in Int /\ r \in Int /\ l < x /\ x < r /\ r - l - 1 < gap
    BY <1>3, <1>6, <2>0 DEF Between
  <2>2. Holds(t, l) /\ Holds(t, r)
    BY <1>3, <1>4, <2>0
  <2>. HIDE DEF l, r
  <2>3. l \in 0..(x - 1) /\ r \in (x + 1)..(n - 1)
    BY <1>2, <2>1, <2>2
  <2>4. PICK k \in (l + 1)..(r - 1) : ~Idle(active, c, k)
    BY <1>0, <1>2, <1>6, <2>1, <2>2, <2>3 DEF MayBeOff, gap
  <2>5. k \in Int /\ Holds(t, k)
    BY <1>2, <2>3, <2>4
  <2>6. PICK m \in 1..Len(t) : k \in t[m].first..t[m].last
    BY <2>5 DEF Holds
  <2>7. CASE m <= j
    <3>1. t[m].last <= l
      <4>1. CASE m = j
        BY <4>1, <1>3 DEF l
      <4>2. CASE m < j
        <5>1. t[m].last + 1 < t[j].first /\ t[j].first <= t[j].last
          BY <4>2, <1>3, <1>5, <2>0
        <5>2. t[m].last \in Int /\ t[j].first \in Int /\ t[j].last \in Int
          BY <1>3, <2>0
        <5>3. \A p, q, z \in Int : p + 1 < q /\ q <= z => p <= z
          OBVIOUS
        <5>. QED  BY <5>1, <5>2, <5>3 DEF l
      <4>3. m \in Int /\ j \in Int
        BY <1>0
      <4>. QED  BY <2>7, <4>1, <4>2, <4>3
    <3>. QED  BY <3>1, <2>1, <2>6, <1>3, <2>4
  <2>8. CASE m >= j + 1
    <3>1. r <= t[m].first
      <4>1. CASE m = j + 1
        BY <4>1, <1>3 DEF r
      <4>2. CASE j + 1 < m
        BY <4>2, <1>3, <1>5, <2>0 DEF r
      <4>3. m \in Int /\ j \in Int
        BY <1>0
      <4>. QED  BY <2>8, <4>1, <4>2, <4>3
    <3>. QED  BY <3>1, <2>1, <2>6, <1>3, <2>4
  <2>. QED  BY <2>7, <2>8
<1>7. ASSUME x \notin Required(n, active, c),
             NEW l \in 0..(x - 1), NEW r \in (x + 1)..(n - 1),
             ~Idle(active, c, l), ~Idle(active, c, r), ~(r - l - 1 >= gap),
             \A k \in (l + 1)..(r - 1) : Idle(active, c, k)
      PROVE  FALSE
  <2>1. /\ l \in Int /\ r \in Int /\ l < x /\ x < r
        /\ \A k \in Int : l < k /\ k < r => ~Holds(t, k)
        /\ Holds(t, l) /\ Holds(t, r)
    BY <1>2, <1>7
  <2>2. PICK p \in 1..Len(t) : l \in t[p].first..t[p].last
    BY <2>1 DEF Holds
  <2>3. PICK q \in 1..Len(t) : r \in t[q].first..t[q].last
    BY <2>1 DEF Holds
  <2>4. t[p].last = l
    <3>1. ~Holds(t, l + 1)
      BY <2>1
    <3>. QED  BY <3>1, <1>3, <1>4, <2>1, <2>2
  <2>5. t[q].first = r
    <3>1. ~Holds(t, r - 1)
      BY <2>1
    <3>. QED  BY <3>1, <1>3, <1>4, <2>1, <2>3
  <2>6. p < q
    <3>1. CASE p = q
      BY <3>1, <1>3, <2>1, <2>4, <2>5
    <3>2. CASE q < p
      BY <3>2, <1>3, <1>5, <2>1, <2>4, <2>5
    <3>. QED  BY <3>1, <3>2
  <2>7. q = p + 1
    <3>. SUFFICES ASSUME p + 1 < q
                  PROVE  FALSE
      BY <2>6
    <3>1. p + 1 \in 1..Len(t) /\ p < p + 1
      OBVIOUS
    <3>2. t[p].last + 1 < t[p + 1].first /\ t[p + 1].last + 1 < t[q].first
      BY <3>1, <1>5
    <3>3. Holds(t, t[p + 1].first) /\ t[p + 1].first \in Int /\ t[p + 1].first <= t[p + 1].last
          /\ t[p + 1].last \in Int
      BY <3>1, <1>3, <1>4
    <3>4. l < t[p + 1].first /\ t[p + 1].first < r
      BY <3>2, <3>3, <2>1, <2>4, <2>5
    <3>. QED  BY <3>3, <3>4, <2>1
  <2>8. p \in 1..(Len(t) - 1) /\ Between(t, gap, p, x)
    BY <1>0, <1>7, <2>1, <2>4, <2>5, <2>7 DEF Between
  <2>. QED  BY <1>1, <1>7, <2>8
<1>8. ASSUME x \notin Required(n, active, c)
      PROVE  MayBeOff(n, active, c, x)
  <2>1. Idle(active, c, x)
    BY <1>1, <1>2, <1>8
  <2>. QED  BY <1>7, <1>8, <2>1 DEF MayBeOff, gap
<1>9. ASSUME MayBeOff(n, active, c, x)
      PROVE  x \notin Required(n, active, c)
  <2>1. ~Holds(t, x)
    BY <1>2, <1>9 DEF MayBeOff
  <2>. QED  BY <1>1, <1>6, <1>9, <2>1
<1>. QED  BY <1>8, <1>9

(* A window that the plan does not cut ends the lead before an activity.     *)
LEMMA WindowEnds ==
  ASSUME NEW n \in Nat \ {0}, NEW c \in Settings, NEW active \in SUBSET (0..(n - 1)),
         NEW e \in 0..(n - 1), e + 1 \in 0..(n - 1),
         MayBeOff(n, active, c, e), ~MayBeOff(n, active, c, e + 1)
  PROVE  /\ e + Slots(c.lead) + 1 \in active
         /\ Block(n, e + Slots(c.lead) + 1, c).first = e + 1
<1>. DEFINE gap == Slots(c.minimumOff)
<1>0. gap \in Int /\ Slots(c.lead) \in Nat
  BY SlotsType DEF Settings
<1>1. Idle(active, c, e)
  BY DEF MayBeOff
<1>2. ~Idle(active, c, e + 1)
  <2>. SUFFICES ASSUME Idle(active, c, e + 1)
                PROVE  FALSE
    OBVIOUS
  <2>. HIDE DEF gap
  <2>1. PICK l \in 0..((e + 1) - 1), r \in ((e + 1) + 1)..(n - 1) :
          /\ ~Idle(active, c, l) /\ ~Idle(active, c, r) /\ ~(r - l - 1 >= gap)
          /\ ~\E k \in (l + 1)..(r - 1) : ~Idle(active, c, k)
    BY DEF MayBeOff, gap
  <2>2. l # e
    BY <1>1, <2>1
  <2>3. l \in 0..(e - 1) /\ r \in (e + 1)..(n - 1)
    BY <2>2
  <2>4. \/ r - l - 1 >= gap
        \/ \E k \in (l + 1)..(r - 1) : ~Idle(active, c, k)
    BY <2>1, <2>3 DEF MayBeOff, gap
  <2>. QED  BY <2>1, <2>4
<1>3. PICK a \in active : Within(n, c, a, e + 1)
  BY <1>2, IdleIs
<1>4. ~Within(n, c, a, e)
  BY <1>1, IdleIs
<1>5. /\ Block(n, a, c).first \in Int /\ Block(n, a, c).last \in Int
      /\ Block(n, a, c).first = Larger(0, a - Slots(c.lead))
  BY BlockType
<1>6. Block(n, a, c).first = e + 1
  BY <1>3, <1>4, <1>5 DEF Within
<1>7. a = e + Slots(c.lead) + 1
  <2>. HIDE DEF Slots
  <2>. QED  BY <1>0, <1>5, <1>6 DEF Larger
<1>. QED  BY <1>6, <1>7

(* An activity is never a slot that may be off, so the states say the same.      *)
LEMMA OverlayIs ==
  ASSUME NEW n \in Nat \ {0}, NEW c \in Settings, NEW active \in SUBSET (0..(n - 1)),
         NEW i \in 0..(n - 1)
  PROVE  Overlay(n, active, c)[i] = "OFF_ELIGIBLE" <=> MayBeOff(n, active, c, i)
<1>1. i \in active => ~MayBeOff(n, active, c, i)
  <2>. SUFFICES ASSUME i \in active
                PROVE  ~Idle(active, c, i)
    BY DEF MayBeOff
  <2>1. Within(n, c, i, i)
    BY BlockType DEF Within
  <2>. QED  BY <2>1, IdleIs
<1>2. Overlay(n, active, c)[i] = "OFF_ELIGIBLE" <=>
        i \notin active /\ i \notin Required(n, active, c)
  BY DEF Overlay
<1>. QED  BY <1>1, <1>2, Off

(* A window begins and ends in slots that may be off, and no slot follows it
   that may.                                                                 *)
LEMMA WindowIs ==
  ASSUME NEW n \in Nat \ {0}, NEW c \in Settings, NEW active \in SUBSET (0..(n - 1)),
         NEW w \in OffWindows(n, Overlay(n, active, c))
  PROVE  /\ w.first \in 0..(n - 1) /\ w.last \in 0..(n - 1) /\ w.first <= w.last
         /\ MayBeOff(n, active, c, w.first) /\ MayBeOff(n, active, c, w.last)
         /\ w.last < n - 1 =>
              w.last + 1 \in 0..(n - 1) /\ ~MayBeOff(n, active, c, w.last + 1)
<1>. DEFINE states == Overlay(n, active, c)
<1>1. \A i \in 0..(n - 1) : states[i] = "OFF_ELIGIBLE" <=> MayBeOff(n, active, c, i)
  BY OverlayIs
<1>. HIDE DEF states
<1>2. /\ w.first \in 0..(n - 1) /\ w.last \in 0..(n - 1) /\ w.first <= w.last
      /\ \A i \in w.first..w.last : states[i] = "OFF_ELIGIBLE"
      /\ w.last = n - 1 \/ states[w.last + 1] # "OFF_ELIGIBLE"
  BY DEF OffWindows, states
<1>. QED  BY <1>1, <1>2

(* The schedule of one plan and one setting is the documented one.             *)
LEMMA Documented ==
  ASSUME NEW n \in Nat \ {0}, NEW c \in Settings, NEW active \in SUBSET (0..(n - 1))
  PROVE  AsDocumented(n, active, c)
<1>. DEFINE states == Overlay(n, active, c)
            windows == OffWindows(n, states)
            lead == Slots(c.lead)
<1>0. lead \in Nat /\ Slots(c.shutdown) \in Nat /\ Slots(c.minimumOn) \in Nat
  BY SlotsType DEF Settings
<1>1. \A i \in 0..(n - 1) : states[i] = "OFF_ELIGIBLE" <=> MayBeOff(n, active, c, i)
  BY OverlayIs
<1>2. ASSUME NEW w \in windows, w.last < n - 1
      PROVE  /\ w.last + lead + 1 \in active
             /\ Block(n, w.last + lead + 1, c).first = w.last + 1
             /\ w.last \in 0..(n - 1) /\ Idle(active, c, w.last)
  <2>1. /\ w.last \in 0..(n - 1) /\ MayBeOff(n, active, c, w.last)
        /\ w.last + 1 \in 0..(n - 1) /\ ~MayBeOff(n, active, c, w.last + 1)
    BY <1>2, WindowIs
  <2>. DEFINE e == w.last
  <2>. HIDE DEF windows, states, e
  <2>2. e + lead + 1 \in active /\ Block(n, e + lead + 1, c).first = e + 1
    BY <2>1, WindowEnds DEF e
  <2>. QED  BY <2>1, <2>2 DEF MayBeOff, e
<1>3. ASSUME NEW w \in windows, w.last < n - 1, NEW i \in 1..lead
      PROVE  states[w.last + i] = "STARTING"
  <2>. DEFINE e == w.last
              a == e + lead + 1
              j == e + i
  <2>1. /\ a \in active /\ Block(n, a, c).first = e + 1
        /\ e \in 0..(n - 1) /\ Idle(active, c, e)
    BY <1>2, <1>3
  <2>. HIDE DEF windows, states, e, lead
  <2>2. a \in 0..(n - 1) /\ j \in (e + 1)..(a - 1) /\ j \in 0..(n - 1)
    BY <1>0, <2>1
  <2>3. j \notin active
    <3>. SUFFICES ASSUME j \in active
                  PROVE  FALSE
      OBVIOUS
    <3>1. /\ Block(n, j, c).first = Larger(0, j - lead) /\ Block(n, j, c).last \in j..(n - 1)
      BY <2>2, BlockType DEF lead
    <3>2. Larger(0, j - lead) \in Int /\ Larger(0, j - lead) <= e
      BY <1>0, <2>1, <2>2 DEF Larger
    <3>3. Within(n, c, j, e)
      BY <2>1, <2>2, <3>1, <3>2 DEF Within
    <3>. QED  BY <2>1, <3>3, IdleIs
  <2>4. j \in Required(n, active, c)
    <3>1. Within(n, c, a, j)
      <4>1. Block(n, a, c).last \in a..(n - 1)
        BY <2>2, BlockType
      <4>. HIDE DEF a, j
      <4>. QED  BY <2>1, <2>2, <4>1 DEF Within
    <3>2. ~Idle(active, c, j)
      <4>. HIDE DEF a, j
      <4>. QED  BY <2>1, <2>2, <3>1, IdleIs
    <3>. HIDE DEF j
    <3>. QED  BY <2>2, <3>2, Off DEF MayBeOff
  <2>5. a \in (j + 1)..(j + lead)
    BY <1>0, <2>1
  <2>6. states[j] = "STARTING"
    <3>. HIDE DEF a, j
    <3>. QED  BY <2>1, <2>2, <2>3, <2>4, <2>5 DEF Overlay, states, lead
  <2>. QED  BY <2>6 DEF e
<1>4. ASSUME NEW v \in windows, NEW w \in windows, v.last < w.first
      PROVE  w.first - v.last - 1 >= Slots(c.minimumOn)
  <2>. DEFINE e == v.last
              a == e + lead + 1
              x == w.first
  <2>1. x \in 0..(n - 1) /\ MayBeOff(n, active, c, x)
    BY WindowIs
  <2>2. e \in 0..(n - 1)
    BY WindowIs
  <2>3. e < n - 1
    BY <1>4, <2>1, <2>2
  <2>4. a \in active /\ Block(n, a, c).first = e + 1
    BY <1>2, <2>3
  <2>5. ~Within(n, c, a, x)
    <3>. HIDE DEF x, a
    <3>. QED  BY <2>1, <2>4, IdleIs DEF MayBeOff
  <2>6. e < x
    BY <1>4
  <2>. HIDE DEF e, x, windows, states, lead
  <2>7. Block(n, a, c).last =
          Smaller(n - 1, Larger(a + Slots(c.shutdown), e + 1 + Larger(1, Slots(c.minimumOn)) - 1))
    <3>. HIDE DEF a
    <3>. QED  BY <2>4, BlockType
  <2>. HIDE DEF a
  <2>8. a \in 0..(n - 1)
    BY <2>4
  <2>9. /\ Larger(a + Slots(c.shutdown), e + 1 + Larger(1, Slots(c.minimumOn)) - 1) \in Int
        /\ Larger(a + Slots(c.shutdown), e + 1 + Larger(1, Slots(c.minimumOn)) - 1)
              >= e + Slots(c.minimumOn)
    <3>. HIDE DEF Slots
    <3>. QED  BY <1>0, <2>2, <2>8 DEF Larger
  <2>10. Block(n, a, c).last < x
    BY <2>1, <2>2, <2>4, <2>5, <2>6, <2>7, <2>9, <2>8, BlockType DEF Within
  <2>11. x - e - 1 >= Slots(c.minimumOn)
    <3>. HIDE DEF Slots
    <3>. QED  BY <1>0, <2>1, <2>2, <2>7, <2>9, <2>10 DEF Smaller
  <2>. QED  BY <2>11 DEF e, x
<1>. QED  BY <1>1, <1>2, <1>3, <1>4 DEF AsDocumented

(* build_deye_power_state_schedule (trading/power_state.py:123-280), for plans
   of every length, activities and durations: DEYE may be off in the slots the
   document names and in no others, each window ends the whole lead before an
   activity, and DEYE stays on between two windows for its minimum.            *)
THEOREM OverlayCorrect == AllAsDocumented
<1>1. \A n \in 1..MaxSlots : n \in Nat \ {0}
  BY DurationAssumption
<1>. QED  BY <1>1, Documented DEF AllAsDocumented

(* And so is the schedule of any plan that is shown (advisory.py:214-224).       *)
THEOREM OffCorrect == Spec => []OffOnlyWhenIdle
<1>1. OffOnlyWhenIdle
  BY OverlayCorrect DEF OffOnlyWhenIdle
<1>. QED  BY <1>1, PTL

-----------------------------------------------------------------------------
(* An evaluation that has marked the status has not granted authority yet.   *)
Marked == {"invalidate", "evaluate", "degrade", "outputs", "intent", "commit"}

(* What the planner knows of the entities at each of its calls.             *)
PlannerInv ==
  /\ pc \in Marked => status.state # "ADVISORY"
  /\ status.state = "ADVISORY" => status.plan \in Plans
  /\ pc = "commit" => Identity(intent) = [pub |-> pub, plan |-> outcome.plan,
                                          type |-> outcome.type]
  /\ granted <= pub
  /\ pc \in Marked \cup {"mark"} => granted < pub
  /\ Authority # {} => granted = status.pub

(* What the executor has read had authority once it matches the status.      *)
ReaderInv ==
  /\ stage = "status" /\ AuthorityOf(got, status) # {} =>
       Identity(got) \in seen
  /\ DecodedHadAuthority

PublicationInv == PublicationTypeOK /\ PlannerInv /\ ReaderInv

-----------------------------------------------------------------------------
(* When two entities give authority to an intent.                           *)
LEMMA AuthorityMeans ==
  ASSUME NEW i, NEW s
  PROVE  /\ AuthorityOf(i, s) # {} <=>
              s.state = "ADVISORY" /\ Identity(i) = Identity(s)
         /\ AuthorityOf(i, s) # {} => AuthorityOf(i, s) = {Identity(i)}
BY DEF AuthorityOf

LEMMA IdentityMeans ==
  ASSUME NEW i, NEW s
  PROVE  Identity(i) = Identity(s) <=>
           i.pub = s.pub /\ i.plan = s.plan /\ i.type = s.type
BY DEF Identity

LEMMA IdentityType ==
  ASSUME NEW i \in Stamped
  PROVE  Identity(i) \in Identities
BY DEF Identity, Identities, Stamped

(* A step either leaves the entities, ends what authority there was, writes  *)
(* an intent nobody accepts yet, or commits.                                *)
Leaves == UNCHANGED entities
Stops == UNCHANGED intent /\ status'.state # "ADVISORY"
Clears == UNCHANGED status /\ intent'.plan = NoPlan
Drafts == pc = "intent" /\ UNCHANGED status
Commits ==
  /\ pc = "commit" /\ pc' \in {"idle", "retract"}
  /\ UNCHANGED <<pub, intent>>
  /\ status' = [state |-> outcome.state, pub |-> pub, plan |-> outcome.plan,
                type |-> outcome.type, committed |-> now, at |-> now]

LEMMA Writes ==
  ASSUME PublicationInv, Plan
  PROVE  Leaves \/ Stops \/ Clears \/ Drafts \/ Commits
<1>. USE DEF Leaves, Stops, Clears, Drafts, Commits, entities
<1>1. CASE Mark \/ Degrade
  BY <1>1 DEF Mark, Degrade, Attempt, ShowStatus, PublicationInv, PublicationTypeOK
<1>2. CASE Invalidate \/ Withdraw
  BY <1>2 DEF Invalidate, Withdraw, Attempt, ShowIntent
<1>3. CASE PublishIntent
  BY <1>3 DEF PublishIntent
<1>4. CASE CommitStatus
  BY <1>4 DEF CommitStatus, Attempt
<1>5. CASE Begin \/ Evaluate \/ ShowOutputs \/ Restart
  BY <1>5 DEF Begin, Evaluate, ShowOutputs, Restart
<1>. QED  BY <1>1, <1>2, <1>3, <1>4, <1>5 DEF Plan

(* What that does to authority.                                             *)
LEMMA AuthorityStep ==
  ASSUME PublicationInv, Leaves \/ Stops \/ Clears \/ Drafts \/ Commits
  PROVE  \/ Authority' = Authority /\ (Authority # {} => UNCHANGED status)
         \/ Authority' = {}
         \/ /\ Authority = {} /\ Authority' = {Identity(intent')}
            /\ Commits /\ status'.pub = pub
<1>. USE AuthorityMeans DEF PublicationInv, PlannerInv, Authority
<1>1. CASE Leaves
  BY <1>1 DEF Leaves, entities
<1>2. CASE Stops
  BY <1>2 DEF Stops
<1>3. CASE Clears
  <2>1. status.state = "ADVISORY" => status.plan # NoPlan
    BY PublicationAssumption
  <2>. QED  BY <1>3, <2>1, IdentityMeans DEF Clears
<1>4. CASE Drafts
  BY <1>4 DEF Drafts, Marked
<1>5. CASE Commits
  BY <1>5 DEF Commits, Marked
<1>. QED  BY <1>1, <1>2, <1>3, <1>4, <1>5

-----------------------------------------------------------------------------
(* Each call writes what the entities may hold.                             *)
LEMMA PlanType ==
  ASSUME PublicationTypeOK, Plan
  PROVE  /\ pc' \in {"idle", "mark", "invalidate", "withdraw", "evaluate",
                     "degrade", "outputs", "intent", "commit", "retract"}
         /\ pub' \in 0..MaxPublications /\ pub <= pub'
         /\ outcome' \in Outcomes
         /\ status' \in [state : {"unknown", "UPDATING", "ADVISORY",
                                  "LAST_KNOWN", "DEGRADED"},
                         pub : 0..MaxPublications,
                         plan : Plans \cup {NoPlan}, type : Types,
                         committed : 0..MaxTime, at : 0..MaxTime]
         /\ intent' \in Stamped
<1>. USE DEF PublicationTypeOK, entities
<1>. outcome.plan \in Plans /\ outcome.type \in Types
     /\ outcome.state \in {"ADVISORY", "LAST_KNOWN", "DEGRADED"}
  BY DEF Outcomes
<1>1. CASE Begin
  BY <1>1, PublicationAssumption DEF Begin
<1>2. CASE Mark \/ Degrade
  <2>1. ASSUME NEW state \in {"UPDATING", "DEGRADED"}, ShowStatus(state)
        PROVE  status' \in [state : {"unknown", "UPDATING", "ADVISORY",
                                    "LAST_KNOWN", "DEGRADED"},
                           pub : 0..MaxPublications,
                           plan : Plans \cup {NoPlan}, type : Types,
                           committed : 0..MaxTime, at : 0..MaxTime]
    BY <2>1 DEF ShowStatus
  <2>. QED  BY <1>2, <2>1 DEF Mark, Degrade, Attempt
<1>3. CASE Invalidate \/ Withdraw
  <2>1. [pub |-> pub, plan |-> NoPlan, type |-> NoIntent, at |-> now]
          \in Stamped
    BY PublicationAssumption DEF Stamped
  <2>. QED  BY <1>3, <2>1, PublicationAssumption
            DEF Invalidate, Withdraw, Attempt, ShowIntent
<1>4. CASE Evaluate \/ ShowOutputs \/ Restart
  BY <1>4 DEF Evaluate, ShowOutputs, Restart
<1>5. CASE PublishIntent
  BY <1>5 DEF PublishIntent, Attempt, ShowIntent, Stamped
<1>6. CASE CommitStatus
  BY <1>6 DEF CommitStatus, Attempt
<1>. QED  BY <1>1, <1>2, <1>3, <1>4, <1>5, <1>6 DEF Plan

LEMMA AuthorityType ==
  ASSUME NEW i \in Stamped, NEW s PROVE AuthorityOf(i, s) \subseteq Identities
BY AuthorityMeans, IdentityType

LEMMA TypeInitial == PublicationInit => PublicationTypeOK
<1>. SUFFICES ASSUME PublicationInit PROVE PublicationTypeOK
  OBVIOUS
<1>1. 0 \in 0..MaxPublications /\ 0 \in 0..MaxTime
  BY PublicationAssumption
<1>. QED  BY <1>1, PublicationAssumption DEF PublicationInit, PublicationTypeOK,
    Stamped

LEMMA TypeStep ==
  ASSUME PublicationTypeOK, PublicationNext PROVE PublicationTypeOK'
<1>. USE DEF entities, planner, reader
<1>1. /\ pc' \in {"idle", "mark", "invalidate", "withdraw", "evaluate",
                  "degrade", "outputs", "intent", "commit", "retract"}
      /\ pub' \in 0..MaxPublications
      /\ outcome' \in Outcomes
      /\ status' \in [state : {"unknown", "UPDATING", "ADVISORY",
                               "LAST_KNOWN", "DEGRADED"},
                      pub : 0..MaxPublications, plan : Plans \cup {NoPlan},
                      type : Types, committed : 0..MaxTime, at : 0..MaxTime]
      /\ intent' \in Stamped
  <2>1. CASE Plan
    BY <2>1, PlanType
  <2>2. CASE Read \/ Elapse
    BY <2>2 DEF Read, Elapse, PublicationTypeOK
  <2>. QED  BY <2>1, <2>2 DEF PublicationNext
<1>2. /\ now' \in 0..MaxTime /\ since' \in 0..MaxTime /\ got' \in Stamped
      /\ stage' \in {"nothing", "intent", "status"}
      /\ decoded' \subseteq Identities
  <2>1. CASE Plan
    BY <2>1 DEF Plan, PublicationTypeOK
  <2>2. CASE Elapse
    BY <2>2, PublicationAssumption DEF Elapse, PublicationTypeOK
  <2>3. CASE StartReading \/ ReadIntent
    BY <2>3, <1>1 DEF StartReading, ReadIntent, PublicationTypeOK, PublicationNext,
        Read, Plan, Elapse
  <2>4. CASE Read /\ ReadStatus
    <3>1. Decode(got, status) \subseteq Identities
      BY IdentityType DEF Decode, PublicationTypeOK
    <3>. QED  BY <2>4, <3>1 DEF Read, ReadStatus, PublicationTypeOK
  <2>. QED  BY <2>1, <2>2, <2>3, <2>4 DEF PublicationNext, Read
<1>3. Authority' \subseteq Identities
  BY <1>1, AuthorityType DEF Authority
<1>4. seen' \subseteq Identities
  BY <1>3 DEF PublicationNext, Watch, PublicationTypeOK
<1>5. granted' \in 0..MaxPublications
  BY <1>1 DEF PublicationNext, Watch, PublicationTypeOK
<1>. QED  BY <1>1, <1>2, <1>4, <1>5 DEF PublicationTypeOK

-----------------------------------------------------------------------------
(* The planner's part of the invariant.                                     *)
LEMMA PlannerInitial == PublicationInit => PlannerInv
BY DEF PublicationInit, PlannerInv, Marked, Authority, AuthorityOf

LEMMA PlannerStep ==
  ASSUME PublicationInv, Plan, Watch
  PROVE  PlannerInv'
<1>. USE DEF PublicationInv, PlannerInv
<1>1. /\ Leaves \/ Stops \/ Clears \/ Drafts \/ Commits
      /\ pub \in Nat /\ pub' \in Nat /\ granted \in Nat /\ pub <= pub'
  BY Writes, PlanType DEF PublicationTypeOK
<1>2. pc' \in Marked => status'.state # "ADVISORY"
  BY DEF Plan, Begin, Mark, Invalidate, Withdraw, Evaluate, Degrade,
         ShowOutputs, PublishIntent, CommitStatus, Restart, Attempt,
         ShowStatus, entities, Marked, PublicationTypeOK
<1>3. status'.state = "ADVISORY" => status'.plan \in Plans
  BY <1>1 DEF Leaves, Stops, Clears, Drafts, Commits, entities, PublicationTypeOK,
              Outcomes
<1>4. pc' = "commit" => Identity(intent') = [pub |-> pub',
                          plan |-> outcome'.plan, type |-> outcome'.type]
  BY DEF Plan, Begin, Mark, Invalidate, Withdraw, Evaluate, Degrade,
         ShowOutputs, PublishIntent, CommitStatus, Restart, Attempt,
         ShowIntent, Identity
<1>5. granted' <= pub' /\ (pc' \in Marked \cup {"mark"} => granted' < pub')
  <2>1. pc' \in Marked \cup {"mark"} =>
          \/ pub' = pub + 1
          \/ pub' = pub /\ pc \in Marked \cup {"mark"}
    <3>1. CASE Begin
      BY <3>1 DEF Begin
    <3>2. CASE Restart \/ Withdraw \/ Degrade \/ CommitStatus
      BY <3>2 DEF Restart, Withdraw, Degrade, CommitStatus, Attempt, Marked
    <3>3. CASE Mark \/ Invalidate \/ PublishIntent
      BY <3>3 DEF Mark, Invalidate, PublishIntent, Attempt, Marked
    <3>4. CASE Evaluate \/ ShowOutputs
      BY <3>4 DEF Evaluate, ShowOutputs, Marked
    <3>. QED  BY <3>1, <3>2, <3>3, <3>4 DEF Plan
  <2>2. \/ granted' = granted
        \/ granted' = pub' /\ pc' \notin Marked \cup {"mark"}
    <3>1. CASE Authority' = {}
      BY <3>1 DEF Watch
    <3>2. CASE Authority' = Authority /\ Authority # {} /\ UNCHANGED status
      BY <3>2 DEF Watch
    <3>3. CASE Commits /\ status'.pub = pub
      BY <3>3 DEF Watch, Commits, Marked
    <3>. QED  BY <1>1, <3>1, <3>2, <3>3, AuthorityStep
  <2>. QED  BY <1>1, <2>1, <2>2
<1>6. Authority' # {} => granted' = status'.pub
  BY DEF Watch
<1>. QED  BY <1>2, <1>3, <1>4, <1>5, <1>6

-----------------------------------------------------------------------------
(* The reader's part.                                                       *)
LEMMA ReaderInitial == PublicationInit => ReaderInv
BY DEF PublicationInit, ReaderInv, DecodedHadAuthority

LEMMA ReaderStep ==
  ASSUME PublicationInv, PublicationNext
  PROVE  ReaderInv'
<1>. USE DEF PublicationInv, entities, planner, reader
<1>1. CASE Plan
  <2>1. UNCHANGED reader /\ Watch
    BY <1>1 DEF Plan, PublicationNext
  <2>2. stage = "nothing" => seen' = seen
    BY <2>1 DEF Watch
  <2>3. stage # "nothing" => seen' = seen \cup Authority'
    BY <2>1 DEF Watch
  <2>4. ASSUME stage = "status", AuthorityOf(got, status') # {}
        PROVE  Identity(got) \in seen'
    <3>1. CASE UNCHANGED status
      BY <2>3, <2>4, <3>1 DEF ReaderInv
    <3>2. CASE Commits
      <4>1. Identity(got) = Identity(status')
        BY <2>4, AuthorityMeans
      <4>2. Identity(status') = Identity(intent')
        BY <3>2 DEF Commits, PlannerInv, Identity
      <4>3. Authority' = {Identity(intent')}
        BY <2>4, <4>2, AuthorityMeans DEF Authority
      <4>. QED  BY <2>3, <2>4, <4>1, <4>2, <4>3
    <3>3. CASE Stops
      BY <2>4, <3>3, AuthorityMeans DEF Stops
    <3>. QED  BY <1>1, <3>1, <3>2, <3>3, Writes DEF Leaves, Clears, Drafts
  <2>. QED  BY <2>1, <2>2, <2>3, <2>4 DEF ReaderInv, DecodedHadAuthority
<1>2. CASE Elapse
  BY <1>2 DEF Elapse, PublicationNext, Watch, ReaderInv, DecodedHadAuthority
<1>3. CASE Read
  <2>. UNCHANGED entities /\ Watch /\ Authority' = Authority
    BY <1>3 DEF Read, PublicationNext, Authority, Plan, Elapse
  <2>1. CASE StartReading
    BY <2>1 DEF StartReading, ReaderInv, DecodedHadAuthority
  <2>2. CASE ReadIntent
    <3>1. /\ stage = "intent" /\ stage' = "status" /\ got' = intent
          /\ seen' = seen \cup Authority
      BY <2>2 DEF ReadIntent, Watch
    <3>. QED  BY <3>1, AuthorityMeans
              DEF ReaderInv, DecodedHadAuthority, Authority
  <2>3. CASE ReadStatus
    <3>1. /\ stage = "status" /\ stage' = "nothing" /\ seen \subseteq seen'
          /\ decoded' \in {{}, Decode(got, status)}
      BY <2>3 DEF ReadStatus, Watch
    <3>2. Decode(got, status) \subseteq AuthorityOf(got, status)
      BY DEF Decode, Coherent, AuthorityOf
    <3>3. AuthorityOf(got, status) \subseteq seen
      BY <3>1, AuthorityMeans DEF ReaderInv
    <3>. QED  BY <3>1, <3>2, <3>3 DEF ReaderInv, DecodedHadAuthority
  <2>. QED  BY <1>3, <2>1, <2>2, <2>3 DEF Read
<1>. QED  BY <1>1, <1>2, <1>3 DEF PublicationNext

-----------------------------------------------------------------------------
LEMMA PublicationInvCorrect == PublicationSpec => []PublicationInv
<1>1. PublicationInit => PublicationInv
  BY TypeInitial, PlannerInitial, ReaderInitial DEF PublicationInv
<1>2. ASSUME PublicationInv, [PublicationNext]_publicationVars PROVE PublicationInv'
  <2>1. CASE UNCHANGED publicationVars
    BY <1>2, <2>1 DEF publicationVars, planner, entities, reader, history,
        PublicationInv, PublicationTypeOK,
       PlannerInv, ReaderInv, DecodedHadAuthority, Authority
  <2>2. CASE PublicationNext
    <3>1. PlannerInv'
      <4>1. CASE Plan
        BY <1>2, <2>2, <4>1, PlannerStep DEF PublicationNext
      <4>2. CASE UNCHANGED <<planner, entities>>
        <5>1. Authority' = Authority /\ granted' = granted
          BY <1>2, <2>2, <4>2
          DEF PublicationNext, Watch, Authority, entities, PublicationInv,
              PlannerInv
        <5>. QED  BY <1>2, <4>2, <5>1
                  DEF planner, entities, PublicationInv, PlannerInv
      <4>. QED  BY <2>2, <4>1, <4>2 DEF PublicationNext, Read, Elapse
    <3>. QED  BY <1>2, <2>2, <3>1, TypeStep, ReaderStep DEF PublicationInv
  <2>. QED  BY <1>2, <2>1, <2>2
<1>. QED  BY <1>1, <1>2, PTL DEF PublicationSpec

(* Every variable of the protocol keeps its type.                           *)
THEOREM PublicationTypeCorrect == PublicationSpec => []PublicationTypeOK
BY PublicationInvCorrect, PTL DEF PublicationInv

(* No intent has authority while an evaluation is under way.                *)
THEOREM UpdatingCorrect == PublicationSpec => []NothingWhileUpdating
<1>1. PublicationInv => NothingWhileUpdating
  BY AuthorityMeans DEF PublicationInv, PlannerInv, NothingWhileUpdating, Marked,
                        Authority
<1>. QED  BY <1>1, PublicationInvCorrect, PTL

(* What the executor decodes had authority while it was reading.            *)
THEOREM DecodedCorrect == PublicationSpec => []DecodedHadAuthority
BY PublicationInvCorrect, PTL DEF PublicationInv, ReaderInv

(* The two entities, written one after the other, implement an authority     *)
(* that is granted and withdrawn at once.                                   *)
THEOREM PromiseKept == PublicationSpec => KeepsPromise
<1>1. PublicationInit => Promise!Init
  BY DEF PublicationInit, Promise!Init, Authority, AuthorityOf
<1>2. ASSUME PublicationInv, PublicationInv', [PublicationNext]_publicationVars
      PROVE  [Promise!Next]_<<Authority, granted>>
  <2>1. CASE UNCHANGED publicationVars
    BY <2>1 DEF publicationVars, entities, history, Authority
  <2>2. CASE PublicationNext /\ Plan
    <3>1. Watch /\ (Authority # {} => granted = status.pub)
      BY <1>2, <2>2 DEF PublicationNext, PublicationInv, PlannerInv
    <3>2. CASE Authority' = Authority /\ (Authority # {} => UNCHANGED status)
      BY <3>1, <3>2 DEF Watch
    <3>3. CASE Authority' = {}
      BY <3>1, <3>3 DEF Watch, Promise!Next, Promise!Withdraw
    <3>4. CASE /\ Authority = {} /\ Authority' = {Identity(intent')}
               /\ Commits /\ status'.pub = pub
      <4>1. granted' = pub /\ granted < pub
        BY <1>2, <3>1, <3>4 DEF Watch, Commits, PublicationInv, PlannerInv, Marked
      <4>2. Identity(intent') \in Identities /\ Identity(intent').pub = pub
        <5>1. Identity(intent') = Identity(status')
          BY <3>4, AuthorityMeans DEF Authority
        <5>2. Identity(status').pub = pub
          BY <3>4 DEF Identity
        <5>. QED  BY <1>2, <5>1, <5>2, IdentityType
            DEF PublicationInv, PublicationTypeOK
      <4>. QED  BY <3>4, <4>1, <4>2 DEF Promise!Next, Promise!Grant
    <3>. QED  BY <1>2, <2>2, <3>2, <3>3, <3>4, Writes, AuthorityStep
  <2>3. CASE PublicationNext /\ (Read \/ Elapse)
    BY <1>2, <2>3 DEF PublicationNext, Read, Elapse, Watch, Authority, entities,
        PublicationInv,
                      PlannerInv
  <2>. QED  BY <1>2, <2>1, <2>2, <2>3 DEF PublicationNext
<1>. QED  BY <1>1, <1>2, PublicationInvCorrect, PTL
    DEF PublicationSpec, KeepsPromise, Promise!Spec
=============================================================================
