--------------------------- MODULE DeyeStateProofs ---------------------------
(* Theorems about DeyeState, for every window and age, whatever Home          *)
(* Assistant stamps and for as long as it runs.                              *)
EXTENDS DeyeState, TLAPS

(* Neither position that is remembered is later than the present one: of the    *)
(* same switch, or of the one before it.                                     *)
PositionOK ==
  /\ transition.at <= now /\ lastSwitch.at <= now
  /\ transition.value = Switch => transition.at <= entity["switch"].changed
  /\ lastSwitch.value # Switch => lastSwitch.at <= entity["switch"].changed

(* READY is remembered for as long as its switch stays.                       *)
ReadyOK ==
  /\ readied => /\ wasReady /\ transition.value = Switch /\ transition.at # Never
                /\ lastSwitch.value = Switch
                /\ "switch" \in dated => transition.at = entity["switch"].changed
  /\ NoGraceAfterReady

(* A confirmation starts no earlier than the calm that history knows, or than   *)
(* the present position by the stamps alone.                                  *)
Remembered(since, k) ==
  since # Never =>
    /\ calm # Never
    /\ \/ calm <= since
       \/ {"switch", k} \subseteq dated /\ transition.at <= since

CalmOK ==
  /\ Remembered(normalSince, "device") /\ Remembered(zeroSince, "power")
  /\ calm <= lastObserved

Inv == TypeOK /\ PositionOK /\ ReadyOK /\ CalmOK

-----------------------------------------------------------------------------
(* What the conversions make of a reading.                                    *)
LEMMA KeysAre == Keys = {"switch", "device", "power"}
BY DEF Keys, Values

LEMMA ReadingMeans ==
  ASSUME TypeOK, NEW r \in Readings
  PROVE  /\ r.observed \in Times /\ r.seen \in Times /\ now \in Nat
         /\ r.observed <= r.seen /\ r.seen <= now
         /\ entity["switch"].changed <= r.seen
         /\ \A k \in Keys : entity[k].changed \in Times
BY ConfigAssumption DEF Readings, TypeOK, Times

LEMMA StampsAre == Times \subseteq Stamps /\ Never \in Stamps /\ Never \notin Times
                   /\ Stamps \subseteq Int /\ \A s \in Stamps : Never <= s
BY ConfigAssumption DEF Stamps, Times, Never

(* The position concluded is never later than the real one, and is the          *)
(* remembered one when the switch was found as it is remembered.               *)
LEMMA PositionMeans ==
  ASSUME Inv, NEW r \in Readings
  PROVE  /\ ChangedAt(r) \in Stamps /\ ChangedAt(r) <= entity["switch"].changed
         /\ "switch" \in dated => ChangedAt(r) = entity["switch"].changed
         /\ readied => ~Moved(r)
<1>1. /\ transition.at \in Stamps /\ lastSwitch.at \in Stamps
      /\ entity["switch"].changed \in Times /\ r.seen \in Times
      /\ entity["switch"].changed \in Stamps /\ Never <= entity["switch"].changed
  BY ReadingMeans, StampsAre, KeysAre DEF Inv, TypeOK
<1>2. ChangedAt(r) \in Stamps /\ ChangedAt(r) <= entity["switch"].changed
  BY <1>1, StampsAre DEF ChangedAt, Inv, PositionOK, Times
<1>3. "switch" \in dated => ChangedAt(r) = entity["switch"].changed
  BY DEF ChangedAt
<1>4. ASSUME readied
      PROVE  ChangedAt(r) = transition.at /\ transition.value = Switch
  BY <1>3, <1>4 DEF ChangedAt, Inv, ReadyOK
<1>5. readied => ~Moved(r)
  <2>1. transition \in [value : {"on", "off", "none"}, at : Stamps]
    BY DEF Inv, TypeOK
  <2>. QED  BY <1>4, <2>1 DEF Moved, Position
<1>. QED  BY <1>2, <1>3, <1>5

(* The remembered position is the present one unless the evaluation moved it.  *)
LEMMA UnmovedMeans ==
  ASSUME Inv, NEW r \in Readings, ~Moved(r)
  PROVE  transition.at = ChangedAt(r) /\ transition.value = Switch
BY DEF Moved, Position

(* Since when the feedback k has been what it is: not before its stamp, and as   *)
(* long as calm or the present position says.                                 *)
Follow(r) == IF calm = Never \/ Broken(r) \/ Moved(r) THEN r.observed ELSE calm

LEMMA SinceMeans ==
  ASSUME Inv, NEW r \in Readings, NEW k \in {"device", "power"},
         NEW s \in Stamps, Remembered(s, k)
  PROVE  /\ Since(s, k, r) \in Times
         /\ k \in dated => entity[k].changed <= Since(s, k, r)
         /\ \/ Follow(r) <= Since(s, k, r)
            \/ /\ {"switch", k} \subseteq dated
               /\ entity["switch"].changed <= Since(s, k, r)
<1>. DEFINE start == IF Moved(r) THEN Later(ConfirmedFrom(r), Entered(k, r))
                     ELSE IF Kept(s, r) = Never THEN r.observed
                     ELSE Kept(s, r)
<1>1. /\ r.observed \in Times /\ r.seen \in Times /\ r.observed <= r.seen
      /\ entity[k].changed \in Times /\ entity["switch"].changed \in Times
      /\ calm \in Stamps /\ lastObserved \in Stamps
  BY ReadingMeans, KeysAre DEF Inv, TypeOK
<1>2. Since(s, k, r) = IF k \in dated THEN Later(start, entity[k].changed) ELSE start
  BY DEF Since
<1>3. ASSUME start \in Times,
             \/ Follow(r) <= start
             \/ {"switch", k} \subseteq dated /\ entity["switch"].changed <= start
      PROVE  /\ Since(s, k, r) \in Times
             /\ k \in dated => entity[k].changed <= Since(s, k, r)
             /\ \/ Follow(r) <= Since(s, k, r)
                \/ /\ {"switch", k} \subseteq dated
                   /\ entity["switch"].changed <= Since(s, k, r)
  <2>. HIDE DEF start
  <2>1. Follow(r) \in Int /\ start \in Int /\ entity[k].changed \in Int
        /\ entity["switch"].changed \in Int
    BY <1>1, <1>3, StampsAre DEF Follow, Times
  <2>. QED  BY <1>1, <1>2, <1>3, <2>1 DEF Later
<1>4. Follow(r) <= r.observed
  <2>1. calm <= lastObserved
    BY DEF Inv, CalmOK
  <2>2. CASE calm = Never \/ Broken(r) \/ Moved(r)
    BY <1>1, <2>2 DEF Follow, Times
  <2>3. CASE ~(calm = Never \/ Broken(r) \/ Moved(r))
    <3>1. Follow(r) = calm /\ calm \in Times
      BY <1>1, <2>3 DEF Follow, Stamps
    <3>2. lastObserved \in Times
      BY <1>1, <2>1, <3>1, ConfigAssumption DEF Stamps, Times, Never
    <3>3. ~(r.observed < lastObserved)
      BY <2>3, <3>2, StampsAre DEF Broken
    <3>. QED  BY <1>1, <2>1, <3>1, <3>2, <3>3 DEF Times
  <2>. QED  BY <2>2, <2>3
<1>5. CASE Moved(r)
  <2>1. Follow(r) = r.observed
    BY <1>5 DEF Follow
  <2>2. start = Later(ConfirmedFrom(r), Entered(k, r))
    BY <1>5
  <2>3. ConfirmedFrom(r) \in Times /\ Entered(k, r) \in Times
    BY <1>1 DEF ConfirmedFrom, Entered
  <2>4. start \in Times /\ ConfirmedFrom(r) <= start /\ Entered(k, r) <= start
    BY <2>2, <2>3 DEF Later, Times
  <2>5. \/ r.observed <= start
        \/ {"switch", k} \subseteq dated /\ entity["switch"].changed <= start
    BY <1>1, <2>4 DEF ConfirmedFrom, Entered, Times
  <2>. QED  BY <1>3, <2>1, <2>4, <2>5
<1>6. CASE ~Moved(r) /\ Kept(s, r) = Never
  <2>1. start = r.observed
    BY <1>6
  <2>. QED  BY <1>1, <1>3, <1>4, <2>1
<1>7. CASE ~Moved(r) /\ Kept(s, r) # Never
  <2>1. start = s /\ s # Never /\ ~Broken(r)
    BY <1>7 DEF Kept
  <2>2. s \in Times
    BY <2>1 DEF Stamps
  <2>3. Follow(r) = calm
    BY <1>7, <2>1 DEF Follow, Remembered
  <2>4. "switch" \in dated => transition.at = entity["switch"].changed
    BY <1>7, PositionMeans, UnmovedMeans
  <2>5. \/ Follow(r) <= start
        \/ {"switch", k} \subseteq dated /\ entity["switch"].changed <= start
    BY <2>1, <2>3, <2>4 DEF Remembered
  <2>. QED  BY <1>3, <2>1, <2>2, <2>5
<1>. QED  BY <1>5, <1>6, <1>7

-----------------------------------------------------------------------------
(* What every evaluation leaves in place, and what each one adds.              *)
Good(state) ==
  \/ state \in {"READY", "INTENTIONAL_OFF"}
  \/ state = "STARTING" /\ Normal
  \/ state = "STOPPING" /\ Resting

LEMMA AssessMeans ==
  ASSUME NEW state \in States, NEW r, Assess(state, r)
  PROVE  /\ UNCHANGED <<now, entity, dated>>
         /\ shown' = [state |-> state, normal |-> Normal]
         /\ calm' = IF Good(state) THEN Follow(r) ELSE Never
         /\ readied' = (readied \/ state = "READY")
BY DEF Assess, Follow, Good, ha

(* An evaluation with a reading, by what it does.                             *)
Kind(r, state) ==
  /\ Assess(state, r) /\ lastObserved' = r.observed
  /\ \/ /\ Confirming(Never, Never) /\ ~Good(state)
     \/ /\ state = "STARTING" /\ ~Normal /\ Confirming(Never, Never)
     \/ /\ state \in {"READY", "STARTING"} /\ Switch = "on" /\ Normal
        /\ Confirming(Since(normalSince, "device", r), Never)
        /\ state = "READY" =>
             r.observed - Since(normalSince, "device", r) >= ReadyConfirmation
     \/ /\ state \in {"INTENTIONAL_OFF", "STOPPING"} /\ Switch = "off" /\ Resting
        /\ Confirming(Never, Since(zeroSince, "power", r))
        /\ state = "INTENTIONAL_OFF" =>
             r.observed - Since(zeroSince, "power", r) >= ShutdownSettle

Seen(r) == [value |-> Switch, at |-> r.seen]

Ignores(r) ==
  /\ transition' = transition /\ wasReady' = wasReady
  /\ lastSwitch' = lastSwitch \/ (Switch # "unavailable" /\ lastSwitch' = Seen(r))

Takes(r, state) ==
  /\ Switch # "unavailable" /\ ChangedAt(r) # Never
  /\ transition' = Position(r) /\ lastSwitch' = Seen(r)
  /\ wasReady' <=> (state = "READY" \/ WasReady(r))
  /\ wasReady' \in BOOLEAN
  /\ state = "STARTING" /\ ~Normal =>
       ~WasReady(r) /\ now - ChangedAt(r) < StartupWindow

Remembers(r, state) ==
  (state = "UNAVAILABLE" /\ Ignores(r)) \/ Takes(r, state)

LEMMA EvaluationKinds ==
  ASSUME Inv, NEW r \in Readings,
         \/ Disconnected(r) \/ Unverified(r) \/ Invalid(r)
         \/ Off(r) \/ OnNormal(r) \/ OnAbnormal(r)
  PROVE  \E state \in States : Kind(r, state) /\ Remembers(r, state)
<1>. USE DEF States
<1>1. CASE Disconnected(r)
  <2>1. Kind(r, "UNAVAILABLE")
    BY <1>1 DEF Disconnected, Kind, Good
  <2>2. Remembers(r, "UNAVAILABLE")
    BY <1>1 DEF Disconnected, Remembers, Ignores
  <2>. QED  BY <2>1, <2>2
<1>2. CASE Unverified(r)
  <2>1. Kind(r, "UNAVAILABLE")
    BY <1>2 DEF Unverified, Observe, Kind, Good
  <2>2. Remembers(r, "UNAVAILABLE")
    BY <1>2 DEF Unverified, Observe, Remembers, Ignores, Seen
  <2>. QED  BY <2>1, <2>2
<1>3. CASE Invalid(r)
  <2>1. Kind(r, "UNAVAILABLE")
    BY <1>3 DEF Invalid, Verified, Observe, Kind, Good
  <2>2. Remembers(r, "UNAVAILABLE")
    BY <1>3 DEF Invalid, Verified, Observe, Remembers, Takes, Seen, WasReady, Inv,
                TypeOK
  <2>. QED  BY <2>1, <2>2
<1>4. CASE Off(r)
  <2>. DEFINE since == Since(zeroSince, "power", r)
              state == IF Value("device") = "Fault" THEN "UNEXPECTED_FAULT"
                       ELSE IF Resting /\ r.observed - since >= ShutdownSettle
                       THEN "INTENTIONAL_OFF" ELSE "STOPPING"
  <2>1. Assess(state, r) /\ lastObserved' = r.observed
        /\ Confirming(Never, IF Resting THEN since ELSE Never)
    BY <1>4 DEF Off, Verified, Observe
  <2>2. Kind(r, state)
    <3>1. CASE Resting
      BY <1>4, <2>1, <3>1 DEF Off, Kind, Good, Resting
    <3>2. CASE ~Resting
      BY <2>1, <3>2 DEF Kind, Good
    <3>. QED  BY <3>1, <3>2
  <2>3. Remembers(r, state)
    <3>1. state \notin {"READY", "STARTING"}
      OBVIOUS
    <3>2. /\ Switch # "unavailable" /\ ChangedAt(r) # Never
          /\ transition' = Position(r) /\ wasReady' = WasReady(r)
          /\ lastSwitch' = [value |-> Switch, at |-> r.seen]
      BY <1>4 DEF Off, Verified, Observe
    <3>. HIDE DEF state
    <3>. QED  BY <3>1, <3>2 DEF Remembers, Takes, Seen, WasReady, Inv, TypeOK
  <2>. QED  BY <2>2, <2>3
<1>5. CASE OnNormal(r)
  <2>. DEFINE ready == r.observed - Since(normalSince, "device", r)
                         >= ReadyConfirmation
              state == IF ready THEN "READY" ELSE "STARTING"
  <2>1. Kind(r, state)
    BY <1>5 DEF OnNormal, Verified, Observe, Kind, Good
  <2>2. Remembers(r, state)
    BY <1>5 DEF OnNormal, Verified, Observe, Remembers, Takes, Seen, WasReady, Inv,
                TypeOK
  <2>. QED  BY <2>1, <2>2
<1>6. CASE OnAbnormal(r)
  <2>. DEFINE late == now - ChangedAt(r) >= StartupWindow
              state == IF WasReady(r) \/ late THEN "UNEXPECTED_FAULT" ELSE "STARTING"
  <2>1. Kind(r, state)
    BY <1>6 DEF OnAbnormal, Verified, Observe, Kind, Good
  <2>2. now \in Int /\ ChangedAt(r) \in Int /\ StartupWindow \in Int
    <3>1. now \in Nat
      BY ReadingMeans DEF Inv
    <3>2. ChangedAt(r) \in Int
      BY PositionMeans, StampsAre
    <3>3. StartupWindow \in Int
      BY ConfigAssumption
    <3>. QED  BY <3>1, <3>2, <3>3
  <2>3. Remembers(r, state)
    <3>1. state # "READY" /\ (state = "STARTING" => ~WasReady(r) /\ ~late)
      OBVIOUS
    <3>2. /\ Switch # "unavailable" /\ ChangedAt(r) # Never
          /\ transition' = Position(r) /\ wasReady' = WasReady(r)
          /\ lastSwitch' = [value |-> Switch, at |-> r.seen]
      BY <1>6 DEF OnAbnormal, Verified, Observe
    <3>3. ~late => now - ChangedAt(r) < StartupWindow
      BY <2>2
    <3>. HIDE DEF state, late
    <3>. QED  BY <3>1, <3>2, <3>3 DEF Remembers, Takes, Seen, WasReady, Inv, TypeOK
  <2>. QED  BY <2>1, <2>3
<1>. QED  BY <1>1, <1>2, <1>3, <1>4, <1>5, <1>6

-----------------------------------------------------------------------------
(* Each step keeps the invariant.                                            *)
LEMMA EvaluationStep ==
  ASSUME Inv, NEW r \in Readings, NEW state \in States,
         Kind(r, state), Remembers(r, state)
  PROVE  Inv'
<1>1. /\ UNCHANGED <<now, entity, dated>>
      /\ shown' = [state |-> state, normal |-> Normal]
      /\ calm' = IF Good(state) THEN Follow(r) ELSE Never
      /\ readied' = (readied \/ state = "READY") /\ lastObserved' = r.observed
  BY AssessMeans DEF Kind
<1>2. /\ r.observed \in Times /\ r.seen \in Times /\ now \in Nat
      /\ r.observed <= r.seen /\ r.seen <= now
      /\ entity["switch"].changed <= r.seen
      /\ entity["switch"].changed \in Times
  BY ReadingMeans, KeysAre DEF Inv
<1>3. /\ Remembered(normalSince, "device") /\ Remembered(zeroSince, "power")
      /\ normalSince \in Stamps /\ zeroSince \in Stamps
      /\ calm \in Stamps /\ lastObserved \in Stamps
  BY DEF Inv, CalmOK, TypeOK
<1>4. /\ Since(normalSince, "device", r) \in Times
      /\ \/ Follow(r) <= Since(normalSince, "device", r)
         \/ /\ {"switch", "device"} \subseteq dated
            /\ entity["switch"].changed <= Since(normalSince, "device", r)
  BY <1>3, SinceMeans
<1>5. /\ Since(zeroSince, "power", r) \in Times
      /\ \/ Follow(r) <= Since(zeroSince, "power", r)
         \/ /\ {"switch", "power"} \subseteq dated
            /\ entity["switch"].changed <= Since(zeroSince, "power", r)
  BY <1>3, SinceMeans
<1>6. /\ ChangedAt(r) \in Stamps /\ ChangedAt(r) <= entity["switch"].changed
      /\ "switch" \in dated => ChangedAt(r) = entity["switch"].changed
      /\ readied => ~Moved(r)
  BY PositionMeans
<1>7. Follow(r) \in Times /\ Follow(r) <= r.observed
  <2>1. Follow(r) \in Times
    BY <1>2, <1>3 DEF Follow, Stamps
  <2>2. CASE calm = Never \/ Broken(r) \/ Moved(r)
    BY <1>2, <2>2 DEF Follow, Times
  <2>3. CASE ~(calm = Never \/ Broken(r) \/ Moved(r))
    <3>1. Follow(r) = calm /\ calm \in Times /\ calm <= lastObserved
      BY <1>3, <2>3 DEF Follow, Stamps, Inv, CalmOK
    <3>2. lastObserved \in Times
      BY <1>3, <3>1, ConfigAssumption DEF Stamps, Times, Never
    <3>3. ~(r.observed < lastObserved)
      BY <2>3, <3>2, StampsAre DEF Broken
    <3>. QED  BY <1>2, <3>1, <3>2, <3>3 DEF Times
  <2>. QED  BY <2>1, <2>2, <2>3
<1>8. /\ Switch \in {"on", "off", "unavailable"}
      /\ Switch' = Switch /\ Normal' = Normal
  <2>1. Values["switch"] = {"on", "off", "unavailable"}
    BY DEF Values
  <2>2. entity["switch"].value \in Values["switch"]
    BY KeysAre DEF Inv, TypeOK
  <2>3. Switch' = Switch /\ Normal' = Normal
    BY <1>1 DEF Normal, Value, Switch
  <2>. QED  BY <2>1, <2>2, <2>3 DEF Value, Switch
<1>9. TypeOK'
  <2>1. calm' \in Stamps /\ lastObserved' \in Stamps
    BY <1>1, <1>2, <1>7, StampsAre
  <2>2. /\ normalSince' \in Stamps /\ zeroSince' \in Stamps
        /\ zeroSince' = Never \/ normalSince' = Never
    BY <1>4, <1>5, StampsAre DEF Kind, Confirming
  <2>3. {transition', lastSwitch'} \subseteq
          [value : {"on", "off", "none"}, at : Stamps]
    <3>. DEFINE Positions == [value : {"on", "off", "none"}, at : Stamps]
    <3>1. transition \in Positions /\ lastSwitch \in Positions
      BY DEF Inv, TypeOK
    <3>2. Switch # "unavailable" =>
            Position(r) \in Positions /\ Seen(r) \in Positions
      BY <1>2, <1>6, <1>8, StampsAre DEF Seen, Position
    <3>. HIDE DEF Positions
    <3>3. transition' \in Positions /\ lastSwitch' \in Positions
      BY <3>1, <3>2 DEF Remembers, Ignores, Takes
    <3>. QED  BY <3>3 DEF Positions
  <2>4. wasReady' \in BOOLEAN /\ readied' \in BOOLEAN
    BY <1>1 DEF Remembers, Ignores, Takes, Inv, TypeOK
  <2>5. shown'.state \in States
    BY <1>1
  <2>. QED  BY <1>1, <2>1, <2>2, <2>3, <2>4, <2>5 DEF Inv, TypeOK
<1>10. PositionOK'
  <2>1. /\ transition' = transition \/ transition' = Position(r)
        /\ lastSwitch' = lastSwitch \/ lastSwitch' = Seen(r)
    BY DEF Remembers, Ignores, Takes
  <2>2. CASE transition' = transition /\ lastSwitch' = lastSwitch
    BY <1>1, <1>8, <2>2 DEF Inv, PositionOK
  <2>3. Position(r).at <= now
    <3>1. entity["switch"].changed \in Int /\ entity["switch"].changed <= now
      BY <1>2 DEF Times
    <3>2. ChangedAt(r) \in Int
      BY <1>6, StampsAre
    <3>. QED  BY <1>2, <1>6, <3>1, <3>2 DEF Position
  <2>. QED  BY <1>1, <1>2, <1>6, <1>8, <2>1, <2>3 DEF Inv, PositionOK, Position, Seen
<1>11. ReadyOK'
  <2>1. readied' /\ ~readied =>
          state = "READY" /\ Takes(r, state)
    BY <1>1 DEF Remembers
  <2>2. ASSUME readied
        PROVE  /\ wasReady' /\ transition' = transition
               /\ lastSwitch'.value = Switch
    <3>1. wasReady /\ ~Moved(r) /\ lastSwitch.value = Switch
      BY <1>6, <2>2 DEF Inv, ReadyOK
    <3>2. Position(r) = transition
      BY <3>1 DEF Moved
    <3>3. CASE Ignores(r)
      BY <3>1, <3>3 DEF Ignores, Seen
    <3>4. CASE Takes(r, state)
      <4>1. WasReady(r)
        BY <3>1 DEF WasReady
      <4>2. wasReady'
        BY <3>4, <4>1 DEF Takes
      <4>3. transition' = transition /\ lastSwitch'.value = Switch
        BY <3>2, <3>4 DEF Takes, Seen
      <4>. QED  BY <4>2, <4>3
    <3>. QED  BY <3>3, <3>4 DEF Remembers
  <2>3. ASSUME Takes(r, state), state = "READY"
        PROVE  /\ wasReady' /\ transition'.value = Switch /\ transition'.at # Never
               /\ lastSwitch'.value = Switch
               /\ "switch" \in dated => transition'.at = entity["switch"].changed
    BY <1>6, <2>3 DEF Takes, Position, Seen
  <2>4. readied' => /\ wasReady' /\ transition'.value = Switch
                    /\ transition'.at # Never /\ lastSwitch'.value = Switch
                    /\ "switch" \in dated => transition'.at = entity["switch"].changed
    BY <2>1, <2>2, <2>3 DEF Inv, ReadyOK
  <2>5. state = "STARTING" /\ ~Normal => ~readied'
    <3>1. ASSUME state = "STARTING", ~Normal, readied
          PROVE  FALSE
      <4>1. ~WasReady(r)
        BY <3>1 DEF Remembers, Takes
      <4>. QED  BY <1>6, <3>1, <4>1 DEF WasReady, Inv, ReadyOK
    <3>. QED  BY <1>1, <3>1
  <2>. QED  BY <1>1, <1>8, <2>4, <2>5 DEF ReadyOK, NoGraceAfterReady
<1>12. CalmOK'
  <2>1. calm' <= lastObserved'
    BY <1>1, <1>2, <1>7, StampsAre
  <2>2. CASE Confirming(Never, Never)
    BY <2>1, <2>2 DEF Confirming, CalmOK, Remembered
  <2>3. CASE ~Confirming(Never, Never)
    <3>1. Good(state) /\ calm' = Follow(r) /\ calm' # Never
      BY <1>1, <1>7, <2>3, StampsAre DEF Kind, Good
    <3>2. state # "UNAVAILABLE" /\ transition'.at = ChangedAt(r)
      BY <3>1 DEF Good, Remembers, Takes, Position
    <3>3. \/ Confirming(Since(normalSince, "device", r), Never)
          \/ Confirming(Never, Since(zeroSince, "power", r))
      BY <2>3 DEF Kind
    <3>. QED  BY <1>1, <1>4, <1>5, <1>6, <2>1, <3>1, <3>2, <3>3
              DEF Confirming, CalmOK, Remembered
  <2>. QED  BY <2>2, <2>3
<1>. QED  BY <1>9, <1>10, <1>11, <1>12 DEF Inv

LEMMA InvInit == Init => Inv
<1>. SUFFICES ASSUME Init PROVE Inv
  OBVIOUS
<1>1. 0 \in Times /\ Nothing.at = Never /\ Nothing.value = "none"
      /\ Nothing \in [value : {"on", "off", "none"}, at : Stamps]
      /\ Untold.state = "UNAVAILABLE"
  BY ConfigAssumption, StampsAre DEF Times, Nothing, Untold
<1>2. /\ DOMAIN entity = Keys
      /\ \A k \in Keys : entity[k].value \in Values[k] /\ entity[k].changed = 0
  BY KeysAre DEF Init
<1>3. now = 0 /\ dated \in Dated /\ 0 \in 0..0
  BY DEF Init
<1>4. TypeOK
  BY <1>1, <1>2, <1>3, StampsAre DEF Init, TypeOK, States
<1>5. entity["switch"].changed = 0
  BY <1>2, KeysAre
<1>6. PositionOK /\ ReadyOK /\ CalmOK
  BY <1>1, <1>5 DEF Init, PositionOK, ReadyOK, NoGraceAfterReady, CalmOK,
                    Remembered, Untold, Never
<1>. QED  BY <1>4, <1>6 DEF Inv

LEMMA InvStep == Inv /\ [Next]_vars => Inv'
<1>. SUFFICES ASSUME Inv, [Next]_vars PROVE Inv'
  OBVIOUS
<1>. USE DEF ha, memory, vars
<1>1. CASE Evaluate
  <2>1. CASE Unheard
    <3>1. /\ normalSince' = Never /\ zeroSince' = Never /\ calm' = Never
          /\ UNCHANGED <<now, entity, dated, transition, wasReady, lastObserved,
                         lastSwitch>>
          /\ shown' = [state |-> "UNAVAILABLE", normal |-> Normal]
      BY <2>1 DEF Unheard, Confirming, Assess
    <3>2. readied' <=> readied
      BY <2>1 DEF Unheard, Assess
    <3>3. readied' \in BOOLEAN
      BY <2>1 DEF Unheard, Assess
    <3>4. TypeOK'
      BY <3>1, <3>3, StampsAre DEF Inv, TypeOK, States
    <3>5. PositionOK'
      BY <3>1 DEF Inv, PositionOK, Switch, Value
    <3>6. ReadyOK'
      BY <3>1, <3>2 DEF Inv, ReadyOK, NoGraceAfterReady, Switch, Value
    <3>7. lastObserved \in Stamps
      BY DEF Inv, TypeOK
    <3>8. CalmOK'
      BY <3>1, <3>7, StampsAre DEF CalmOK, Remembered
    <3>. QED  BY <3>4, <3>5, <3>6, <3>8 DEF Inv
  <2>2. ASSUME NEW r \in Readings,
               \/ Disconnected(r) \/ Unverified(r) \/ Invalid(r)
               \/ Off(r) \/ OnNormal(r) \/ OnAbnormal(r)
        PROVE  Inv'
    BY <2>2, EvaluationKinds, EvaluationStep
  <2>. QED  BY <1>1, <2>1, <2>2 DEF Evaluate
<1>2. ASSUME NEW k \in Keys, Change(k)
      PROVE  Inv'
  <2>1. PICK v \in Values[k] \ {Value(k)} :
          entity' = [entity EXCEPT ![k] = [value |-> v, changed |-> now]]
    BY <1>2 DEF Change
  <2>2. /\ UNCHANGED <<now, dated, memory, shown, calm>>
        /\ readied' = (readied /\ k # "switch")
        /\ entity["switch"].changed < now
    BY <1>2, KeysAre DEF Change
  <2>3. now \in Nat /\ now \in 0..now /\ entity["switch"].changed \in 0..now
    BY KeysAre, ConfigAssumption DEF Inv, TypeOK, Times
  <2>4. /\ DOMAIN entity' = Keys /\ entity'[k] = [value |-> v, changed |-> now]
        /\ \A j \in Keys \ {k} : entity'[j] = entity[j]
    BY <2>1 DEF Inv, TypeOK
  <2>5. TypeOK'
    <3>1. readied' \in BOOLEAN
      BY <2>2
    <3>2. \A j \in Keys : /\ entity'[j].value \in Values[j]
                          /\ entity'[j].changed \in 0..now
      BY <2>1, <2>3, <2>4 DEF Inv, TypeOK
    <3>. QED  BY <2>2, <2>4, <3>1, <3>2 DEF Inv, TypeOK
  <2>6. CASE k = "switch"
    <3>1. ~readied' /\ entity'["switch"].changed = now
      <4>1. ~readied'
        BY <2>2, <2>6
      <4>. QED  BY <2>4, <2>6, <4>1
    <3>2. PositionOK'
      BY <2>2, <3>1 DEF Inv, PositionOK
    <3>3. ReadyOK'
      BY <3>1 DEF ReadyOK, NoGraceAfterReady
    <3>4. CalmOK'
      BY <2>2 DEF Inv, CalmOK, Remembered
    <3>. QED  BY <2>5, <3>2, <3>3, <3>4 DEF Inv
  <2>7. CASE k # "switch"
    <3>1. entity'["switch"] = entity["switch"] /\ (readied' <=> readied)
      BY <2>2, <2>4, <2>7, KeysAre
    <3>2. PositionOK'
      BY <2>2, <3>1 DEF Inv, PositionOK, Switch, Value
    <3>3. ReadyOK'
      BY <2>2, <3>1 DEF Inv, ReadyOK, NoGraceAfterReady, Switch, Value
    <3>4. CalmOK'
      BY <2>2 DEF Inv, CalmOK, Remembered
    <3>. QED  BY <2>5, <3>2, <3>3, <3>4 DEF Inv
  <2>. QED  BY <2>6, <2>7
<1>3. CASE Tick
  <2>1. /\ now' = now + 1 /\ now \in Nat /\ now' \in Times
        /\ UNCHANGED <<entity, dated, memory, shown, calm, readied>>
    BY <1>3, ConfigAssumption DEF Tick, Inv, TypeOK, Times
  <2>2. TypeOK'
    <3>1. \A k \in Keys : entity[k].changed \in 0..now'
      BY <2>1 DEF Inv, TypeOK
    <3>. QED  BY <2>1, <3>1 DEF Inv, TypeOK
  <2>3. PositionOK'
    <3>1. transition.at \in Int /\ lastSwitch.at \in Int
      BY StampsAre DEF Inv, TypeOK
    <3>2. transition.at <= now /\ lastSwitch.at <= now
      BY DEF Inv, PositionOK
    <3>3. transition.at <= now + 1 /\ lastSwitch.at <= now + 1
      BY <2>1, <3>1, <3>2
    <3>. QED  BY <2>1, <3>3 DEF Inv, PositionOK, Switch, Value
  <2>4. ReadyOK' /\ CalmOK'
    BY <2>1 DEF Inv, ReadyOK, NoGraceAfterReady, CalmOK, Remembered, Switch, Value
  <2>. QED  BY <2>2, <2>3, <2>4 DEF Inv
<1>4. CASE Restart
  <2>1. /\ transition' = Nothing /\ lastSwitch' = Nothing /\ zeroSince' = Never
        /\ normalSince' = Never /\ lastObserved' = Never /\ ~wasReady'
        /\ wasReady' \in BOOLEAN /\ readied' \in BOOLEAN
        /\ shown' = Untold /\ calm' = Never /\ ~readied' /\ UNCHANGED ha
    BY <1>4 DEF Restart
  <2>2. /\ Nothing.at = Never /\ Nothing.value = "none"
        /\ Nothing \in [value : {"on", "off", "none"}, at : Stamps]
        /\ Untold.state = "UNAVAILABLE" /\ Never \in Stamps
    BY StampsAre DEF Nothing, Untold
  <2>3. TypeOK'
    BY <2>1, <2>2 DEF Inv, TypeOK, States
  <2>4. Never <= now /\ Never <= entity["switch"].changed /\ Never <= Never
    BY KeysAre, ConfigAssumption DEF Inv, TypeOK, Times, Never
  <2>5. PositionOK' /\ ReadyOK' /\ CalmOK'
    BY <2>1, <2>2, <2>4 DEF PositionOK, ReadyOK, NoGraceAfterReady, CalmOK, Remembered
  <2>. QED  BY <2>3, <2>5 DEF Inv
<1>5. CASE UNCHANGED vars
  BY <1>5 DEF Inv, TypeOK, PositionOK, ReadyOK, NoGraceAfterReady, CalmOK,
              Remembered, Switch, Value
<1>. QED  BY <1>1, <1>2, <1>3, <1>4, <1>5 DEF Next

LEMMA InvAlways == Spec => []Inv
BY InvInit, InvStep, PTL DEF Spec

-----------------------------------------------------------------------------
(* What an evaluation with a reading shows; nothing else shows a battery state. *)
LEMMA ShowsOnlyEvidence ==
  ASSUME Inv, Next, UNCHANGED ha, shown'.state \in {"READY", "INTENTIONAL_OFF", "STARTING"}
  PROVE  \E r \in Readings : Kind(r, shown'.state) /\ Remembers(r, shown'.state)
                             /\ lastObserved' = r.observed
<1>1. ~\E k \in Keys : Change(k)
  <2>. SUFFICES ASSUME NEW k \in Keys, Change(k) PROVE FALSE
    OBVIOUS
  <2>1. entity[k].changed < now /\ entity'[k].changed = now
    BY DEF Change, Inv, TypeOK
  <2>. QED  BY <2>1, ReadingMeans, ConfigAssumption DEF ha, Inv, TypeOK, Times
<1>2. ~Tick
  BY ConfigAssumption DEF Tick, ha, Inv, TypeOK, Times
<1>3. ~Restart
  BY DEF Restart, Untold
<1>4. ~Unheard
  BY DEF Unheard, Assess
<1>5. PICK r \in Readings : \/ Disconnected(r) \/ Unverified(r) \/ Invalid(r)
                            \/ Off(r) \/ OnNormal(r) \/ OnAbnormal(r)
  BY <1>1, <1>2, <1>3, <1>4 DEF Next, Evaluate
<1>6. PICK state \in States : Kind(r, state) /\ Remembers(r, state)
  BY <1>5, EvaluationKinds
<1>7. shown'.state = state /\ lastObserved' = r.observed
  BY <1>6, AssessMeans DEF Kind
<1>. QED  BY <1>6, <1>7

(* A confirmed feedback has lasted by one of the two kinds of evidence.         *)
LEMMA ConfirmedLasted ==
  ASSUME Inv, NEW r \in Readings, NEW k \in {"device", "power"}, NEW s \in Stamps,
         Remembered(s, k), NEW d \in Nat, calm' = Follow(r),
         r.observed - Since(s, k, r) >= d
  PROVE  Lasted(k, d, r.observed)
<1>. DEFINE since == Since(s, k, r)
<1>1. /\ since \in Times
      /\ k \in dated => entity[k].changed <= since
      /\ \/ calm' <= since
         \/ {"switch", k} \subseteq dated /\ entity["switch"].changed <= since
  BY SinceMeans
<1>2. /\ r.observed \in Int /\ entity[k].changed \in Int
      /\ entity["switch"].changed \in Int
  BY ReadingMeans, KeysAre DEF Inv, Times
<1>3. calm' \in Int
  BY <1>2, StampsAre DEF Follow, Inv, TypeOK
<1>4. since \in Int /\ r.observed - since >= d
  BY <1>1 DEF Times
<1>. HIDE DEF since
<1>. QED  BY <1>1, <1>2, <1>3, <1>4 DEF Lasted

(* The variables always have the types of TypeOK.                             *)
THEOREM TypeCorrect == Spec => []TypeOK
<1>1. Inv => TypeOK
  BY DEF Inv
<1>. QED  BY <1>1, InvAlways, PTL

(* An inverter that was READY gets no second startup allowance                  *)
(* (deye_state.py:155-164).                                                 *)
THEOREM NoGraceCorrect == Spec => []NoGraceAfterReady
<1>1. Inv => NoGraceAfterReady
  BY DEF Inv, ReadyOK
<1>. QED  BY <1>1, InvAlways, PTL

(* READY is only told after a confirmed period of normal feedback               *)
(* (deye_state.py:147-157).                                                 *)
THEOREM ReadyCorrect == Spec => ReadyIsConfirmed
<1>. DEFINE Confirmed == UNCHANGED ha /\ shown'.state = "READY" =>
                           /\ Switch = "on" /\ Normal
                           /\ Lasted("device", ReadyConfirmation, lastObserved')
<1>1. Inv /\ [Next]_vars => [Confirmed]_vars
  <2>. SUFFICES ASSUME Inv, Next, UNCHANGED ha, shown'.state = "READY"
                PROVE  /\ Switch = "on" /\ Normal
                       /\ Lasted("device", ReadyConfirmation, lastObserved')
    OBVIOUS
  <2>1. PICK r \in Readings : Kind(r, "READY") /\ lastObserved' = r.observed
    BY ShowsOnlyEvidence
  <2>2. /\ Switch = "on" /\ Normal
        /\ r.observed - Since(normalSince, "device", r) >= ReadyConfirmation
    BY <2>1 DEF Kind, Good
  <2>3. calm' = Follow(r)
    BY <2>1, AssessMeans DEF Kind, Good, States
  <2>4. Lasted("device", ReadyConfirmation, r.observed)
    BY <2>2, <2>3, ConfirmedLasted, ConfigAssumption DEF Inv, CalmOK, TypeOK
  <2>. QED  BY <2>1, <2>2, <2>4
<1>2. QED  BY <1>1, InvAlways, PTL DEF Spec, ReadyIsConfirmed

(* INTENTIONAL_OFF is only told once the output has settled                     *)
(* (deye_state.py:128-145).                                                 *)
THEOREM OffCorrect == Spec => OffIsSettled
<1>. DEFINE Settled == UNCHANGED ha /\ shown'.state = "INTENTIONAL_OFF" =>
                         /\ Switch = "off" /\ Resting
                         /\ Lasted("power", ShutdownSettle, lastObserved')
<1>1. Inv /\ [Next]_vars => [Settled]_vars
  <2>. SUFFICES ASSUME Inv, Next, UNCHANGED ha, shown'.state = "INTENTIONAL_OFF"
                PROVE  /\ Switch = "off" /\ Resting
                       /\ Lasted("power", ShutdownSettle, lastObserved')
    OBVIOUS
  <2>1. PICK r \in Readings :
          Kind(r, "INTENTIONAL_OFF") /\ lastObserved' = r.observed
    BY ShowsOnlyEvidence
  <2>2. Good("INTENTIONAL_OFF")
    BY DEF Good
  <2>3. calm' = Follow(r)
    BY <2>1, <2>2, AssessMeans DEF Kind, States
  <2>4. /\ Switch = "off" /\ Resting
        /\ r.observed - Since(zeroSince, "power", r) >= ShutdownSettle
    BY <2>1, <2>2 DEF Kind
  <2>5. Lasted("power", ShutdownSettle, r.observed)
    BY <2>3, <2>4, ConfirmedLasted, ConfigAssumption DEF Inv, CalmOK, TypeOK
  <2>. QED  BY <2>1, <2>4, <2>5
<1>2. QED  BY <1>1, InvAlways, PTL DEF Spec, OffIsSettled

(* Both confirmations last as long as they are configured to.                *)
THEOREM ConfirmationsCorrect == Spec => ConfirmationsLast
BY ReadyCorrect, OffCorrect DEF ConfirmationsLast

(* Neither polling nor restarts nor a missing stamp extend the startup          *)
(* allowance (deye_state.py:98).                                             *)
THEOREM StartupCorrect == Spec => StartupIsBounded
<1>. DEFINE Bounded == UNCHANGED ha /\ shown'.state = "STARTING" /\ ~Normal =>
                         now - entity["switch"].changed < StartupWindow
<1>1. Inv /\ [Next]_vars => [Bounded]_vars
  <2>. SUFFICES ASSUME Inv, Next, UNCHANGED ha, shown'.state = "STARTING", ~Normal
                PROVE  now - entity["switch"].changed < StartupWindow
    OBVIOUS
  <2>1. PICK r \in Readings : Remembers(r, "STARTING")
    BY ShowsOnlyEvidence
  <2>2. now - ChangedAt(r) < StartupWindow
    BY <2>1 DEF Remembers, Takes
  <2>3. ChangedAt(r) <= entity["switch"].changed /\ ChangedAt(r) \in Int
    BY PositionMeans, StampsAre
  <2>4. now \in Int /\ entity["switch"].changed \in Int
    BY ReadingMeans, KeysAre DEF Inv, Times
  <2>5. StartupWindow \in Int
    BY ConfigAssumption
  <2>. QED  BY <2>2, <2>3, <2>4, <2>5
<1>2. QED  BY <1>1, InvAlways, PTL DEF Spec, StartupIsBounded
=============================================================================
