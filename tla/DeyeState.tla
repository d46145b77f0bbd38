------------------------------ MODULE DeyeState ------------------------------
(***************************************************************************)
(* DeyeStateAdapter.evaluate (deye_state.py): what the DEYE inverter is      *)
(* doing, concluded from entities that are polled, stamped and reported by   *)
(* somebody else.                                                           *)
(*                                                                         *)
(* Home Assistant is external: an entity has a value and the time at which   *)
(* it took it. The entities of state and fault, which the adapter always      *)
(* combines and whose stamps it takes the later of, are one, "device", which  *)
(* is invalid also when the power is. A reading adds what the reports say of  *)
(* their own age: the oldest of the five and that of the switch. Missing,     *)
(* stale and skewed reports are Unheard. Times are ticks, fine enough that    *)
(* two entities do not change in one.                                       *)
(***************************************************************************)
EXTENDS Integers

CONSTANTS
  StartupWindow, ReadyConfirmation, ShutdownSettle, MaxAge,  \* DeyeStateConfig
  Dated,      \* sets of entities whose last_changed Home Assistant may pass on
  MaxTime     \* bound on the clock

ASSUME ConfigAssumption ==
  /\ StartupWindow \in Nat \ {0} /\ ShutdownSettle \in Nat \ {0}
  /\ ReadyConfirmation \in 1..(StartupWindow - 1)
  /\ MaxAge \in Nat \ {0} /\ MaxTime \in Nat
  /\ Dated \subseteq SUBSET {"switch", "device", "power"}

VARIABLES
  now,
  entity,        \* Home Assistant: the value of an entity and when it took it
  dated,         \* the entities that come with last_changed
  transition,    \* _transition: the switch and when it took that position
  zeroSince,     \* _zero_since
  normalSince,   \* _normal_since
  wasReady,      \* _was_ready
  lastObserved,  \* _last_observed
  lastSwitch,    \* _last_switch: the switch and when it was reported
  shown,         \* the last assessment
  calm,          \* history: the first observation of the evaluations, unbroken
                 \* since, that all found the same good feedback
  readied        \* history: READY since the switch last moved or a restart

ha == <<now, entity, dated>>
memory == <<transition, zeroSince, normalSince, wasReady, lastObserved,
            lastSwitch>>
vars == <<ha, memory, shown, calm, readied>>

Never == -1
Times == 0..MaxTime
Stamps == Times \cup {Never}

Values == [switch |-> {"on", "off", "unavailable"},
           device |-> {"Normal", "Tz_Integ_Fault", "Fault", "invalid"},
           power |-> {"zero", "output"}]
Keys == DOMAIN Values

States == {"INTENTIONAL_OFF", "STOPPING", "STARTING", "READY",
           "UNEXPECTED_FAULT", "UNAVAILABLE"}

Later(s, t) == IF s > t THEN s ELSE t
Value(k) == entity[k].value
Switch == Value("switch")
Valid == Value("device") # "invalid"
Normal == Value("device") = "Normal"
Resting == Value("device") # "Fault" /\ Value("power") = "zero"

(* What the reports of an evaluation may say: none is older than MaxAge, and  *)
(* that of the switch is no older than its value.                           *)
Readings ==
  { r \in [observed : Times, seen : Times] :
      /\ now - MaxAge <= r.observed /\ r.observed <= r.seen /\ r.seen <= now
      /\ entity["switch"].changed <= r.seen }

-----------------------------------------------------------------------------
(* The conversions.                                                         *)
Broken(r) ==
  /\ lastObserved # Never
  /\ \/ r.observed < lastObserved
     \/ r.observed - lastObserved > MaxAge

Kept_Always(since, r) == since            \* mutated: a gap is forgiven

Kept(since, r) == IF Broken(r) THEN Never ELSE since

(* When the switch took its position, or the earliest it can have.           *)
ChangedAt_Late(r) ==                      \* mutated: when it was first seen
  IF "switch" \in dated THEN entity["switch"].changed
  ELSE IF lastSwitch.at # Never /\ lastSwitch.value # Switch THEN r.seen
  ELSE IF transition.value = Switch THEN transition.at
  ELSE Never

ChangedAt(r) ==
  IF "switch" \in dated THEN entity["switch"].changed
  ELSE IF /\ lastSwitch.at # Never /\ lastSwitch.value # Switch
          /\ r.seen > lastSwitch.at
       THEN lastSwitch.at
  ELSE IF transition.value = Switch THEN transition.at
  ELSE Never

Position(r) == [value |-> Switch, at |-> ChangedAt(r)]
Moved(r) == Position(r) # transition

ConfirmedFrom(r) ==
  IF "switch" \in dated THEN entity["switch"].changed ELSE r.seen

Entered(k, r) == IF k \in dated THEN entity[k].changed ELSE r.observed

Since_Unstamped(remembered, k, r) ==     \* mutated: the stamp is forgotten
  IF Moved(r) THEN Later(ConfirmedFrom(r), Entered(k, r))
  ELSE IF Kept(remembered, r) = Never THEN r.observed
  ELSE Kept(remembered, r)

(* Since when the feedback k is what it is: what a transition makes of it,    *)
(* else what is remembered, else this observation; never before its stamp.   *)
Since(remembered, k, r) ==
  LET start == IF Moved(r) THEN Later(ConfirmedFrom(r), Entered(k, r))
               ELSE IF Kept(remembered, r) = Never THEN r.observed
               ELSE Kept(remembered, r)
  IN IF k \in dated THEN Later(start, entity[k].changed) ELSE start

-----------------------------------------------------------------------------
(* An evaluation. Its assessment is state, and calm and readied follow it.    *)
Assess(state, r) ==
  LET good == \/ state \in {"READY", "INTENTIONAL_OFF"}
              \/ state = "STARTING" /\ Normal
              \/ state = "STOPPING" /\ Resting
  IN /\ shown' = [state |-> state, normal |-> Normal]
     /\ calm' = IF ~good THEN Never
                ELSE IF calm = Never \/ Broken(r) \/ Moved(r) THEN r.observed
                ELSE calm
     /\ readied' = (readied \/ state = "READY")
     /\ UNCHANGED ha

Confirming(normal, zero) == normalSince' = normal /\ zeroSince' = zero

Unheard ==
  /\ Confirming(Never, Never)
  /\ Assess("UNAVAILABLE", [observed |-> Never, seen |-> Never])
  /\ UNCHANGED <<transition, wasReady, lastObserved, lastSwitch>>

Disconnected_Forgets(r) ==                \* mutated: and READY is forgotten
  /\ lastObserved' = r.observed
  /\ Confirming(Never, Never)
  /\ wasReady' = FALSE
  /\ Assess("UNAVAILABLE", r)
  /\ UNCHANGED <<transition, lastSwitch>>

Disconnected(r) ==
  /\ lastObserved' = r.observed
  /\ Confirming(Never, Never)
  /\ Assess("UNAVAILABLE", r)
  /\ UNCHANGED <<transition, wasReady, lastSwitch>>

(* What every evaluation of a connected switch remembers.                    *)
Observe(r) ==
  /\ Switch # "unavailable"
  /\ lastObserved' = r.observed
  /\ lastSwitch' = [value |-> Switch, at |-> r.seen]

Unverified(r) ==
  /\ Observe(r) /\ ChangedAt(r) = Never
  /\ Confirming(Never, Never)
  /\ Assess("UNAVAILABLE", r)
  /\ UNCHANGED <<transition, wasReady>>

WasReady(r) == wasReady /\ ~Moved(r)

Verified(r) ==
  /\ Observe(r) /\ ChangedAt(r) # Never
  /\ transition' = Position(r)

Invalid(r) ==
  /\ Verified(r) /\ ~Valid
  /\ Confirming(Never, Never)
  /\ wasReady' = WasReady(r)
  /\ Assess("UNAVAILABLE", r)

Off(r) ==
  /\ Verified(r) /\ Valid /\ Switch = "off"
  /\ wasReady' = WasReady(r)
  /\ LET since == Since(zeroSince, "power", r)
     IN /\ Confirming(Never, IF Resting THEN since ELSE Never)
        /\ Assess(IF Value("device") = "Fault" THEN "UNEXPECTED_FAULT"
                  ELSE IF Resting /\ r.observed - since >= ShutdownSettle
                  THEN "INTENTIONAL_OFF" ELSE "STOPPING", r)

OnNormal(r) ==
  /\ Verified(r) /\ Valid /\ Switch = "on" /\ Normal
  /\ LET since == Since(normalSince, "device", r)
         ready == r.observed - since >= ReadyConfirmation
     IN /\ Confirming(since, Never)
        /\ wasReady' = (ready \/ WasReady(r))
        /\ Assess(IF ready THEN "READY" ELSE "STARTING", r)

OnAbnormal(r) ==
  /\ Verified(r) /\ Valid /\ Switch = "on" /\ ~Normal
  /\ Confirming(Never, Never)
  /\ wasReady' = WasReady(r)
  /\ Assess(IF WasReady(r) \/ now - ChangedAt(r) >= StartupWindow
            THEN "UNEXPECTED_FAULT" ELSE "STARTING", r)

Evaluate ==
  \/ Unheard
  \/ \E r \in Readings :
       \/ Disconnected(r) \/ Unverified(r) \/ Invalid(r)
       \/ Off(r) \/ OnNormal(r) \/ OnAbnormal(r)

-----------------------------------------------------------------------------
(* The house, and a start of AppDaemon.                                     *)
Change(k) ==
  /\ \A j \in Keys : entity[j].changed < now
  /\ \E v \in Values[k] \ {Value(k)} :
       entity' = [entity EXCEPT ![k] = [value |-> v, changed |-> now]]
  /\ readied' = (readied /\ k # "switch")
  /\ UNCHANGED <<now, dated, memory, shown, calm>>

Tick ==
  /\ now < MaxTime
  /\ now' = now + 1
  /\ UNCHANGED <<entity, dated, memory, shown, calm, readied>>

Nothing == [value |-> "none", at |-> Never]
Untold == [state |-> "UNAVAILABLE", normal |-> FALSE]

Restart ==
  /\ transition' = Nothing /\ lastSwitch' = Nothing
  /\ zeroSince' = Never /\ normalSince' = Never /\ lastObserved' = Never
  /\ wasReady' = FALSE
  /\ shown' = Untold /\ calm' = Never /\ readied' = FALSE
  /\ UNCHANGED ha

Init ==
  /\ now = 0
  /\ dated \in Dated
  /\ \E on \in Values["switch"], is \in Values["device"], out \in Values["power"] :
       entity = [switch |-> [value |-> on, changed |-> 0],
                 device |-> [value |-> is, changed |-> 0],
                 power |-> [value |-> out, changed |-> 0]]
  /\ transition = Nothing /\ lastSwitch = Nothing
  /\ zeroSince = Never /\ normalSince = Never /\ lastObserved = Never
  /\ wasReady = FALSE
  /\ shown = Untold /\ calm = Never /\ readied = FALSE

Next == Evaluate \/ (\E k \in Keys : Change(k)) \/ Tick \/ Restart

Spec == Init /\ [][Next]_vars
-----------------------------------------------------------------------------
TypeOK ==
  /\ now \in Times /\ dated \in Dated
  /\ DOMAIN entity = Keys
  /\ \A k \in Keys : entity[k].value \in Values[k] /\ entity[k].changed \in 0..now
  /\ {transition, lastSwitch} \subseteq
       [value : {"on", "off", "none"}, at : Stamps]
  /\ {zeroSince, normalSince, lastObserved, calm} \subseteq Stamps
  /\ zeroSince = Never \/ normalSince = Never
  /\ {wasReady, readied} \subseteq BOOLEAN
  /\ shown.state \in States

(* Evidence that the feedback k of the present switch position has lasted for *)
(* d: by the stamps of Home Assistant alone, or by observations that found    *)
(* nothing else, unbroken, and no stamp that says otherwise.                 *)
Lasted(k, d, at) ==
  /\ k \in dated => at - entity[k].changed >= d
  /\ \/ at - calm' >= d
     \/ /\ {"switch", k} \subseteq dated
        /\ at - entity["switch"].changed >= d

(* "Normal plus OK must persist for ready_confirmation_s"                     *)
(* (docs/deye-state-freshness-adapter.md:20): whatever was polled, lost,       *)
(* repeated or restarted before, READY is told at the end of such a period    *)
(* (deye_state.py:107-115, 147-157).                                         *)
ReadyIsConfirmed ==
  [][ UNCHANGED ha /\ shown'.state = "READY" =>
        /\ Switch = "on" /\ Normal
        /\ Lasted("device", ReadyConfirmation, lastObserved') ]_vars

(* "near-zero AC output settled for shutdown_settle_s" (same, line 15)         *)
(* (deye_state.py:128-145).                                                 *)
OffIsSettled ==
  [][ UNCHANGED ha /\ shown'.state = "INTENTIONAL_OFF" =>
        /\ Switch = "off" /\ Resting
        /\ Lasted("power", ShutdownSettle, lastObserved') ]_vars

(* Neither answer comes before its confirmation.                            *)
ConfirmationsLast == ReadyIsConfirmed /\ OffIsSettled

(* "polling latency cannot extend the startup allowance" (deye_state.py:98):   *)
(* nor can restarts, lost reports or a missing stamp. An inverter that is not  *)
(* normal is STARTING no longer than the window after its switch came on.     *)
StartupIsBounded ==
  [][ UNCHANGED ha /\ shown'.state = "STARTING" /\ ~Normal =>
        now - entity["switch"].changed < StartupWindow ]_vars

(* "UNEXPECTED_FAULT: ... failure after READY" (docs/..., line 21): of the      *)
(* process that saw READY, while the switch stays, whatever else happens       *)
(* (deye_state.py:155-164).                                                 *)
NoGraceAfterReady ==
  shown.state = "STARTING" /\ ~shown.normal => ~readied
=============================================================================
