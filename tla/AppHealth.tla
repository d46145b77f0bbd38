------------------------------ MODULE AppHealth ------------------------------
(***************************************************************************)
(* EnergyV2App (app.py): when its ticks run, what they do to the switch that  *)
(* enables Energy V2, and what they tell of the app's own health while the    *)
(* helpers that tell it may fail.                                            *)
(*                                                                         *)
(* AppDaemon runs the callbacks of the app one at a time. A tick reads the     *)
(* house when it starts, and then makes its calls one by one. The helpers that  *)
(* the shadow and the flow tick write are one, MODE, but for STATUS, the health,  *)
(* and so are those of the control tick, CONTROL; what they say is left out. A    *)
(* call may fail, with or without effect, a tick raise, and AppDaemon restart,    *)
(* while the house is faulty.                                                *)
(***************************************************************************)
EXTENDS Naturals, Sequences

CONSTANT Threshold       \* _PUBLICATION_FAILURE_THRESHOLD

ASSUME HealthAssumption == Threshold \in Nat \ {0}

VARIABLES
  house,      \* external: the switches of the operator, whether safe_to_enable
              \* has a reason, and whether calls may fail
  event,      \* a watched entity has changed
  armed,      \* _debounce_handle
  running,    \* the ticks whose running flag is set
  doing,      \* the tick that runs, or "nothing"
  calls,      \* the calls that it has still to make
  core,       \* _core_app_status
  book,       \* _publication_failures, _publication_degraded, and the status
              \* that the helper shows
  unseen      \* history: no shadow tick has begun since a change of a watched
              \* entity

vars == <<house, event, armed, running, doing, calls, core, book, unseen>>

Ticks == {"shadow", "flow", "control"}
Helpers == {"STATUS", "MODE", "CONTROL"}
Watched == {"enabled", "shadow", "unsafe"}
Switches == Watched \cup {"control", "faulty"}
Statuses == {"STARTING", "HEALTHY", "DEGRADED", "CONFIG_ERROR"}

-----------------------------------------------------------------------------
(* _set_helper and its accounts, as functions of the book b.                 *)
Overdue_Forgotten(failures) == FALSE      \* mutated: one success heals all

Overdue(failures) == \E h \in Helpers : failures[h] >= Threshold

Succeed_Kept(b, h, shown) ==          \* mutated: the failures are not forgotten
  [b EXCEPT !.degraded = Overdue(b.failures), !.shown = shown]

Succeed(b, h, shown) ==
  LET failures == [b.failures EXCEPT ![h] = 0]
  IN [failures |-> failures, degraded |-> Overdue(failures), shown |-> shown]

(* Beyond the threshold, the number of failures tells nothing.               *)
Fail(b, h, shown) ==
  LET n == IF b.failures[h] < Threshold THEN b.failures[h] + 1 ELSE Threshold
  IN [failures |-> [b.failures EXCEPT ![h] = n],
      degraded |-> b.degraded \/ (h # "STATUS" /\ n = Threshold),
      shown |-> shown]

Failing(b, h, shown) ==
  IF house.faulty THEN {Fail(b, h, b.shown), Fail(b, h, shown)} ELSE {}

TellStatus(b, status) == {Succeed(b, "STATUS", status)} \cup Failing(b, "STATUS", status)

(* A success that ends the degradation restores the core status; a failure     *)
(* that is one too many tells it.                                            *)
AfterSuccess(b, s) == IF b.degraded /\ ~s.degraded THEN TellStatus(s, core) ELSE {s}

AfterFailure(f, h) ==
  IF f.failures[h] = Threshold THEN TellStatus(f, "DEGRADED") ELSE {f}

SetHelper(b, h) ==
  AfterSuccess(b, Succeed(b, h, b.shown))
    \cup UNION {AfterFailure(f, h) : f \in Failing(b, h, b.shown)}

(* _set_core_app_status.                                                    *)
Published(b, status) ==
  IF b.degraded /\ status = "HEALTHY" THEN "DEGRADED" ELSE status

-----------------------------------------------------------------------------
ShadowCalls_Once ==                   \* mutated: a fault that is known is not handled
  <<"MODE">> \o
  IF house.unsafe /\ core = "CONFIG_ERROR" THEN <<>>
  ELSE IF house.unsafe /\ house.shadow /\ house.enabled THEN <<"CONFIG_ERROR", "OFF">>
  ELSE IF house.unsafe /\ ~house.shadow THEN <<"CONFIG_ERROR">> ELSE <<"HEALTHY">>

(* The calls of a tick: a helper that it writes, a status that it sets, or the  *)
(* switch that it turns off.                                                 *)
ShadowCalls ==
  <<"MODE">> \o
  IF house.unsafe /\ house.shadow /\ house.enabled THEN <<"CONFIG_ERROR", "OFF">>
  ELSE IF house.unsafe /\ ~house.shadow THEN <<"CONFIG_ERROR">> ELSE <<"HEALTHY">>

CallsOf(tick) ==
  CASE tick = "shadow" -> ShadowCalls
    [] tick = "flow" -> <<"MODE">>
    [] tick = "control" -> IF house.control THEN <<"CONTROL">> ELSE <<>>

Rescue(tick) ==
  IF tick = "control" THEN <<"CONTROL">> ELSE <<"DEGRADED">>

-----------------------------------------------------------------------------
(* The house, and the listener of its watched entities.                      *)
Change(s) ==
  /\ house' = [house EXCEPT ![s] = ~house[s]]
  /\ event' = (event \/ s \in Watched)
  /\ unseen' = (unseen \/ s \in Watched)
  /\ UNCHANGED <<armed, running, doing, calls, core, book>>

Schedule_Dropped ==                   \* mutated: a pending timer is only cancelled
  /\ doing = "nothing" /\ event /\ event' = FALSE
  /\ armed' = ~armed
  /\ UNCHANGED <<house, running, doing, calls, core, book, unseen>>

(* The pending timer is cancelled, and another armed.                        *)
Schedule ==
  /\ doing = "nothing" /\ event /\ event' = FALSE
  /\ armed' = TRUE
  /\ UNCHANGED <<house, running, doing, calls, core, book, unseen>>

-----------------------------------------------------------------------------
(* A tick that finds its flag set is skipped. One that raises goes on with      *)
(* what its handler tells.                                                   *)
Begin(tick) ==
  /\ doing = "nothing"
  /\ IF tick \in running
     THEN UNCHANGED <<running, doing, calls, unseen>>
     ELSE /\ running' = running \cup {tick} /\ doing' = tick
          /\ \/ calls' = CallsOf(tick)
             \/ house.faulty /\ calls' = Rescue(tick)
          /\ unseen' = (unseen /\ tick # "shadow")
  /\ UNCHANGED <<house, event, core, book>>

Timer(tick) == Begin(tick) /\ UNCHANGED armed

Debounced == armed /\ armed' = FALSE /\ Begin("shadow")

SetStatus ==
  /\ calls # <<>> /\ Head(calls) \in Statuses
  /\ core' = Head(calls)
  /\ book' \in TellStatus(book, Published(book, Head(calls)))
  /\ calls' = Tail(calls)
  /\ UNCHANGED <<house, event, armed, running, doing, unseen>>

Write ==
  /\ calls # <<>> /\ Head(calls) \in Helpers
  /\ book' \in SetHelper(book, Head(calls))
  /\ calls' = Tail(calls)
  /\ UNCHANGED <<house, event, armed, running, doing, core, unseen>>

(* turn_off, which the listener hears of; its exception is the tick's.        *)
TurnOff ==
  /\ calls # <<>> /\ Head(calls) = "OFF"
  /\ \/ /\ house' = [house EXCEPT !.enabled = FALSE]
        /\ event' = (event \/ house.enabled) /\ unseen' = (unseen \/ house.enabled)
        /\ calls' = Tail(calls)
     \/ /\ house.faulty /\ calls' = Rescue("shadow")
        /\ UNCHANGED <<house, event, unseen>>
  /\ UNCHANGED <<armed, running, doing, core, book>>

End_Raised ==                         \* mutated: an exception leaves the flag set
  /\ doing # "nothing" /\ calls = <<>>
  /\ running' = IF core = "DEGRADED" THEN running ELSE running \ {doing}
  /\ doing' = "nothing"
  /\ UNCHANGED <<house, event, armed, calls, core, book, unseen>>

End ==
  /\ doing # "nothing" /\ calls = <<>>
  /\ running' = running \ {doing} /\ doing' = "nothing"
  /\ UNCHANGED <<house, event, armed, calls, core, book, unseen>>

Step == SetStatus \/ Write \/ TurnOff \/ End

(* initialize, which arms a shadow tick too.                                 *)
Restart ==
  /\ house.faulty
  /\ event' = FALSE /\ armed' = TRUE /\ running' = {}
  /\ doing' = "initialize"
  /\ calls' = <<"STARTING", "MODE">>
  /\ core' = "STARTING"
  /\ book' = [book EXCEPT !.failures = [h \in Helpers |-> 0], !.degraded = FALSE]
  /\ UNCHANGED <<house, unseen>>

Init ==
  /\ house = [s \in Switches |-> s = "shadow"]
  /\ event = FALSE /\ armed = TRUE /\ running = {}
  /\ doing = "initialize" /\ unseen = FALSE
  /\ calls = <<"STARTING", "MODE">>
  /\ core = "STARTING"
  /\ book = [failures |-> [h \in Helpers |-> 0], degraded |-> FALSE,
             shown |-> "STARTING"]

Next ==
  \/ \E s \in Switches : Change(s)
  \/ Schedule \/ Debounced \/ Step \/ Restart
  \/ \E tick \in Ticks : Timer(tick)

(* run_every calls each tick again and again, and the worker thread takes the   *)
(* callbacks in the order in which they come; no property needs the flow tick.  *)
Spec ==
  /\ Init /\ [][Next]_vars
  /\ WF_vars(Step)
  /\ SF_vars(Timer("shadow")) /\ SF_vars(Timer("control"))
-----------------------------------------------------------------------------
TypeOK ==
  /\ house \in [Switches -> BOOLEAN]
  /\ {event, armed, unseen} \subseteq BOOLEAN
  /\ running \subseteq Ticks /\ (doing \in Ticks => running = {doing})
  /\ (doing = "nothing" => calls = <<>> /\ running = {})
  /\ core \in Statuses
  /\ book.failures \in [Helpers -> 0..Threshold] /\ book.degraded \in BOOLEAN
  /\ book.shown \in Statuses

(* The app is not told to be healthy while some other helper has failed as often  *)
(* in a row as it may: unless telling so failed itself (app.py:695-715).         *)
HealthIsHonest ==
  /\ TypeOK
  /\ book.shown = "HEALTHY" =>
       \/ \A h \in Helpers \ {"STATUS"} : book.failures[h] < Threshold
       \/ book.failures["STATUS"] > 0

(* No change of a watched entity waits for the quarter-hourly tick: a debounced    *)
(* one is armed, or will be, however ticks and changes fall (app.py:223-235).     *)
ChangeIsArmed == unseen => event \/ armed

(* When nothing fails any more and no loop is switched off, the status that the    *)
(* ticks find is the status shown, whatever has failed before (app.py:695-715).   *)
StatusRecovers ==
  <>[](~house.faulty /\ house.control /\ ~house.unsafe)
    => <>[](book.shown \in {"HEALTHY", "STARTING"})

(* A reason not to be enabled that stays has the switch turned off again, as often *)
(* as it is turned on, in shadow mode (app.py:317-327).                          *)
UnsafeIsDisabled ==
  <>[](~house.faulty /\ house.unsafe /\ house.shadow) => []<>~house.enabled
=============================================================================
