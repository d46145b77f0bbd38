# home-assistant-energy-v2: verification project

The repository holds the AppDaemon applications of a house with two battery
inverters (SolaX and DEYE): a planner that publishes trading advice, a *shadow*
executor that turns advice into inverter transitions it would command, and older
control loops. This directory holds TLA+ models of its stateful core, the TLC
runs that check them and the TLAPS proofs about them.

All paths below are relative to `src/apps/energy_v2/` unless they say otherwise.

## Inventory

| part | state it keeps | operations | what is hard |
|---|---|---|---|
| Transition (`executor/transition.py`) | `TransitionProgress`: phase, roles, owners, expected command, effective target, evidence validity | `plan_transition`, `advance_transition` (12 phases, a dozen failures) | order of phases, evidence going stale between evaluations, deadlines, the neutral dwell over two sources |
| Command lifecycle (`executor/command_lifecycle.py`, `executor/models.py`) | one `CommandRecord` | advance, confirm readback, response and stability, dispatch | observations late, repeated, out of order, of another epoch |
| Engine and reconciliation (`executor/engine.py`, `reconciliation.py`, `state_machine.py`, `safety.py`, `invariants.py`) | none of its own: a function of the runtime's state and one snapshot | `evaluate_executor`, `evaluate_reconciliation` | precedence of a dozen refusals; what a refusal does to a transition in flight |
| Executor runtime (`executor_runtime.py`, `executor_state_store.py`, `executor_shadow_app.py`) | current state, transition progress, epoch, reconciliation flag, state file, published entities | `tick`, `_persist`, `_publish`, `_fail_closed`, restart | exceptions at every step, crashes between steps, partial publications |
| Advisory planner (`advisory.py`, `advisory_app.py`) | last plan, publication id, published entities | `tick`, `evaluate_advisory` | publication of several entities that is not atomic, failures half way, restarts |
| Trading planner (`trading/`) | none | the policy of the reserve, the optimisation, the overlay of DEYE's states, rendering | the policy's slots over midnight and at the ends of a horizon; merging of the overlay's blocks; a floating-point optimisation |
| Phase 3 application (`app.py`, `telemetry.py`, `config.py`, ...) | the debounce timer, running flags, failure counts per helper, the core status | `_shadow_tick`, `_flow_tick`, `_control_tick`, the listener, `_set_helper` | mixed cadences that share trackers, a debounce that changes re-arm, helpers that fail while they report failures |
| Charge controller (`charge_controller.py`) | state, time-weighted window | `evaluate` | hysteresis and confirmation timers |
| DEYE state adapter (`deye_state.py`) | position of the switch, two confirmation clocks, `_was_ready`, last observation | `evaluate` | stamps that are missing, late, repeated; an allowance that nothing may extend |
| Shadow control core (`shadow_controller.py`, `allocator.py`) | last command, slew state | `evaluate` | direction change through a neutral stop, stale slew |
| Flow limiter (`flow.py`, `export_budget.py`) | debounced conditions, a rolling window, a fixed quarter | `assess`, `add_sample`, `average`, `budget` | window boundaries, gaps in samples, two ticks that sample the same flow |
| Energy V3 shadow app (`src/apps/energy_v3/`) | a pending flag; the entities | `_evaluate`, `current_target_from_states`, `decide`, `_publish` | forecasts published one entity at a time, a cache that is not told of repeated ones, nine calls of which any may fail, changes while it evaluates |
| Adapters, contract, diagnostics, packages, scripts | none | conversions | none that needs a model |

How they interact: the advisory app publishes two entities, `planner_intent` and
`planner_status`; the executor runtime reads them together with telemetry on a
timer, builds one snapshot, hands it with its own state to the pure engine,
which calls reconciliation or the transition; the result is stored in a file
(information only) and published in four entities. Command records are the
caller's: the shadow runtime never supplies one. The other loops are separate
AppDaemon callbacks that share nothing with these but Home Assistant's entities.

What makes each part correct:

* Transition: break before make (nothing new is driven before every old writer is
  released, after a continuous neutral period); a command within the headroom that
  was last read; one battery driven, DEYE only with SolaX held; the progress valid
  at all times; an end by the deadline.
* Command lifecycle: evidence is only added, terminal means terminal, other epochs
  are inert, every result is a record the model accepts.
* Engine and runtime: no transition survives an abort, no authority before
  reconciliation, the published snapshot coherent, the file of the current epoch.
* Advisory publication: a decoded intent is the intent of a committed generation.
* Advisory planning: advice fits its inputs, replanning is debounced, advice returns.
* Trading policy and overlay: the reserve is exported in no slot the policy closes, and
  demanded back where it is; DEYE is off exactly where it is not needed.
* Shadow control and charging: rest before motion, confirmations before effect, limits
  from what was just measured, every wait ends.
* DEYE state: READY and INTENTIONAL_OFF only after their periods; no allowance is
  extended or given again.
* Flow limiter: the average and the quarter are those of the export itself; a violation
  is told while it lasts, and counted once.
* Phase 3 application: no change is lost, the health told is honest and recovers, an
  unsafe enable is undone.
* Energy V3: no forecasts of different periods; no discharge that the evidence does not
  bear; a decision to act stands only whole; no change is lost; an unsafe house has its
  decision withdrawn.

## Modules

| module | models | relation to the code |
|---|---|---|
| `CommandLifecycle` | `executor/command_lifecycle.py` over `CommandRecord` | one action per public function; arguments (times, epochs, observations) by `\E`; the candidate a call builds is `attempt`, the caller's record is `record`, so a raise is `attempt` refused and `record` unchanged |
| `HandOver` | the abstract promise of a transition | three actions: release everything, grant, drive one |
| `Transition` | `executor/transition.py` as `engine.py` drives it | one action per way an evaluation can end: one per phase advance, one per failure, `Wait` and `Defer` for evaluations that keep the phase; `Tick` is the clock, `Respond` the caller's command record |
| `ExecutorRuntime` | `executor_runtime.py` with `engine.py` and `reconciliation.py` as it calls them | `Evaluate` is `build`, `evaluate_executor` and the assignments after it; `Save`, `Publish`, `SaveFailure` are the calls that leave the process, one action each; `Raise` and `AbandonFailure` are the exceptions they may end in; `Restart` is a kill anywhere and `__init__` |
| `PlannerAuthority` | the abstract promise of a planner to a reader | authority is granted when nobody has it, to a publication newer than any before, and withdrawn |
| `PlannerPublication` | `advisory_app.py` beside `decode_authoritative_planner_intent` | one action per `set_state` of an evaluation; the executor reads the two entities in two actions, at any time |
| `AdvisoryPlan` | `AdvisoryRuntime.tick` in `advisory.py` | one action per way a tick can end: inputs missing, nothing to do, wait, plan, planner failure |
| `ShadowControl` | `ShadowControlCore.evaluate` over `ShadowPowerAllocator` | one action, a control tick; readiness, usable inputs, measured flows and the demand are its choices, the demand among what the split of a surplus can ask of the two batteries |
| `ChargeController` | `DeyeChargeShadowController.evaluate` in `charge_controller.py` | one action, an evaluation, in one disjunct per way it can end: disabled, faulty telemetry, or one per state that decides |
| `HaeoPlan` | `energy_v3/haeo_adapter.py` as `energy_v3/shadow_app.py` calls it | `Begin` and `Evaluate` are the two snapshots of `_evaluate`; the optimizer (`Run`, `Write`), the start of AppDaemon (`Restart`) and the clock are the environment |
| `ShadowDecision` | `energy_v3/controller.py` over `energy_v3/telemetry_adapter.py` | `Decide` is `decide` of the snapshot that an evidence gives; no state |
| `ShadowPublication` | `energy_v3/shadow_app.py` | one action per callback and per `set_state`: `InputChanged`, `CoalescedEvaluation` and `PeriodicEvaluation`, `Collect`, `Publish`, `Report`; `Change` is the house, `Restart` a kill and a start |
| `DeyeState` | `DeyeStateAdapter.evaluate` in `deye_state.py` | one action, an evaluation of a reading, in one disjunct per return; `Change` and `Tick` are Home Assistant and the clock, `Restart` a new process |
| `FlowMonitor` | `FlowDebouncer` and `RollingExportAverageTracker` in `flow.py`, `FixedQuarterExportTracker` in `export_budget.py`, as `app.py:606-631` feeds them | `Sample` and `Invalid` are an evaluation with and without valid telemetry |
| `AppHealth` | `app.py`: listener, debounce, ticks, `_set_helper` | `Begin` starts a tick, `Step` makes its next call, `End` is its `finally`; `Timer` and `Debounced` are AppDaemon's schedule, `Change` the house |
| `TradingPolicy` | `resolve_soc_policy` in `trading/policy.py` | sets of slots of a horizon: closed to export, kept above the floor, with a recovery; no state |
| `PowerState` | `build_deye_power_state_schedule` in `trading/power_state.py` | the blocks, their merging and the state of each slot, of a plan's activities; no state |
| `BatteryPair` | the two batteries | shared names |
| `MC...` | instances for TLC | definitions of role vectors and constants, and in `MCAdvisoryPlan` what is said of every plan |
| `TransitionProofs` | theorems about `Transition` | see Proofs |
| `ExecutorProofs` | theorems about `ExecutorRuntime` and `CommandLifecycle` | |
| `PlanningProofs` | theorems about `AdvisoryPlan`, `TradingPolicy`, `PowerState` and `PlannerPublication` | |
| `ShadowProofs` | theorems about `ShadowDecision`, `ShadowPublication` and `ShadowControl` | |
| `ChargeProofs` | theorems about `HaeoPlan` and `ChargeController` | |
| `DeyeStateProofs` | theorems about `DeyeState` | |
| `ApplicationProofs` | theorems about `AppHealth` and `FlowMonitor` | |
| `Induction` | lemmas: least and greatest elements, induction over an interval, recursive functions, sums | no state |

A module of proofs extends the modules it is about. Where these are two with state of their own,
the second one's variables, initial states and actions have names that begin with what it is:
`CommandSpec`, `PublicationSpec`, `CoreSpec`, `ControlSpec`, `FlowSpec`.

`Transition` keeps the fields of `TransitionProgress` that code branches on.
Roles and owners are sets and functions over `{"SOLAX", "DEYE"}`; a power is a
small integer, a reading's limit a value in `1..Target` (below `Target` is a
CLAMP decision, `Target` is no objection); the objections of the other safety
evaluators are the choice of an action in `Object`. Three history variables
(`disturbed`, `stopped`, `headroom`) record what the properties speak about and
guard nothing. In the abstraction commands of different kinds have different
identifiers, and the outstanding record may make any legal step, or fail, at any
time.

`ExecutorRuntime` takes one snapshot per tick: whether execution is enabled, the
planner's intent, DEYE's role, whether SolaX is in a forced mode, and what the
safety evaluators would make of the rest. Its transition is `Transition`'s, cut to
what the shadow runtime can reach: it passes no command record, no settling
evidence and no command identifier, so every phase that needs one ends in its
deadline. `proven` is a history variable. In the configuration the repository
ships, `solax_fault` has no source and ownership is never proven: the runtime then
stays in `SAFE_STOP`. The model is of a configuration that has one, as the tests
do.

`PlannerPublication` lets every `set_state` raise, before or after it took effect,
and the planner be killed anywhere; the entities survive. Its identifiers are
numbers that a restart does not reuse: the code prefixes its sequence with a random
token (`advisory_app.py:46`). What `AdvisoryRuntime.tick` and
`executor_intent_payload` return is one choice, `outcome`, restricted by what they
guarantee: an intent other than NONE comes from a plan that is valid now.
`granted` and `seen` are history.

`AdvisoryPlan` reduces the inputs to one number and their meaningful change to a
distance; the hashes and states the code compares for equality are the case of
distance one. Clocks are kept as ages and stop where the code no longer tells them
apart, which makes behaviours infinite over finitely many states. `reading`,
`failed`, `planned` and `unrest` are history.

`ShadowControl` reduces a measured flow to what the code tells apart, beyond
`zero_flow_tolerance_w` one way or the other, within it, or not usable; the transfer
threshold has the same default. That a direction is pending is kept, which one is
not: the code never reads it. The control tick never passes a site command that has
expired, allows transfers or limits the export budget, so these branches of the
allocator are not in the model. A tick that allocates nothing does not look at the
measured flows, so the clock of a rest runs on through it, in the code as in the
model. `rest`, `owed` and `good` are history.

`ChargeController` keeps of a reading what the conditions tell apart; the charge and the
discharge are numbers, because the window averages them and the limit depends on it. The
voltage is one, so a current is its power. Samples are kept as the code keeps them: the last
one older than two windows stays, none is added while the device is disabled or the
telemetry is invalid, and both clocks and ages stop where nothing tells them apart any more.
While the helper `energy_v2_charge_shadow_enabled` is off nothing is evaluated and the
clocks run on (`app.py:519`): such a pause is a long gap of the model, and the histories count it as
lasted, as they do any gap between two evaluations. `good`, `feeding` and `below` are history.

`HaeoPlan` models what it does not own from how the code reads it. An optimizer run is
written as four entities in any order and at any pace; Home Assistant stamps a write
that repeats an entity in `last_reported` alone and reports it to nobody
(`haeo_adapter.py:121`), a change reaches the cache at once, and a start of AppDaemon
copies everything. A forecast is its first period and one level, so entities that are
missing, malformed or of another step are not in the model. The `Tolerance` stands for
`publication_tolerance` and for the 5 seconds a clock may be ahead. An evaluation may begin
at any time, which covers both the coalesced and the periodic one. `before` is
history.

`ShadowDecision` keeps of a state what the adapter reads of it: a number, a text, or nothing.
`ShadowPublication` publishes of the input entities as many as `Details` names, in the order of
the code. An evaluation has a label, `evaluated_at` in the code, that no entity shows. `behind`
and `refused` are history. In the configuration the repository ships, `solax_fault` and the
authorization have no source and the capabilities are `UNSUPPORTED`, so that `decide` can only
return to normal today: the model checks what `decide` would accept of a house that has them.

`DeyeState` joins the entities of state and fault, which the code always combines and whose
stamps it takes the later of. Its times are fine enough that two entities do not change in
one. A reading that is missing, stale or skewed is one kind, `Unheard`. `calm` and `readied`
are history.

`FlowMonitor` takes the surplus of PV over the house as a part of the sample. A transient that
ends before it is a violation, the durations for which each condition has lasted, and
`trailing_window_budget`, which nothing but a diagnostic shows, are left out. The clock does not
go back. `log` is history.

`AppHealth` joins the helpers which one tick writes, but for the status of the app itself, and
leaves out what they say. A call may fail with or without effect while the house is `faulty`.
`unseen` is history.

`TradingPolicy` counts time in parts of a slot, so that a configured time may fall between two
slots. `PowerState` counts durations in minutes, rounded up to slots as the code does. Neither
keeps state; `MCAdvisoryPlan` says of every plan that `AdvisoryPlan` makes what they define.

`CommandLifecycle` has no clock: the functions trust their arguments, so the model
calls them with any time in any order, the same observation twice included: the
record's state picks what it confirms, so one that carries both may confirm two things.

## Runs

| run | question | bounds, and why they suffice |
|---|---|---|
| `transition` | the invariants below, the refinement of `HandOver`, and an end from the timer alone | three starting vectors (idle, one writer, two writers), three intents (none, SolaX, DEYE), 2 W target (so one clamp step), 4 instants, which the longest hand-over, to DEYE after a break, fits in: each phase timeout, evidence age and dwell is 1 or 2 instants, so every one of them expires, and does not, in every order (666,575 states) |
| `two_writers` | is every battery that was written stopped before its owner is released? *Violated* | as `transition`, from SolaX in hold beside DEYE discharging, which the executor's own role invariants allow (`executor/invariants.py:42`) |
| `executor` | are the published entities coherent and saved, is authority reconciled, is an abort final? And can calls in any order withdraw a command's evidence, revive a record, act across epochs, or build an invalid record other than by drift? | the runtime: six ticks: enough to reconcile, plan, run to the last phase the runtime reaches, abort, fail and begin again; one plan of each type, so that a plan is replaced; two epochs. The record: times 0..4 with life 1..4: before creation, three instants inside, expiry; two epochs (354 states, 256,386 calls). The shadow runtime is never given a record, so neither reads what the other writes, and each moves while the other is as it started |
| `planner_publication` | can an executor accept an intent that was not published as a whole, whatever fails? | three publications (two halves and one more), one plan that is published each time so that only identifiers tell them apart, three instants with age 1: fresh, at the limit and stale |
| `advisory_plan` | does advice fit its inputs, is replanning debounced, does advice come back; and of any plan: is the reserve kept, is DEYE off exactly where it may be? | four readings with neighbours alike, so that a drift takes three ticks; horizons below the refresh, just above and long; gaps of one or two periods. The policy: days of four slots with configured times on a slot and between two, horizons of up to nine slots from any slot, so of two mornings and three nights. The overlay: every plan of up to seven slots, every duration from none to three slots, one of them not a multiple |
| `shadow_control` | does a battery rest before it moves, is a fault confirmed, and does every wait for rest end? | rated power 2 and slew 1, so a slew takes two ticks and can be interrupted; a deficit for both batteries, none, and a surplus; confirmations of 2 intervals and gaps of 1 or 2: met by two ticks, by three, or by a skipped one |
| `charge_controller` | is a start confirmed, does a limit follow from what was just measured, and does the full current come back? | a window and delays of 2 and 3 ticks and gaps of 1 or 2, so that a delay is met by one evaluation or several and a sample is cut by the window; three flows: none from SolaX, a transfer above the maximum, and one below the least limit (42,716 states) |
| `haeo_plan` | between publications, is the target exactly the last plan, and is a timely one taken; and while one is written, do periods mix? | four instants of which two make a period: runs within one period and in the next, a forecast kept for as long as it may be, writes within the tolerance of 1 and later; two levels per battery, so each is repeated or changed by itself (558,298 states; the levels are symmetric) |
| `deye_state` | are confirmations and the allowance what they say, whatever is polled, lost or restarted? | five instants with delays of 2 and 3; stamps all there, the switch's missing, and the switch's only (1,089,856 states) |
| `shadow_publication` | may a battery be told to discharge on evidence that does not bear it, may a decision stand beside another evaluation's entities, is a change lost, is an unsafe decision withdrawn? | the decision: every evidence that differs from a nominal one in at most two ways; the publication: five houses, two of them unsafe for different reasons, so that one changes while it stays unsafe, two detail entities of the five, two failures or kills (252,514 states): one to break a publication and one to break its repair |
| `flow_monitor` | are averages and quarters those of the export, and is a violation told while it lasts and counted once? | four samples at five instants, so several in one; persistences of 1 and 2, a window and a quarter of 2, so that samples are cut by both; six flows: every violation, both transfers, one of them with an export (424,532 states) |
| `app_health` | is a change lost to the debounce, is the health honest, does it recover, is an unsafe enable undone? | a threshold of 2 for the code's 3, so that a count is below it, at it and beyond; any switch, fault and call failure at any time (658,896 states) |

Every type invariant is proved for every instance, or is a part of an inductive invariant that
is; so are `ProgressOK`, `NothingWhileUpdating` and `WithdrawnBetween`, which are in no run.

Deadlock is not checked where a model stops: a transition that has ended and whose time has
run out, a terminal record (the runtime beside it may restart at any time, so it never stops), and in `planner_publication`, `deye_state` and `flow_monitor` the
end of a bounded clock, log or number of publications.

Fairness, in the runs that have a liveness property. `shadow_publication`: weak fairness of
`Periodic`, the timer of `shadow_app.py:37`, and of the callback that runs or waits, which
AppDaemon's worker takes from a queue, and strong fairness of `Evaluation`, because the queue keeps
its order: without it a house that changes for ever would have the worker serve its changes
alone; the failures are bounded, so calls succeed from some
time on, and that the house stays unsafe is the premise of `UnsafeIsWithdrawn`. `app_health`:
weak fairness of `Step`, for a callback that has begun is run to its end, and strong fairness
of the timers of the shadow and the control tick (`app.py:188-190`): a timer is disabled while
another callback runs, and AppDaemon's worker serves callbacks in their order; that nothing
fails from some time on is a premise of `StatusRecovers` and `UnsafeIsDisabled`. `charge_controller`: weak
fairness of `ControlTick`, from the timer of the flow tick that evaluates it (`app.py:374`); that
readings stay good is the premise of `Charges`. `shadow_control`: weak
fairness of `Tick`, from the timer of `app.py:190`; that the inputs are usable and the
batteries at rest from some time on is the premise of `WaitsEnd`. `advisory_plan`: weak
fairness of `Tick`, from the timer of `advisory_app.py:48`; that collecting and
planning succeed from some time on is a premise of `AdviceReturns`, not fairness.
`transition`: weak fairness of the clock and of `Evaluate`. AppDaemon's `run_every` timer (`executor_shadow_app.py:24`) calls the runtime
forever, and one call is one evaluation. Nothing is assumed about evidence,
readings or commands.

### Where code and documents disagree

* `two_writers` expects a violation, of "break-before-make" (`executor/transition.py:1`). With SolaX
  held and DEYE discharging, both owned, `_stop_owner` (`:634`) names the battery that is driven,
  DEYE, and `WAIT_NEUTRAL` declares both released (`:1313`) without a stop of SolaX. What does hold,
  from such a source too, is `DrivenIsStopped`: the driven battery has acknowledged its stop.

Of two more, the passing properties ask neither what the document says nor what the code does:

* A plan that is made when the window of the morning is over, or whose horizon ends before the
  deadline, has no assessment of that morning (`trading/policy.py:186`): what is left of it is open
  to export, and the checkpoint of 30% is gone, against
  `docs/phase-5a-trading-planner-shadow.md:134-137`. So has one whose window begins and ends in the
  same slot. `Cut` names these mornings, and `ReserveIsKept` wants them neither open nor closed.
  The evening's block is told by the clock alone and is not affected.
* The document has a forecast that a run repeats without new stamps rejected
  (`docs/energy_v3/v3.1-shadow-runtime.md:24-32`); the adapter takes one whose two stamps agree and
  are at most an interval older than the run (`haeo_adapter.py:121-129`), as its comment and
  `tests/energy_v3/test_haeo_adapter.py:112` mean it to, because AppDaemon's cache is not told of
  repetitions. `SettledIsTheRun` wants a run taken that the cache shows to be timely, and whatever
  is taken to be the run's; a retained forecast it would let be refused or taken.

### What the models made plain

No run checks these; they are what the code does and the models contain.

* `confirm_physical_response` retains the new readback without comparing it
  (`command_lifecycle.py:190`). If it has drifted, the constructor raises
  (`models.py:268`), and the command stays where it was instead of failing: the exception
  that `OnlyDriftIsRefused` names.
* `evaluate_executor` returns `SAFE_STOP` for a missing intent without making
  reconciliation due (`engine.py:537`), and never asks `state_machine.py` whether `SAFE_STOP`
  may be left: with the next intent it is back in `PRECHECK`. The graph, with its "explicit
  reset-only recovery" (`state_machine.py:1`), is consulted for the step into `TRANSITION`
  alone.
* The failure snapshot of the runtime sets the state first (`executor_runtime.py:1128`): a call
  that fails after it leaves `SAFE_STOP` beside an older proposal. `PublishedIsSound` therefore
  takes a `SAFE_STOP` to vouch for nothing, and a reader has to ignore the proposal beside it.
* A meaningful change withdraws the intent until `minimum_interval_s` has passed since the last
  attempt (`advisory.py:592`), though the plan itself is kept.
* `allocate` validates the anti-transfer rule (`allocator.py:133`) on the demand, then
  slews each battery by itself: DEYE may still be ramping down a discharge in the tick
  that tells SolaX to charge.
* A change of direction is noticed against the last simulated power only
  (`allocator.py:222`). One tick of zero demand makes that zero, and the opposite direction
  then starts without the "confirmed zero flow" of `docs/phase-4-shadow-control-core.md:111`.
* `_transition` sets the clock only when the state changes (`charge_controller.py:299`), so a
  repeated fault does not restart the recovery: with faults at 0 and at 59 seconds, the first
  valid reading at 60 ends `FAULT`, where
  `docs/phase-3-deye-surplus-charge-shadow.md:31` asks for 60 seconds of stable telemetry.
* The reason of `charge_controller.py:234` says that the confirmation of return is reset, and
  the clock runs on: one good evaluation after 30 bad seconds is enough.
* The retained-forecast rule accepts a record whose two stamps agree and that is at most
  an interval older than the run (`haeo_adapter.py:128`). The forecast which the run has
  not written yet is such a record, so an evaluation between the two writes takes one
  battery's new power with the other's old one, of the same period: `PeriodsNeverMix` is as
  far as the rule goes; `docs/energy_v3/architecture.md:142` asks for more.
* An AppDaemon that starts while a repeated forecast is in force copies a `last_reported` that
  is later than `last_updated`, and takes no target until the forecast changes.
* DEYE: when reports break off, the confirmation starts again at the oldest report's time, which
  may precede the switch's own `last_changed`, so READY may come sooner than
  `ready_confirmation_s` after the switch. A switch that was unavailable and returns moves
  `last_changed`, which renews the startup allowance and forgets READY; so does a start of the
  process (`docs/deye-state-freshness-adapter.md:21`, `:28`).
* Energy V3: the decision is withdrawn before the entities change (`shadow_app.py:96`), and the
  promise holds unless both that write and the error path's withdrawal fail (`refused`). The
  projected export ignores a charge target that lowers present charging; the check of a cross
  transfer looks at measured flows alone; a raw DEYE power that is a text is not compared with
  the template's (`telemetry_adapter.py`), whose power is then used unverified.
* A flow that flickers around `minimum_export` is `CROSS_CHARGING` and `SOLAX_TO_DEYE` in turns
  and starts both clocks anew, so a transfer that persists may never be reported. Invalid
  telemetry stops no clock: a condition found before and after it has lasted through it, and the
  budget after it ignores what was exported meanwhile.
* `_record_publication_success` counts the failures of the status helper itself, while
  `_record_publication_failure` leaves them out: the status may stay `DEGRADED` until the next
  shadow tick. A loop that is switched off after its helper failed three times keeps the app
  `DEGRADED` for ever. With shadow mode off, an unsafe `energy_v2_enabled` is left on
  (`app.py:311-316`). The debounce is armed again by every change, so a telemetry that never
  rests has the tick wait for the 15-minute timer: `ChangeIsArmed` says no more than that a
  timer is armed.
* The overlay has no memory: a window of `OFF_ELIGIBLE` at the beginning or the end of a plan may
  be shorter than `minimum_off`, which `docs/phase-5a-deye-power-state-shadow.md:20` does not
  say; a gap that was too short to be off is `STARTING` before the next activity, although DEYE
  was never off.

## Proofs

Every safety invariant and every action property of the passing runs is a theorem, for every value of
the constants that satisfies the named assumptions. The assumptions are TLC's too: each run
evaluates those of the modules it extends. Nothing is assumed about the environment that the
actions do not say.

### Transition

`TransitionProofs` proves for every value of the constants that satisfies
`PlanAssumption` and `ConfigAssumption` (a positive target, positive timeouts and
ages, a plan that starts before its deadline):

* `TypeCorrect`: `[]TypeOK`. Its one arithmetic fact is that a clamp stays in
  `Limits`.
* `OwnershipCorrect` and `CommandCorrect`: who owns what and which command is
  expected are functions of the phase, the source and the intent. These are the
  strengthening: none of the properties below is inductive alone, because the
  phase must be known to imply what earlier phases established.
* `SettlingCorrect`: the neutral evidence of a transition past `WAIT_NEUTRAL`
  is complete and undisturbed. Inductive because `Observe` either extends the
  period or resets it.
* `ProgressCorrect` (`[]ProgressOK`), `DwellCorrect` (`[]DwellProven`): from these.
* `TargetsArePlanned`, `HeadroomRespected` (`[]WithinHeadroom`): a commanded target
  is the effective target, which every evaluation that does not end the transition
  leaves at most the limit it read.
* `NeverFed` (`[]NeverFeedsTheOther`).
* `DrivenBatteriesStop` (`[]DrivenIsStopped`): `StoppedOK` says of each phase past the stop that
  the battery the plan names has acknowledged it; no source is excluded. Which battery that is,
  and that the other of two writers has none, is in the run `two_writers`.
* `Implements`: `Spec => HandsOver`. The refinement mapping sends owners to
  `writers`, active roles and a target command to `driven`, and "past
  `WAIT_NEUTRAL`, or nothing to break" to `released`; each action is a step of
  `HandOver` or a stutter, by the invariants above.

### Executor

`ExecutorProofs` proves the runtime's properties of the `executor` run for
every set of plans, roles and epochs and any number of ticks (`RuntimeAssumption`):

* `TypeCorrect`, `AuthorityCorrect` from `RunInv`: reconciliation is due exactly
  while ownership is unproven, and a proposal exists in a running transition only.
  Without the first, a transition could exist while a reconciliation is due, and
  `Reconcile` would drop it.
* `AbortIsFinalCorrect` from the same invariant: `Working` leaves `TRANSITION` as
  the one state, of those the runtime enters, in which a transition goes on.
* `CoherenceCorrect`, `SavedCorrect` from `Told`, which says for each stage of a
  tick what has been saved and shown so far. The properties hold between ticks, so
  neither is inductive without it. `PublishedCorrect` is both.

`ExecutorProofs` also proves both properties of the command record, for any times of creation and
expiry and any number of epochs (`LifetimeAssumption`):

* `LifecycleCorrect` (`[]OnlyDriftIsRefused`): whatever is called, at whatever times, a candidate
  is a record of the dataclass, but for the one exception of a drifted readback. The strengthening
  is `OpenOK`: a record that is not terminal has the proofs up to its state and no other, and was
  last observed when the latest of them was. Without it a caller's record of the right types could
  be confirmed out of order.
* `EvidenceCorrect` (`EvidenceOnlyGrows`): each call keeps the proofs or adds the next of them
  (`Grown`); that a terminal record and one of another epoch stay as they are is in the guards.

### Planning

`PlanningProofs` proves `TypeCorrect`, `AdviceCorrect` and `DebounceCorrect` of `AdvisoryPlan` for
all readings, horizons and delays (`AdvisoryAssumption`). `ValidFits` strengthens `AdviceFits` to
plans whose horizon has passed; `Debounced` equates `pending_since` with the history of the wish
while no plan is valid.

What `MCAdvisoryPlan` says of plans is a theorem about every horizon, configuration, activity and
duration, not about a run:

* `PolicyCorrect` and `ReserveCorrect` (`[]ReserveIsKept`), of any length of a slot that divides the
  day (`DayAssumption`). The code looks for the occurrences of a configured time within the horizon
  and pairs them; `MorningsAreShown` proves that these pairs are the days whose window's end and
  deadline the horizon shows (`Shown`), `ShownUnlessCut` that a morning with a slot in the horizon is
  one of them unless it is cut, and `NightIsSinceEvening` that the clock comparison of the code, over midnight
  or not, is "since the last evening". The rest is arithmetic of slots on the grid and days.
* `OverlayCorrect` and `OffCorrect` (`[]OffOnlyWhenIdle`), of any number of slots, any durations and
  any length of a slot (`DurationAssumption`). Both loops of `power_state.py` are recursive
  functions, and each has its loop invariant: `TouchingUpTo` says after each slot that the blocks are
  apart and hold exactly the slots that the activities so far need, `BlocksUpTo` the same of the
  blocks joined over short gaps. `WindowEnds` proves that a window that the plan does not cut ends
  the lead before an activity.

`PlanningProofs` also proves both properties of `planner_publication`, its type invariant
(`PublicationTypeCorrect`) and `NothingWhileUpdating` (`UpdatingCorrect`) for every set of plans and
types and any number of publications (`PublicationAssumption`). The invariant says of each call of
an evaluation what the entities hold then, and that no entity bears an identifier later than the
current one; `PromiseKept` maps the entities to `PlannerAuthority` and shows that the commit is the
one step that grants. `DecodedCorrect` needs that whenever the status would give authority to the
intent in the executor's hand, that intent has had authority since the reading began.

### Energy V3 and shadow control

`ShadowProofs` proves, for any evidence, houses, entities and number of failures
(`DecisionAssumption`, `PublicationAssumption`):

* `NothingUnborne`: no evidence of the right types, however wild its numbers, has `decide` tell
  a discharge that it does not bear. It is arithmetic over the conditions `decide` has
  passed (`DischargePassed`) and the projection (`ProjectionIsSound`), without a run.
* `TypeCorrect`, with the pigeonhole that a new label is never wanting: there is one more than
  entities and decisions can show.
* `DischargeCorrect`, `WholeCorrect`, `FollowedCorrect`, `WithdrawnCorrect` from `Told`, which says
  for each call of a publication or a report what the entities show: from the withdrawal to
  the last call no decision acts, unless the withdrawal was refused.

It also proves, of `ShadowControl`, `CoreTypeCorrect`, `RestCorrect` and `FaultCorrect` for every
rated power, slew, target, set of surpluses and delay (`ControlAssumption`). `Debt` is the
strengthening of `RestBeforeMotion`: a battery that owes a rest waits, and its zero clock is never
ahead of the time it has been seen at rest; without the clocks, a wait could end early.
`FaultIsConfirmed` rests on `Seen`: the age of a transfer is kept between two ticks only if both saw
it, so a fault is the end of a chain of suspicions that no tick has broken.

### Charging

`ChargeProofs` proves all properties of `haeo_plan` for every interval, tolerance, age, set of
batteries and levels (`PlanAssumption` of `HaeoPlan`): `TypeCorrect`, `SettledCorrect` and
`PeriodsCorrect`. The invariant says of each entity whose content it bears, the last run's or that
of the plan before it (`Published`), and of the cache that it differs from Home Assistant in the
stamps of repetitions alone (`Cached`). The first is what makes a settled plan the run's; that a
timely one is taken follows from the conditions of the conversion, one by one.

It also proves `ControlTypeCorrect`, `StartCorrect` and `LimitCorrect` of `ChargeController` for
every delay, window and set of flows (`ChargeAssumption`):

* `StartInv` says that the clock of a start confirmation is never ahead of the time for which every
  evaluation has found the start conditions; `Longest` is shown to be a number because a maximum is
  a choice.
* `LimitInv` says of every net reading that what was above it has been followed by another as long
  ago as the history `below` tells (`Measured`); that samples are in their order; and that the clock
  of a transfer confirmation is never ahead of the time for which a transfer has been found. When
  nothing above a reading was held in the window, `AverageBounded` (what ended before the window has
  no weight, so the weighted sum is bounded by the weights) and `LimitBounded` (the division) give
  that the limit is at most what this reading leaves. Neither of the window and the confirmation
  has to be the longer.

### DEYE's state

`DeyeStateProofs` proves all properties of the `deye_state` run and its type invariant for every
delay, age, set of stamps and length of time (`ConfigAssumption`). `PositionOK` says that the
remembered time of the switch is never later than the time it moved; `CalmOK`, that a
confirmation started no earlier than the unbroken good observations or the stamped position;
`ReadyOK`, that READY is remembered while the switch stays.

### Application

`ApplicationProofs` proves `HealthCorrect` and `ChangeCorrect` of `AppHealth` for every threshold
from one up (`HealthAssumption`). That the app is not told to be healthy while a helper has failed
as often as it may, unless the status itself could not be written, is inductive only together with
the `degraded` flag, which every count that reaches the threshold sets and which a success clears
only when no count is left there (`Honest`). `Turns` says that the flag of a running tick is set
exactly while that tick runs.

It also proves both properties of `flow_monitor`, for all flows of whole numbers, persistences,
windows, quarters and limits that are in their order (`MonitorAssumption`):

* `ViolationsCorrect` (`ViolationsAreTold`): the clock of each condition is the time of the sample
  with which its unbroken run began (`Clocked`), so what is confirmed is what the log has found for
  long enough (`Told`).
* `FiguresCorrect` (`[]FiguresAreExact`): the average and the budget, which the code computes from
  what is left of its samples and from a running account, are those of the curve of all samples
  that there ever were. `Ends` says that the samples are the end of the log, and that what was
  dropped lies before one as old as the window; `Quartered`, that the account is the sum of the
  curve since the quarter began. `PiecesAddUp` cuts the window at the samples: the curve is constant
  on each piece (`CurveIs`), so the pieces that the code adds are the sum over instants.

### Induction

A recursive definition or a sum over a set is seen through by induction, and the library's induction
theorems take an operator for the property, which the provers here cannot instantiate. `Induction`
states it with a *set* of numbers instead, from the well-foundedness of the numbers: a set that has
an element has a least one (`Least`), so a set that contains the first number of an interval and
with each the next contains them all (`Upwards`). From these follow what a function defined by
recursion is at every argument (`Recursion`), and what the sum of the community modules is, a
`CHOOSE` of a table over all subsets: that the table exists (`TableExists`), that all tables agree
(`TablesAgree`), how a sum unfolds (`SumAdd`), splits (`SumSplit`) and is bounded (`SumBounded`).

### Only model-checked

The seven liveness properties: `AlwaysEnds`, `AdviceReturns`, `WaitsEnd`, `Charges`,
`UnsafeIsWithdrawn`, `StatusRecovers` and `UnsafeIsDisabled`. They need fairness, and the prover does
not handle ENABLED.

## Not modelled

* The optimisation of `trading/planner.py` with `objective.py`: a mixed-integer program over
  floating-point energies, SOC and prices that an external solver (`pulp`) decides. What remains
  of it without the solver is an objective and a list of linear constraints, of which a model of
  small integers would show nothing. With it goes whether a target can be reached
  (`_optimistic_soc_at`, `morning_exception_precheck_passes`, the hardness of the evening's
  checkpoint). What it is given and what is made of its result are `TradingPolicy` and `PowerState`.
* `telemetry.py`, `config.py`, `load_model.py`, `observations.py` and `energy_v3/telemetry_adapter.py`
  beyond what `DeyeState` and `ShadowDecision` take of them, `executor_runtime.py` where it builds a snapshot of
  Home Assistant's entities, `advisory.py` where it collects: conversions of texts and units.
  The modules take their outcomes as inputs.
* `planner.py` (`plan_shadow_mode`), `executor/adapters/`, `adapters/`, `executor/planner_contract.py`,
  `executor/diagnostics.py`, `diagnostics.py`: functions of one snapshot or one proposal without
  state, mostly tables of texts.
* In `flow.py`, transient counters, durations and `trailing_window_budget`, which only diagnostics show.
* Home Assistant packages, dashboards, scripts. `src/deploy/appdaemon/apps` is a copy of `src/apps`,
  byte for byte, so that half of the code in the repository is there twice; the definitions
  name the lines of `src/apps`.

What could follow: the hardness of checkpoints over small energies, if the optimisation is ever
replaced by code; liveness as theorems, if the prover learns of ENABLED; and for `AppHealth` an
abstract specification of a debounced loop that the three ticks would share.
