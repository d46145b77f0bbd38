------------------------------- MODULE HaeoPlan -------------------------------
(***************************************************************************)
(* How the Energy V3 shadow app takes one target from the forecasts of an    *)
(* optimizer: current_target_from_states (energy_v3/haeo_adapter.py) over    *)
(* the two snapshots of EnergyV3ShadowApp._evaluate (energy_v3/shadow_app.py).*)
(*                                                                         *)
(* The optimizer, Home Assistant and AppDaemon's cache are external. A run   *)
(* of the optimizer is published as four entities, one after the other, at   *)
(* any pace and in an order nobody promises. A write that changes an entity  *)
(* reaches AppDaemon's cache at once; one that repeats it moves              *)
(* last_reported in Home Assistant and tells nobody.                        *)
(*                                                                         *)
(* A forecast is its first period and a level, which stands for the powers   *)
(* of all its periods. Times are ticks, a period is Interval of them.       *)
(***************************************************************************)
EXTENDS Integers

CONSTANTS
  Interval,    \* interval
  Tolerance,   \* publication_tolerance; the clocks may differ by as much
  MaxAge,      \* max_optimizer_age
  Batteries,   \* SOLAX and DEYE, which the conversion treats alike
  Levels,      \* what a forecast may plan for a battery
  MaxTime      \* bound on the clock

ASSUME PlanAssumption ==
  /\ Interval \in Nat \ {0} /\ Tolerance \in Nat /\ MaxAge \in Nat
  /\ MaxTime \in Nat /\ Batteries \cap {"STATUS", "HORIZON"} = {}

VARIABLES
  now,
  run,         \* the last run: when, whether it succeeded, what it planned
  unwritten,   \* entities that the last run has still to write
  ha,          \* per entity: content, last_updated and last_reported
  cache,       \* AppDaemon's copy of ha
  began,       \* an evaluation: its time and first snapshot, or none
  target,      \* the target of the last evaluation, or none
  before       \* history: the plan that the last run replaces, or its own

vars == <<now, run, unwritten, ha, cache, began, target, before>>
optimizerVars == <<run, unwritten, before>>

Entities == Batteries \cup {"STATUS", "HORIZON"}
Times == 0..MaxTime
PeriodOf(t) == t - (t % Interval)
Plan(r) == [start |-> r.start, levels |-> r.levels]

-----------------------------------------------------------------------------
(* The optimizer and Home Assistant.                                        *)
Content(e, r) ==
  CASE e = "STATUS" -> [ok |-> r.ok, lastRun |-> r.at]
    [] e = "HORIZON" -> [start |-> r.start]
    [] OTHER -> [start |-> r.start, level |-> r.levels[e]]

Record(content, t) == [content |-> content, updated |-> t, reported |-> t]

(* A run that fails writes its status only.                                 *)
Run(ok, levels) ==
  /\ unwritten = {} /\ run.at < now
  /\ run' = IF ok THEN [at |-> now, ok |-> TRUE, start |-> PeriodOf(now),
                        levels |-> levels]
            ELSE [run EXCEPT !.at = now, !.ok = FALSE]
  /\ unwritten' = IF ok THEN Entities ELSE {"STATUS"}
  /\ UNCHANGED <<now, ha, cache, began, target, before>>

Write(e) ==
  /\ e \in unwritten
  /\ unwritten' = unwritten \ {e}
  /\ IF ha[e].content = Content(e, run)
     THEN /\ ha' = [ha EXCEPT ![e].reported = now]
          /\ cache' = cache
     ELSE /\ ha' = [ha EXCEPT ![e] = Record(Content(e, run), now)]
          /\ cache' = [cache EXCEPT ![e] = ha'[e]]
  /\ before' = IF unwritten' = {} THEN Plan(run) ELSE before
  /\ UNCHANGED <<now, run, began, target>>

(* A start of AppDaemon copies what Home Assistant has.                     *)
Restart ==
  /\ cache' = ha
  /\ began' = {} /\ target' = {}
  /\ UNCHANGED <<now, optimizerVars, ha>>

(* An evaluation reads its clock and its two snapshots within a tick.       *)
Tick ==
  /\ now < MaxTime /\ began = {}
  /\ now' = now + 1
  /\ UNCHANGED <<optimizerVars, ha, cache, began, target>>

-----------------------------------------------------------------------------
(* The conversion. A retained forecast is one that a cache may keep when a   *)
(* later run repeats it.                                                    *)
Succeeded_Any(s) == TRUE                    \* mutated: any status will do

Succeeded(s) == s["STATUS"].content.ok

LastRun(s) == s["STATUS"].content.lastRun

Current(s, at) == at - LastRun(s) \in (-Tolerance)..MaxAge

(* _publication_signature.                                                  *)
Signature(s) ==
  [e \in Entities |-> [content |-> s[e].content, reported |-> s[e].reported]]

InTime_After(s, e) ==                       \* mutated: not at once
  LastRun(s) < s[e].reported /\ s[e].reported <= LastRun(s) + Tolerance

InTime(s, e) ==
  LastRun(s) <= s[e].reported /\ s[e].reported <= LastRun(s) + Tolerance

Retained(s, b) ==
  /\ s[b].updated = s[b].reported
  /\ LastRun(s) - s[b].reported \in 0..(Interval + Tolerance)

Coherent_Unaligned(s, at) ==                \* mutated: the periods may differ
  /\ \A e \in Entities \ {"HORIZON"} : s[e].reported <= at + Tolerance
  /\ InTime(s, "STATUS")
  /\ \A b \in Batteries : InTime(s, b) \/ Retained(s, b)

Coherent(s, at) ==
  /\ \A e \in Entities \ {"HORIZON"} : s[e].reported <= at + Tolerance
  /\ InTime(s, "STATUS")
  /\ \A b \in Batteries : s[b].content.start = s["HORIZON"].content.start
  /\ \A b \in Batteries : InTime(s, b) \/ Retained(s, b)
  /\ \A b, c \in {e \in Entities \ {"HORIZON"} : InTime(s, e)} :
       s[b].reported - s[c].reported <= Tolerance

Active_First(s, at) == s["HORIZON"].content.start  \* mutated: not the one of now

(* active_index: the period the evaluation is in.                           *)
Active(s, at) ==
  s["HORIZON"].content.start
    + PeriodOf(at - s["HORIZON"].content.start)

Target(s, at) ==
  IF /\ Succeeded(s) /\ Current(s, at) /\ Coherent(s, at)
     /\ s["HORIZON"].content.start <= at
  THEN {[at |-> at, from |-> Active(s, at), start |-> s["HORIZON"].content.start,
         levels |-> [b \in Batteries |-> s[b].content.level]]}
  ELSE {}

-----------------------------------------------------------------------------
(* _evaluate: the time, one snapshot, another, and the target if the two     *)
(* agree. The cache may change in between.                                  *)
Begin ==
  /\ began = {}
  /\ began' = {[at |-> now, snapshot |-> cache]}
  /\ target' = {}
  /\ UNCHANGED <<now, optimizerVars, ha, cache>>

Evaluate ==
  /\ \E b \in began :
       target' = IF Signature(cache) = Signature(b.snapshot)
                 THEN Target(cache, b.at) ELSE {}
  /\ began' = {}
  /\ UNCHANGED <<now, optimizerVars, ha, cache>>

Init ==
  /\ now = 0
  /\ run \in [at : {0}, ok : {TRUE}, start : {0}, levels : [Batteries -> Levels]]
  /\ unwritten = {}
  /\ ha = [e \in Entities |-> Record(Content(e, run), 0)]
  /\ cache = ha
  /\ began = {} /\ target = {}
  /\ before = Plan(run)

Next ==
  \/ \E ok \in BOOLEAN, levels \in [Batteries -> Levels] : Run(ok, levels)
  \/ \E e \in Entities : Write(e)
  \/ Restart \/ Tick \/ Begin \/ Evaluate

Spec == Init /\ [][Next]_vars

-----------------------------------------------------------------------------
Plans == [start : Times, levels : [Batteries -> Levels]]

(* The records are well formed, and a target is of the period that its       *)
(* evaluation is in, however old the forecast is (haeo_adapter.py:133-142).  *)
TypeOK ==
  /\ now \in Times
  /\ run \in [at : 0..now, ok : BOOLEAN, start : 0..now,
              levels : [Batteries -> Levels]]
  /\ unwritten \subseteq Entities
  /\ \A s \in {ha, cache} \cup {b.snapshot : b \in began} :
       /\ DOMAIN s = Entities
       /\ \A e \in Entities : /\ s[e].updated \in 0..s[e].reported
                              /\ s[e].reported \in 0..now
       /\ \A b \in Batteries : s[b].content \in [start : Times, level : Levels]
  /\ \A b \in began : b.at \in 0..now
  /\ before \in Plans
  /\ \A t \in target : /\ t.at \in 0..now /\ t.start <= t.from
                       /\ t.from <= t.at /\ t.at < t.from + Interval

(* Between publications.                                                    *)
Settled == unwritten = {}

(* A target between publications is the plan of the last run, whole, and only *)
(* if it succeeded: no retained forecast of another plan passes for it       *)
(* (haeo_adapter.py:115-129).                                               *)
SettledIsExact ==
  [][ Evaluate /\ Settled =>
        \A t \in target' : run.ok /\ t.start = run.start
                             /\ t.levels = run.levels ]_vars

(* And a run that the cache shows to be written in time is taken, whichever  *)
(* entity came first and whatever the run before it left                     *)
(* (haeo_adapter.py:85-131).  Of a repeated forecast, whose stamps in the     *)
(* cache are an earlier run's, nothing is asked: the code takes it, and       *)
(* docs/energy_v3/v3.1-shadow-runtime.md:31 has it rejected.                 *)
SettledIsTaken ==
  [][ Evaluate /\ Settled =>
        \A b \in began :
          /\ run.ok /\ Signature(b.snapshot) = Signature(cache)
          /\ b.at - run.at \in 0..MaxAge
          /\ \A e \in Batteries \cup {"STATUS"} :
               cache[e].reported - run.at \in 0..Tolerance
          => target' # {} ]_vars

(* Between publications a target follows the last run and no other.          *)
SettledIsTheRun == SettledIsExact /\ SettledIsTaken

(* While a run is being written, its plan and the one that it replaces mix only  *)
(* if they begin with the same period, as the retained forecasts of the next     *)
(* run of a period must pass (haeo_adapter.py:115-129): a target is never         *)
(* computed for a period that one of its forecasts does not begin with.          *)
PeriodsNeverMix ==
  [][ Evaluate => \A t \in target' :
        before.start # run.start => Plan(t) \in {before, Plan(run)} ]_vars
=============================================================================
