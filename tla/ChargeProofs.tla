---------------------------- MODULE ChargeProofs ----------------------------
(* Theorems about the charge of DEYE: about the target that is taken from      *)
(* HAEO's plan, for every interval, tolerance and age (HaeoPlan), and about the   *)
(* controller that follows it, for every value of its constants               *)
(* (ChargeController).                                                      *)
EXTENDS HaeoPlan, ChargeController, Induction, SequenceTheorems, TLAPS

(* What an entity may say.                                                  *)
Contents(e) ==
  CASE e = "STATUS" -> [ok : BOOLEAN, lastRun : Times]
    [] e = "HORIZON" -> [start : Times]
    [] OTHER -> [start : Times, level : Levels]

(* A snapshot of the entities that could be taken now.                       *)
Cell(e) == [content : Contents(e), updated : 0..now, reported : 0..now]

(* A copy of the entities.                                                  *)
Snapshot(s) ==
  /\ s = [e \in Entities |-> s[e]]
  /\ \A e \in Entities : s[e] \in Cell(e) /\ s[e].updated <= s[e].reported

(* The optimizer: its runs have times, and one of them is written or has still to be.*)
RunOK ==
  /\ now \in Times
  /\ run \in [at : 0..now, ok : BOOLEAN, start : 0..now,
              levels : [Batteries -> Levels]]
  /\ run.start <= run.at
  /\ unwritten \subseteq Entities
  /\ before \in Plans

(* What the entities say: those written are of the last run, the others of the  *)
(* plan that it replaces.                                                   *)
Published ==
  /\ \A e \in Entities \ unwritten : ha[e].content = Content(e, run)
  /\ \A e \in unwritten \ {"STATUS"} : ha[e].content = Content(e, before)
  /\ "STATUS" \in unwritten => ha["STATUS"].content.lastRun < run.at
  /\ unwritten = {} => before = Plan(run)

(* The cache differs from Home Assistant in the stamps of repetitions only, and *)
(* those it has are earlier.                                                *)
Cached ==
  /\ \A e \in Entities : /\ cache[e].content = ha[e].content
                         /\ cache[e].reported <= ha[e].reported
  /\ cache["STATUS"] = ha["STATUS"]

(* An evaluation took its snapshot lately, and a target is of the period it is in.*)
Evaluations ==
  /\ \A b \in began : b.at \in 0..now /\ Snapshot(b.snapshot)
  /\ \A a, b \in began : a = b
  /\ \A t \in target : /\ t.at \in 0..now /\ t.start <= t.from
                       /\ t.from <= t.at /\ t.at < t.from + Interval

(* The inductive invariant. SettledIsTheRun needs to know where a cache that is not*)
(* written to any more got its contents and stamps from: Published and Cached.*)
Inv == RunOK /\ Snapshot(ha) /\ Snapshot(cache) /\ Published /\ Cached /\ Evaluations

-----------------------------------------------------------------------------
LEMMA Names ==
  /\ "STATUS" \in Entities /\ "HORIZON" \in Entities /\ Batteries \subseteq Entities
  /\ \A b \in Batteries : b # "STATUS" /\ b # "HORIZON"
BY PlanAssumption DEF Entities

LEMMA ContentsOf ==
  /\ Contents("STATUS") = [ok : BOOLEAN, lastRun : Times]
  /\ Contents("HORIZON") = [start : Times]
  /\ \A b \in Batteries : Contents(b) = [start : Times, level : Levels]
BY Names DEF Contents

(* What a run writes, entity by entity.                                     *)
LEMMA ContentOf ==
  /\ \A r : Content("STATUS", r) = [ok |-> r.ok, lastRun |-> r.at]
  /\ \A r : Content("HORIZON", r) = [start |-> r.start]
  /\ \A b \in Batteries : \A r :
       Content(b, r) = [start |-> r.start, level |-> r.levels[b]]
BY Names DEF Content

(* Read field by field.                                                     *)
LEMMA FieldsOf ==
  /\ \A r : Content("STATUS", r).ok = r.ok /\ Content("STATUS", r).lastRun = r.at
  /\ \A r : Content("HORIZON", r).start = r.start
  /\ \A b \in Batteries : \A r : Content(b, r).start = r.start
                                 /\ Content(b, r).level = r.levels[b]
<1>1. ASSUME NEW r
      PROVE  Content("STATUS", r).ok = r.ok /\ Content("STATUS", r).lastRun = r.at
  <2>1. Content("STATUS", r) = [ok |-> r.ok, lastRun |-> r.at]
    BY ContentOf
  <2>. QED  BY <2>1
<1>2. ASSUME NEW r PROVE Content("HORIZON", r).start = r.start
  <2>1. Content("HORIZON", r) = [start |-> r.start]
    BY ContentOf
  <2>. QED  BY <2>1
<1>3. ASSUME NEW b \in Batteries, NEW r
      PROVE  Content(b, r).start = r.start /\ Content(b, r).level = r.levels[b]
  <2>1. Content(b, r) = [start |-> r.start, level |-> r.levels[b]]
    BY ContentOf
  <2>. QED  BY <2>1
<1>. QED  BY <1>1, <1>2, <1>3

(* But for the status, an entity tells of the plan of a run only.            *)
LEMMA ContentOfPlan ==
  \A q, r : q.start = r.start /\ q.levels = r.levels =>
    \A e \in Entities \ {"STATUS"} : Content(e, q) = Content(e, r)
BY Names DEF Content, Entities

LEMMA Periods ==
  ASSUME NEW t \in Nat
  PROVE  /\ PeriodOf(t) \in 0..t
         /\ t < PeriodOf(t) + Interval
<1>. t % Interval \in 0..(Interval - 1) /\ t % Interval <= t
  BY PlanAssumption
<1>. QED  BY PlanAssumption DEF PeriodOf

(* What a snapshot says keeps its type as time goes on.                      *)
LEMMA SnapshotsLast ==
  ASSUME RunOK, now' \in Times, now <= now', NEW s, Snapshot(s)
  PROVE  Snapshot(s)'
BY PlanAssumption DEF RunOK, Snapshot, Cell, Times

(* A forecast begins at a time.                                             *)
LEMMA StartIsATime ==
  ASSUME NEW s, Snapshot(s)
  PROVE  /\ s["HORIZON"].content.start \in Nat
         /\ \A b \in Batteries : s[b].content.start \in Nat
<1>1. Times \subseteq Nat
  BY PlanAssumption DEF Times
<1>2. s["HORIZON"].content \in [start : Times]
  BY Names, ContentsOf DEF Snapshot, Cell
<1>3. \A b \in Batteries : s[b].content \in [start : Times, level : Levels]
  BY Names, ContentsOf DEF Snapshot, Cell
<1>. QED  BY <1>1, <1>2, <1>3

(* What a run writes is something that the entity may say.                  *)
LEMMA ContentType ==
  ASSUME RunOK, NEW e \in Entities
  PROVE  Content(e, run) \in Contents(e)
<1>1. /\ run.ok \in BOOLEAN /\ run.at \in Times /\ run.start \in Times
      /\ run.levels \in [Batteries -> Levels]
  BY PlanAssumption DEF RunOK, Times
<1>2. CASE e = "STATUS"
  BY <1>1, <1>2, ContentOf, ContentsOf
<1>3. CASE e = "HORIZON"
  BY <1>1, <1>3, ContentOf, ContentsOf
<1>4. CASE e \in Batteries
  <2>1. /\ Content(e, run) = [start |-> run.start, level |-> run.levels[e]]
        /\ Contents(e) = [start : Times, level : Levels]
    BY <1>4, ContentOf, ContentsOf
  <2>. QED  BY <1>1, <1>4, <2>1
<1>. QED  BY <1>2, <1>3, <1>4 DEF Entities

-----------------------------------------------------------------------------
LEMMA Initial == Init => Inv
<1>. SUFFICES ASSUME Init PROVE Inv
  OBVIOUS
<1>1. RunOK
  <2>1. /\ run.at = 0 /\ run.ok = TRUE /\ run.start = 0
        /\ run.levels \in [Batteries -> Levels]
        /\ run = [at |-> run.at, ok |-> run.ok, start |-> run.start,
                  levels |-> run.levels]
    BY DEF Init
  <2>2. 0 \in Times
    BY PlanAssumption DEF Times
  <2>3. run \in [at : 0..now, ok : BOOLEAN, start : 0..now,
                levels : [Batteries -> Levels]]
    <3>1. now = 0 /\ 0 \in 0..0
      BY DEF Init
    <3>. QED  BY <2>1, <3>1
  <2>4. before = [start |-> 0, levels |-> run.levels]
    BY <2>1 DEF Init, Plan
  <2>5. before \in Plans
    BY <2>1, <2>2, <2>4 DEF Plans
  <2>6. run.start <= run.at
    BY <2>1
  <2>. QED  BY <2>2, <2>3, <2>5, <2>6 DEF Init, RunOK
<1>2. Snapshot(ha) /\ \A e \in Entities : ha[e].reported = 0 /\ ha[e].updated = 0 
                        /\ ha[e].content = Content(e, run)
  BY <1>1, ContentType DEF Init, Snapshot, Cell, Record
<1>3. Published /\ Evaluations
  BY <1>2 DEF Init, Published, Evaluations
<1>4. Cached
  BY <1>2, Names DEF Init, Cached
<1>. QED  BY <1>1, <1>2, <1>3, <1>4 DEF Init, Inv

(* A run of the optimizer leaves all it planned to be written.              *)
LEMMA RunStep ==
  ASSUME Inv, NEW ok \in BOOLEAN, NEW levels \in [Batteries -> Levels],
         Run(ok, levels)
  PROVE  Inv'
<1>1. before = Plan(run)
  BY DEF Run, Inv, Published
<1>2. RunOK'
  <2>1. now \in Nat /\ PeriodOf(now) \in 0..now
    BY Periods DEF Inv, RunOK, Times
  <2>2. CASE ok
    <3>1. run' = [at |-> now, ok |-> TRUE, start |-> PeriodOf(now), levels |-> levels]
      BY <2>2 DEF Run
    <3>2. run' \in [at : 0..now, ok : BOOLEAN, start : 0..now,
                    levels : [Batteries -> Levels]]
      BY <2>1, <3>1
    <3>3. run'.start <= run'.at
      BY <2>1, <3>1
    <3>4. unwritten' = Entities /\ now' = now /\ before' = before
      BY <2>2 DEF Run
    <3>. QED  BY <3>2, <3>3, <3>4 DEF Inv, RunOK
  <2>3. CASE ~ok
    <3>1. run' = [at |-> now, ok |-> FALSE, start |-> run.start, levels |-> run.levels]
      BY <2>3 DEF Run, Inv, RunOK
    <3>2. run' \in [at : 0..now, ok : BOOLEAN, start : 0..now,
                    levels : [Batteries -> Levels]]
      BY <2>1, <3>1 DEF Inv, RunOK
    <3>3. run'.start <= run'.at
      BY <2>1, <3>1 DEF Inv, RunOK
    <3>4. unwritten' \subseteq Entities /\ now' = now /\ before' = before
      BY <2>3, Names DEF Run
    <3>. QED  BY <3>2, <3>3, <3>4 DEF Inv, RunOK
  <2>. QED  BY <2>2, <2>3
<1>3. Published'
  <2>1. CASE ok
    <3>1. \A e \in Entities : ha'[e].content = Content(e, run)
      BY DEF Run, Inv, Published
    <3>2. \A e \in Entities \ {"STATUS"} : Content(e, run) = Content(e, Plan(run))
      BY ContentOfPlan DEF Plan
    <3>3. ha'["STATUS"].content.lastRun = run.at
      <4>1. ha'["STATUS"].content = Content("STATUS", run)
        BY <3>1, Names
      <4>. QED  BY <4>1, FieldsOf
    <3>4. run'.at = now /\ run.at < now
      BY <2>1 DEF Run
    <3>. QED  BY <1>1, <2>1, <3>1, <3>2, <3>3, <3>4, Names DEF Run, Published
  <2>2. CASE ~ok
    <3>0. run' = [at |-> now, ok |-> FALSE, start |-> run.start, levels |-> run.levels]
      BY <2>2 DEF Run, Inv, RunOK
    <3>1. \A e \in Entities \ {"STATUS"} : Content(e, run') = Content(e, run)
      BY <3>0, ContentOfPlan
    <3>2. ha["STATUS"].content.lastRun = run.at
      <4>1. ha["STATUS"].content = Content("STATUS", run)
        BY Names DEF Run, Inv, Published
      <4>. QED  BY <4>1, FieldsOf
    <3>. QED  BY <2>2, <3>0, <3>1, <3>2 DEF Run, Inv, Published, Plan
  <2>. QED  BY <2>1, <2>2
<1>. QED  BY <1>2, <1>3 DEF Run, Inv, Snapshot, Cell, Cached, Evaluations

(* A write leaves one entity of the last run less unwritten.                  *)
LEMMA WriteStep ==
  ASSUME Inv, NEW e \in Entities, Write(e)
  PROVE  Inv'
<1>1. /\ now \in Nat /\ now \in 0..now
      /\ Snapshot(ha) /\ Snapshot(cache) /\ RunOK /\ Cached /\ Published
  BY PlanAssumption DEF Inv, RunOK, Times
<1>2. /\ \A x \in Entities \ {e} : ha'[x] = ha[x] /\ cache'[x] = cache[x]
      /\ ha' = [x \in Entities |-> ha'[x]] /\ cache' = [x \in Entities |-> cache'[x]]
  BY <1>1 DEF Write, Snapshot
<1>3. Content(e, run) \in Contents(e)
  BY <1>1, ContentType
<1>4. /\ ha'[e] \in Cell(e) /\ ha'[e].content = Content(e, run)
      /\ ha'[e].updated <= ha'[e].reported
      /\ ha[e].reported <= ha'[e].reported
      /\ ha[e].content # Content(e, run) =>
           /\ cache'[e] = ha'[e] /\ ha'[e].updated = now /\ ha'[e].reported = now
      /\ ha[e].content = Content(e, run) => cache'[e] = cache[e]
  <2>1. /\ ha[e] \in Cell(e) /\ ha[e].updated <= ha[e].reported /\ e \in DOMAIN ha
        /\ e \in DOMAIN cache
    BY <1>1 DEF Snapshot
  <2>2. CASE ha[e].content = Content(e, run)
    <3>1. ha'[e] = [content |-> Content(e, run), updated |-> ha[e].updated, reported |-> now]
      BY <2>1, <2>2 DEF Write, Cell
    <3>. QED  BY <1>1, <1>3, <2>1, <2>2, <3>1 DEF Write, Cell
  <2>3. CASE ha[e].content # Content(e, run)
    <3>1. /\ ha'[e] = [content |-> Content(e, run), updated |-> now, reported |-> now]
          /\ cache'[e] = ha'[e]
      BY <2>1, <2>3 DEF Write, Record
    <3>. QED  BY <1>1, <1>3, <2>1, <2>3, <3>1 DEF Cell
  <2>. QED  BY <2>2, <2>3
<1>5. cache'[e] \in Cell(e) /\ cache'[e].updated <= cache'[e].reported
  BY <1>1, <1>4 DEF Snapshot
<1>6. Snapshot(ha') /\ Snapshot(cache')
  BY <1>1, <1>2, <1>4, <1>5 DEF Snapshot
<1>7. Plan(run) \in Plans
  BY <1>1, PlanAssumption DEF RunOK, Plan, Plans, Times
<1>8. RunOK'
  BY <1>1, <1>7 DEF Write, RunOK
<1>9. Published'
  <2>1. \A x \in Entities \ unwritten' : ha'[x].content = Content(x, run)
    BY <1>1, <1>2, <1>4 DEF Write, Published
  <2>2. \A x \in unwritten' \ {"STATUS"} : ha'[x].content = Content(x, before')
    BY <1>1, <1>2 DEF Write, Published, RunOK
  <2>3. "STATUS" \in unwritten' => ha'["STATUS"].content.lastRun < run.at
    BY <1>1, <1>2, Names DEF Write, Published
  <2>. QED  BY <2>1, <2>2, <2>3 DEF Write, Published
<1>10. Cached'
  <2>1. \A x \in Entities : /\ cache'[x].content = ha'[x].content
                            /\ cache'[x].reported <= ha'[x].reported
    <3>1. cache'[e].content = ha'[e].content /\ cache'[e].reported <= ha'[e].reported
      <4>1. CASE ha[e].content # Content(e, run)
        BY <1>1, <1>4, <4>1
      <4>2. CASE ha[e].content = Content(e, run)
        BY <1>1, <1>4, <1>5, <4>2 DEF Cached, Snapshot, Cell
      <4>. QED  BY <4>1, <4>2
    <3>. QED  BY <1>1, <1>2, <3>1 DEF Cached
  <2>2. cache'["STATUS"] = ha'["STATUS"]
    <3>1. CASE e = "STATUS"
      <4>1. Content("STATUS", run).lastRun = run.at
        BY FieldsOf
      <4>2. ha["STATUS"].content.lastRun < run.at /\ run.at \in Nat
        BY <1>1, <3>1 DEF Write, Published, RunOK
      <4>3. ha[e].content # Content(e, run)
        BY <3>1, <4>1, <4>2
      <4>. QED  BY <1>4, <3>1, <4>3
    <3>2. CASE e # "STATUS"
      BY <1>1, <1>2, <3>2, Names DEF Cached
    <3>. QED  BY <3>1, <3>2
  <2>. QED  BY <2>1, <2>2 DEF Cached, Write
<1>11. Evaluations'
  BY DEF Write, Inv, Evaluations, Snapshot, Cell
<1>. QED  BY <1>6, <1>8, <1>9, <1>10, <1>11 DEF Inv, Snapshot, Cell, Write

(* A restart of AppDaemon copies every entity.                              *)
LEMMA RestartStep ==
  ASSUME Inv, Restart
  PROVE  Inv'
<1>1. now \in Nat
  BY PlanAssumption DEF Inv, RunOK, Times
<1>2. Cached'
  <2>1. \A x \in Entities : ha[x].reported \in Nat
    BY <1>1 DEF Inv, Snapshot, Cell
  <2>. QED  BY <2>1 DEF Restart, Cached
<1>3. RunOK' /\ Published'
  BY <1>1 DEF Restart, optimizerVars, Inv, RunOK, Published
<1>. QED  BY <1>2, <1>3 DEF Restart, optimizerVars, Inv, Snapshot, Cell, Evaluations

LEMMA TickStep ==
  ASSUME Inv, Tick
  PROVE  Inv'
<1>1. /\ now \in Nat /\ now' = now + 1 /\ now' \in Times /\ began = {}
      /\ 0..now \subseteq 0..now'
  BY PlanAssumption DEF Tick, Inv, RunOK, Times
<1>2. RunOK'
  BY <1>1 DEF Tick, optimizerVars, Inv, RunOK
<1>3. Snapshot(ha)' /\ Snapshot(cache)'
  BY <1>1 DEF Tick, Inv, Snapshot, Cell
<1>4. Evaluations'
  BY <1>1 DEF Tick, Inv, Evaluations
<1>. QED
  BY <1>2, <1>3, <1>4 DEF Tick, optimizerVars, Inv, Published, Cached

LEMMA BeginStep ==
  ASSUME Inv, Begin
  PROVE  Inv'
<1>1. now \in 0..now
  BY PlanAssumption DEF Inv, RunOK, Times
<1>2. Evaluations'
  BY <1>1 DEF Begin, Inv, Evaluations, Snapshot, Cell
<1>. QED
  BY <1>2 DEF Begin, optimizerVars, Inv, RunOK, Snapshot, Cell, Published, Cached

(* The active period is the one of the evaluation.                           *)
LEMMA TargetOK ==
  ASSUME RunOK, NEW s, Snapshot(s), NEW at \in 0..now, NEW t \in Target(s, at)
  PROVE  /\ t.at \in 0..now /\ t.start <= t.from
         /\ t.from <= t.at /\ t.at < t.from + Interval
<1>. DEFINE start == s["HORIZON"].content.start
<1>1. /\ t.at = at /\ t.from = Active(s, at) /\ t.start = start /\ start <= at
  BY DEF Target
<1>2. start \in Nat /\ at \in Nat /\ at - start \in Nat /\ Interval \in Nat
  BY <1>1, StartIsATime, PlanAssumption DEF RunOK, Times
<1>3. /\ PeriodOf(at - start) \in 0..(at - start)
      /\ at - start < PeriodOf(at - start) + Interval
  BY <1>2, Periods
<1>4. Active(s, at) = start + PeriodOf(at - start)
  BY DEF Active
<1>. HIDE DEF start
<1>. QED  BY <1>1, <1>2, <1>3, <1>4

LEMMA EvaluateStep ==
  ASSUME Inv, Evaluate
  PROVE  Inv'
<1>1. PICK b \in began : target' = IF Signature(cache) = Signature(b.snapshot)
                                 THEN Target(cache, b.at) ELSE {}
  BY DEF Evaluate
<1>2. b.at \in 0..now
  BY DEF Inv, Evaluations
<1>3. Evaluations'
  BY <1>1, <1>2, TargetOK DEF Evaluate, optimizerVars, Inv, Evaluations
<1>. QED
  BY <1>3 DEF Evaluate, optimizerVars, Inv, RunOK, Snapshot, Cell, Published, Cached

LEMMA Step == Inv /\ [Next]_vars => Inv'
<1>. SUFFICES ASSUME Inv, [Next]_vars PROVE Inv'
  OBVIOUS
<1>1. CASE UNCHANGED vars
  BY <1>1 DEF vars, Inv, RunOK, Snapshot, Cell, Published, Cached, Evaluations
<1>2. CASE Next
  BY <1>2, RunStep, WriteStep, RestartStep, TickStep, BeginStep, EvaluateStep
  DEF Next
<1>. QED  BY <1>1, <1>2

LEMMA InvCorrect == Spec => []Inv
BY Initial, Step, PTL DEF Spec

LEMMA TypeKnown == Inv => TypeOK
<1>. SUFFICES ASSUME Inv PROVE TypeOK
  OBVIOUS
<1>1. \A s : Snapshot(s) =>
        /\ DOMAIN s = Entities
        /\ \A e \in Entities : s[e].updated \in 0..s[e].reported
                              /\ s[e].reported \in 0..now
  BY PlanAssumption DEF Snapshot, Cell, Inv, RunOK, Times
<1>2. \A s : Snapshot(s) =>
        \A b \in Batteries : s[b].content \in [start : Times, level : Levels]
  BY Names, ContentsOf DEF Snapshot, Cell
<1>. QED  BY <1>1, <1>2 DEF Inv, RunOK, Evaluations, TypeOK

(* The records are well formed, and a target is of the period that its evaluation*)
(* is in, however old the forecast is (haeo_adapter.py:133-142).            *)
THEOREM TypeCorrect == Spec => []TypeOK
BY InvCorrect, TypeKnown, PTL

-----------------------------------------------------------------------------
(* What an evaluation returns.                                               *)
LEMMA Evaluated ==
  ASSUME Inv, Evaluate
  PROVE  \E b \in began :
           /\ \A a \in began : a = b
           /\ b.at \in 0..now
           /\ target' = IF Signature(cache) = Signature(b.snapshot)
                        THEN Target(cache, b.at) ELSE {}
BY DEF Evaluate, Inv, Evaluations

(* An evaluation that accepts a settled plan takes its target from the last run.*)
LEMMA ExactStep ==
  ASSUME Inv, Evaluate, Settled, NEW t \in target'
  PROVE  run.ok /\ t.start = run.start /\ t.levels = run.levels
<1>1. PICK b \in began : t \in Target(cache, b.at)
  BY Evaluated
<1>2. /\ Succeeded(cache)
      /\ t.start = cache["HORIZON"].content.start
      /\ t.levels = [x \in Batteries |-> cache[x].content.level]
  BY <1>1 DEF Target
<1>3. \A e \in Entities : cache[e].content = Content(e, run)
  BY DEF Inv, Settled, Published, Cached
<1>4. /\ cache["STATUS"].content = Content("STATUS", run)
      /\ cache["HORIZON"].content = Content("HORIZON", run)
      /\ \A x \in Batteries : cache[x].content = Content(x, run)
  BY <1>3, Names
<1>5. run.ok /\ t.start = run.start
  BY <1>2, <1>4, FieldsOf DEF Succeeded
<1>6. \A x \in Batteries : cache[x].content.level = run.levels[x]
  BY <1>4, FieldsOf
<1>7. t.levels = run.levels
  BY <1>2, <1>6 DEF Inv, RunOK
<1>. QED  BY <1>5, <1>7

(* And one that finds a settled plan reported in time does not refuse it.     *)
LEMMA TakenStep ==
  ASSUME Inv, Evaluate, Settled, NEW b \in began,
         run.ok, Signature(b.snapshot) = Signature(cache),
         b.at - run.at \in 0..MaxAge,
         \A e \in Batteries \cup {"STATUS"} :
           cache[e].reported - run.at \in 0..Tolerance
  PROVE  target' # {}
<1>1. target' = Target(cache, b.at) /\ b.at \in 0..now
  BY Evaluated
<1>2. /\ cache["STATUS"].content = Content("STATUS", run)
      /\ cache["HORIZON"].content = Content("HORIZON", run)
      /\ \A x \in Batteries : cache[x].content = Content(x, run)
  <2>1. \A e \in Entities : cache[e].content = Content(e, run)
    BY DEF Inv, Settled, Published, Cached
  <2>. QED  BY <2>1, Names
<1>3. Succeeded(cache) /\ LastRun(cache) = run.at
  BY <1>2, FieldsOf DEF Succeeded, LastRun
<1>4. /\ cache["HORIZON"].content.start = run.start
      /\ \A x \in Batteries : cache[x].content.start = run.start
  <2>1. Content("HORIZON", run).start = run.start
    BY FieldsOf
  <2>2. \A x \in Batteries : Content(x, run).start = run.start
    BY FieldsOf
  <2>. QED  BY <1>2, <2>1, <2>2
<1>5. /\ run.at \in Nat /\ run.start \in Nat /\ run.start <= run.at
      /\ b.at \in Nat /\ MaxAge \in Nat /\ Tolerance \in Nat
      /\ \A e \in Entities : cache[e].reported \in Nat
  BY <1>1, PlanAssumption DEF Inv, RunOK, Times, Snapshot, Cell
<1>6. Current(cache, b.at)
  BY <1>3, <1>5 DEF Current
<1>7. cache["HORIZON"].content.start <= b.at
  BY <1>4, <1>5
<1>8. Coherent(cache, b.at)
  <2>1. \A e \in Entities \ {"HORIZON"} :
           run.at <= cache[e].reported /\ cache[e].reported <= run.at + Tolerance
    BY <1>5 DEF Entities
  <2>2. \A e \in Entities \ {"HORIZON"} : cache[e].reported <= b.at + Tolerance
    BY <1>1, <1>5, <2>1, Names
  <2>3. \A e \in Entities \ {"HORIZON"} : InTime(cache, e)
    BY <1>3, <2>1 DEF InTime
  <2>4. \A x, y \in {e \in Entities \ {"HORIZON"} : InTime(cache, e)} :
          cache[x].reported - cache[y].reported <= Tolerance
    BY <1>5, <2>1
  <2>. QED  BY <1>4, <2>2, <2>3, <2>4, Names DEF Coherent
<1>. QED  BY <1>1, <1>3, <1>6, <1>7, <1>8 DEF Target

(* Two forecasts that pass begin with the same period.                      *)
LEMMA MixStep ==
  ASSUME Inv, Evaluate, NEW t \in target', before.start # run.start
  PROVE  Plan(t) \in {before, Plan(run)}
<1>1. PICK b \in began : t \in Target(cache, b.at)
  BY Evaluated
<1>2. /\ t.start = cache["HORIZON"].content.start
      /\ t.levels = [x \in Batteries |-> cache[x].content.level]
      /\ \A x \in Batteries : cache[x].content.start = cache["HORIZON"].content.start
  BY <1>1 DEF Target, Coherent
<1>3. \A e \in Entities \ {"STATUS"} : \/ cache[e].content = Content(e, run)
                                      \/ cache[e].content = Content(e, before)
  BY DEF Inv, Published, Cached
<1>4. /\ t.start = run.start \/ t.start = before.start
      /\ \A x \in Batteries :
           \/ t.start = run.start /\ cache[x].content.level = run.levels[x]
           \/ t.start = before.start /\ cache[x].content.level = before.levels[x]
  <2>1. t.start = run.start \/ t.start = before.start
    <3>1. /\ Content("HORIZON", run).start = run.start
          /\ Content("HORIZON", before).start = before.start
      BY FieldsOf
    <3>. QED  BY <1>2, <1>3, <3>1, Names
  <2>2. ASSUME NEW x \in Batteries
        PROVE  \/ t.start = run.start /\ cache[x].content.level = run.levels[x]
               \/ t.start = before.start /\ cache[x].content.level = before.levels[x]
    <3>1. /\ Content(x, run).start = run.start
          /\ Content(x, run).level = run.levels[x]
          /\ Content(x, before).start = before.start
          /\ Content(x, before).level = before.levels[x]
      BY FieldsOf
    <3>. QED  BY <1>2, <1>3, <3>1, Names
  <2>. QED  BY <2>1, <2>2
<1>5. CASE t.start = run.start
  <2>1. t.levels = run.levels
    BY <1>2, <1>4, <1>5 DEF Inv, RunOK
  <2>. QED  BY <1>5, <2>1 DEF Plan
<1>6. CASE t.start = before.start
  <2>1. t.levels = before.levels
    BY <1>2, <1>4, <1>6 DEF Inv, RunOK, Plans
  <2>2. before = [start |-> before.start, levels |-> before.levels]
    BY DEF Inv, RunOK, Plans
  <2>. QED  BY <1>6, <2>1, <2>2 DEF Plan
<1>. QED  BY <1>4, <1>5, <1>6

(* Between publications a target is that of the last run and of no other, and a*)
(* run that is fresh and reported in time is not refused, in whatever order    *)
(* and at whatever pace it was written (haeo_adapter.py:72-142).            *)
THEOREM SettledCorrect == Spec => SettledIsTheRun
<1>1. Inv /\ [Next]_vars =>
        [ Evaluate /\ Settled =>
            \A t \in target' : run.ok /\ t.start = run.start
                                 /\ t.levels = run.levels ]_vars
  BY ExactStep
<1>2. Inv /\ [Next]_vars =>
        [ Evaluate /\ Settled =>
            \A b \in began :
              /\ run.ok /\ Signature(b.snapshot) = Signature(cache)
              /\ b.at - run.at \in 0..MaxAge
              /\ \A e \in Batteries \cup {"STATUS"} :
                   cache[e].reported - run.at \in 0..Tolerance
              => target' # {} ]_vars
  BY TakenStep
<1>. QED
  BY <1>1, <1>2, InvCorrect, PTL
  DEF Spec, SettledIsTheRun, SettledIsExact, SettledIsTaken

(* A target is never computed for a period that one of its forecasts does not*)
(* begin with, even while a run is being written (haeo_adapter.py:115-129). *)
THEOREM PeriodsCorrect == Spec => PeriodsNeverMix
<1>1. Inv /\ [Next]_vars =>
        [ Evaluate => \A t \in target' :
            before.start # run.start => Plan(t) \in {before, Plan(run)} ]_vars
  BY MixStep
<1>. QED  BY <1>1, InvCorrect, PTL DEF Spec, PeriodsNeverMix

-----------------------------------------------------------------------------
(* The clock of a start confirmation is never ahead of the time for which     *)
(* every evaluation has found the start conditions.                         *)
StartInv ==
  /\ since \in Nat
  /\ good \in {Broken} \cup 0..StartConfirm
  /\ state = "START_CONFIRMATION" =>
       good # Broken /\ (since <= good \/ good = StartConfirm)

(* The longest delay is a number: the maximum of four is one of them.       *)
LEMMA LongestIsANumber == Longest \in Nat
<1> DEFINE S == {StartConfirm, TransferConfirm, ReturnConfirm, Recovery}
<1>1. S \subseteq Nat
  BY ChargeAssumption
<1>2. \E x \in S : \A y \in S : x >= y
  <2>1. PICK a \in {StartConfirm, TransferConfirm} :
          a >= StartConfirm /\ a >= TransferConfirm
    BY ChargeAssumption
  <2>2. PICK b \in {ReturnConfirm, Recovery} :
          b >= ReturnConfirm /\ b >= Recovery
    BY ChargeAssumption
  <2>3. CASE a >= b
    BY <2>1, <2>2, <2>3, ChargeAssumption
  <2>4. CASE b >= a
    BY <2>1, <2>2, <2>4, ChargeAssumption
  <2> QED BY <2>1, <2>2, <2>3, <2>4, ChargeAssumption
<1>3. Max(S) \in S
  BY <1>2 DEF Max
<1> QED BY <1>1, <1>3 DEF Longest

(* A clock that goes on stays a number, and is past a delay only when the     *)
(* time since it started is.                                                *)
LEMMA ElapsedIsReal ==
  ASSUME since \in Nat, NEW gap \in 1..MaxGap
  PROVE  /\ Elapsed(gap) \in Nat
         /\ Elapsed(gap) <= since + gap
<1>1. Longest \in Nat
  BY LongestIsANumber, ChargeAssumption
<1>2. gap \in Nat
  BY ChargeAssumption
<1> QED BY <1>1, <1>2 DEF Elapsed, AtMost

(* A state that is entered or kept has a clock of its kind.                  *)
LEMMA ClockIsTyped ==
  ASSUME ControlTypeOK, NEW gap \in 1..MaxGap
  PROVE  /\ \A to \in States : Enter(gap, to) =>
              /\ state' \in States /\ since' \in 0..Longest
              /\ state' \notin Timed => since' = 0
         /\ Stay(gap) => state' = state /\ since' \in 0..Longest
<1>1. Elapsed(gap) \in 0..Longest
  BY LongestIsANumber, ChargeAssumption DEF ControlTypeOK, Elapsed, AtMost
<1>2. 0 \in 0..Longest
  BY LongestIsANumber
<1> QED  BY <1>1, <1>2 DEF ControlTypeOK, Enter, Stay

(* The history goes on, or starts at zero, while the conditions hold.       *)
LEMMA GoodIsCounted ==
  ASSUME StartInv, NEW gap \in 1..MaxGap, NEW in \in Telemetry,
         Remember(gap, in)
  PROVE  /\ good' \in {Broken} \cup 0..StartConfirm
         /\ Eligible(in) => good' # Broken
         /\ Eligible(in) /\ good # Broken =>
              good' >= good + gap \/ good' = StartConfirm
  BY ChargeAssumption DEF StartInv, Remember, Lasted, Broken, AtMost

(* A step of the state machine keeps the invariant, and enters a charging     *)
(* state from without only when the start conditions have lasted.           *)
LEMMA ProceedStep ==
  ASSUME StartInv, NEW gap \in 1..MaxGap, NEW in \in Telemetry,
         Proceed(gap, in), Remember(gap, in)
  PROVE  /\ StartInv'
         /\ state \notin Charging /\ state' \in Charging => good' = StartConfirm
<1> USE ChargeAssumption
<1>0. since \in Nat /\ Elapsed(gap) \in Nat /\ Elapsed(gap) <= since + gap
  BY ElapsedIsReal DEF StartInv
<1>1. /\ good' \in {Broken} \cup 0..StartConfirm
      /\ Eligible(in) => good' # Broken
      /\ Eligible(in) /\ good # Broken =>
           good' >= good + gap \/ good' = StartConfirm
  BY GoodIsCounted
<1>2. since' \in Nat
  BY <1>0 DEF Proceed, GiveWay, AwaitRecovery, AwaitStart, ConfirmStart, Charge,
       ConfirmTransfer, TryReturn, ConfirmReturn, Enter, Stay
<1>3. CASE GiveWay(gap, in)
  BY <1>1, <1>2, <1>3 DEF GiveWay, Enter, StartInv, Charging
<1>4. CASE AwaitRecovery(gap, in)
  BY <1>1, <1>2, <1>4 DEF AwaitRecovery, Stay, StartInv, Charging
<1>5. CASE AwaitStart(gap, in)
  BY <1>1, <1>2, <1>5 DEF AwaitStart, Enter, StartInv, Charging, Broken
<1>6. CASE ConfirmStart(gap, in)
  <2>1. good # Broken /\ (since <= good \/ good = StartConfirm)
    BY <1>6 DEF ConfirmStart, StartInv
  <2>2. CASE ~Eligible(in)
    BY <1>1, <1>2, <1>6, <2>2 DEF ConfirmStart, Enter, StartInv, Charging
  <2>3. CASE Eligible(in) /\ Elapsed(gap) >= StartConfirm
    <3>1. good' = StartConfirm
      BY <1>0, <1>1, <2>1, <2>3 DEF StartInv, Broken
    <3>2. state' = "CHARGE_DEYE_FULL"
      BY <1>0, <1>6, <2>3 DEF ConfirmStart, Enter
    <3> QED BY <1>1, <1>2, <3>1, <3>2 DEF StartInv
  <2>4. CASE Eligible(in) /\ Elapsed(gap) < StartConfirm
    <3>1. state' = "START_CONFIRMATION" /\ since' = Elapsed(gap)
      BY <1>0, <1>6, <2>4 DEF ConfirmStart, Stay
    <3>2. since' <= good' \/ good' = StartConfirm
      BY <1>0, <1>1, <2>1, <2>4, <3>1 DEF StartInv, Broken
    <3> QED BY <1>1, <1>2, <2>4, <3>1, <3>2 DEF StartInv, Charging
  <2> QED BY <1>0, <2>2, <2>3, <2>4
<1>7. CASE Charge(gap, in)
  BY <1>1, <1>2, <1>7 DEF Charge, Enter, StartInv, Charging
<1>8. CASE ConfirmTransfer(gap, in)
  BY <1>1, <1>2, <1>8 DEF ConfirmTransfer, Enter, Stay, StartInv, Charging
<1>9. CASE TryReturn(gap, in)
  BY <1>1, <1>2, <1>9 DEF TryReturn, Enter, StartInv, Charging
<1>10. CASE ConfirmReturn(gap, in)
  BY <1>1, <1>2, <1>10 DEF ConfirmReturn, Enter, StartInv, Charging
<1> QED
  BY <1>3, <1>4, <1>5, <1>6, <1>7, <1>8, <1>9, <1>10 DEF Proceed

(* Every step of the state machine leaves a state with a clock of its kind.   *)
LEMMA ProceedTyped ==
  ASSUME ControlTypeOK, NEW gap \in 1..MaxGap, NEW in \in Telemetry, Proceed(gap, in)
  PROVE  /\ state' \in States /\ since' \in 0..Longest
         /\ state' \notin Timed => since' = 0
<1>1. /\ \A to \in States : Enter(gap, to) =>
           /\ state' \in States /\ since' \in 0..Longest
           /\ state' \notin Timed => since' = 0
      /\ Stay(gap) => state' = state /\ since' \in 0..Longest
  BY ClockIsTyped
<1>2. CASE \E to \in States : Enter(gap, to)
  BY <1>1, <1>2
<1>3. CASE Stay(gap) /\ state \in Timed
  BY <1>1, <1>3 DEF Timed, States
<1>4. (\E to \in States : Enter(gap, to)) \/ (Stay(gap) /\ state \in Timed)
  <2>1. ASSUME NEW to, Enter(gap, to), to \in States
        PROVE  \E at \in States : Enter(gap, at)
    BY <2>1
  <2>2. /\ \A to \in {"SOLAX_PRIORITY", "START_CONFIRMATION", "FAULT",
                      "WAITING_FOR_SOLAX", "CHARGE_DEYE_FULL",
                      "TRANSFER_CONFIRMATION", "CHARGE_DEYE_LIMITED",
                      "RETURN_CONFIRMATION"} : to \in States
        /\ {"FAULT", "START_CONFIRMATION", "TRANSFER_CONFIRMATION"}
             \subseteq Timed
    BY DEF States, Timed
  <2>. QED
    BY <2>1, <2>2
    DEF Proceed, GiveWay, AwaitRecovery, AwaitStart, ConfirmStart, Charge,
        ConfirmTransfer, TryReturn, ConfirmReturn
<1> QED  BY <1>2, <1>3, <1>4

(* A tick keeps the invariant and starts a charge as ProceedStep says.      *)
LEMMA ControlTickStep ==
  ASSUME StartInv, [ControlTick]_controlVars
  PROVE  /\ StartInv'
         /\ state \notin Charging /\ state' \in Charging => good' = StartConfirm
<1>1. ASSUME NEW gap \in 1..MaxGap, Disable(gap) \/ Fault(gap), Forget(gap)
      PROVE  /\ StartInv'
             /\ state' \notin Charging
  <2>1. since' \in Nat
    BY <1>1, ElapsedIsReal DEF StartInv, Disable, Fault, Enter
  <2> QED
    BY <1>1, <2>1 DEF StartInv, Disable, Fault, Enter, Forget, Charging
<1>2. CASE UNCHANGED controlVars
  BY <1>2 DEF controlVars, StartInv
<1>3. CASE ControlTick
  BY <1>1, <1>3, ProceedStep DEF ControlTick
<1> QED BY <1>2, <1>3

(* Charging begins only at the end of a period of StartConfirm in which every  *)
(* evaluation found valid telemetry and the start conditions                 *)
(* (charge_controller.py:184-198).                                          *)
THEOREM StartCorrect == ControlSpec => StartIsConfirmed
<1>1. ControlInit => StartInv
  BY ChargeAssumption DEF ControlInit, StartInv, Broken
<1>2. StartInv /\ [ControlTick]_controlVars => StartInv'
  BY ControlTickStep
<1>3. StartInv /\ [ControlTick]_controlVars =>
        [state \notin Charging /\ state' \in Charging => good' = StartConfirm]_controlVars
  BY ControlTickStep
<1> QED BY <1>1, <1>2, <1>3, PTL DEF ControlSpec, StartIsConfirmed

(* The state has its clock, and the histories their bounds.                  *)
THEOREM ControlTypeCorrect == ControlSpec => []ControlTypeOK
<1>1. ControlInit => ControlTypeOK
  BY LongestIsANumber, ChargeAssumption DEF ControlInit, ControlTypeOK, States,
      Timed, Broken
<1>2. ASSUME ControlTypeOK, [ControlTick]_controlVars PROVE ControlTypeOK'
  <2>1. ASSUME NEW gap \in 1..MaxGap, Disable(gap) \/ Fault(gap), Forget(gap)
        PROVE  ControlTypeOK'
    <3>1. \E to \in States : Enter(gap, to)
      BY <2>1 DEF Disable, Fault, States
    <3>2. /\ state' \in States /\ since' \in 0..Longest
          /\ state' \notin Timed => since' = 0
      BY <1>2, <3>1, ClockIsTyped
    <3>3. below' \in [Nets -> {Broken} \cup 0..Window]
      BY <1>2, <2>1, ChargeAssumption
      DEF ControlTypeOK, Forget, AtMost, Broken
    <3>. QED  BY <2>1, <3>2, <3>3 DEF Forget, ControlTypeOK
  <2>2. ASSUME NEW gap \in 1..MaxGap, NEW in \in Telemetry, Proceed(gap, in),
               Remember(gap, in)
        PROVE  ControlTypeOK'
    <3>1. /\ good' \in {Broken} \cup 0..StartConfirm
          /\ feeding' \in {Broken} \cup 0..TransferConfirm
          /\ below' \in [Nets -> {Broken} \cup 0..Window]
      BY <1>2, <2>2, ChargeAssumption
      DEF ControlTypeOK, Remember, Lasted, Broken, AtMost
    <3>. QED  BY <1>2, <2>2, <3>1, ProceedTyped DEF ControlTypeOK
  <2>3. CASE UNCHANGED controlVars
    BY <1>2, <2>3 DEF controlVars, ControlTypeOK
  <2>. QED  BY <1>2, <2>1, <2>2, <2>3 DEF ControlTick
<1> QED  BY <1>1, <1>2, PTL DEF ControlSpec

-----------------------------------------------------------------------------
(* A sample of the window.                                                  *)
Samples == [age : 0..(2 * Window + 1), net : Int]

(* The window holds samples in the order in which they were taken.            *)
Ordered(s) ==
  /\ s \in Seq(Samples)
  /\ \A i, j \in 1..Len(s) : i < j => s[i].age >= s[j].age

(* A sample of more than b was followed by one at least t ago.                *)
Bounded(s, t, b) ==
  \A i \in 1..Len(s) :
    s[i].net <= b \/ \E p \in (i + 1)..Len(s) : s[p].age >= t

(* Which samples bound the window, for every net reading.                     *)
Measured ==
  /\ below \in [Nets -> {Broken} \cup 0..Window]
  /\ \A b \in Nets : below[b] # Broken => Bounded(samples, below[b], b)

(* The inductive invariant of the limit: what was above a reading is as old as    *)
(* the history says, and the clock of a transfer confirmation is never ahead of   *)
(* the time for which every evaluation has found one.                         *)
LimitInv ==
  /\ since \in Nat /\ Ordered(samples) /\ Measured
  /\ feeding \in {Broken} \cup 0..TransferConfirm
  /\ feeding # Broken => Len(samples) >= 1
  /\ state = "TRANSFER_CONFIRMATION" =>
       feeding # Broken /\ (since <= feeding \/ feeding = TransferConfirm)

LEMMA NetsAreNumbers == \A b \in Nets : b \in Int
BY ChargeAssumption DEF Nets

(* The sums of _limited (charge_controller.py:106-123) are sums over an interval. *)
LEMMA TotalIsSum ==
  ASSUME NEW s, NEW f, f = [i \in DOMAIN s |-> s[i].net * Held(s, i)]
  PROVE  Total(s) = SumOver(f, DOMAIN s)
<1>. DEFINE T(g) == [c \in SUBSET DOMAIN s |->
                       IF c = {} THEN 0
                       ELSE s[CHOOSE x \in c : TRUE].net * Held(s, CHOOSE x \in c : TRUE)
                              + g[c \ {CHOOSE x \in c : TRUE}]]
<1>1. Total(s) = (CHOOSE g : g = T(g))[DOMAIN s]
  BY DEF Total, MapThenSumSet, MapThenFoldSet
<1>2. ASSUME NEW g PROVE T(g) = Table(f, DOMAIN s, g)
  <2>1. \A c \in SUBSET DOMAIN s : c # {} => (CHOOSE x \in c : TRUE) \in c
    OBVIOUS
  <2>2. \A c \in SUBSET DOMAIN s : c # {} =>
          f[CHOOSE x \in c : TRUE] =
            s[CHOOSE x \in c : TRUE].net * Held(s, CHOOSE x \in c : TRUE)
    BY <2>1
  <2>. QED  BY <2>2 DEF Table
<1>. HIDE DEF T
<1>3. \A g : g = T(g) <=> g = Table(f, DOMAIN s, g)
  BY <1>2
<1>4. (CHOOSE g : g = T(g)) = (CHOOSE g : g = Table(f, DOMAIN s, g))
  BY <1>3
<1>. QED  BY <1>1, <1>4 DEF SumOver

LEMMA CoveredIsSum ==
  ASSUME NEW s, NEW f, f = [i \in DOMAIN s |-> Held(s, i)]
  PROVE  Covered(s) = SumOver(f, DOMAIN s)
<1>. DEFINE T(g) == [c \in SUBSET DOMAIN s |->
                       IF c = {} THEN 0
                       ELSE Held(s, CHOOSE x \in c : TRUE)
                              + g[c \ {CHOOSE x \in c : TRUE}]]
<1>1. Covered(s) = (CHOOSE g : g = T(g))[DOMAIN s]
  BY DEF Covered, MapThenSumSet, MapThenFoldSet
<1>2. ASSUME NEW g PROVE T(g) = Table(f, DOMAIN s, g)
  <2>1. \A c \in SUBSET DOMAIN s : c # {} => (CHOOSE x \in c : TRUE) \in c
    OBVIOUS
  <2>2. \A c \in SUBSET DOMAIN s : c # {} =>
          f[CHOOSE x \in c : TRUE] = Held(s, CHOOSE x \in c : TRUE)
    BY <2>1
  <2>. QED  BY <2>2 DEF Table
<1>. HIDE DEF T
<1>3. \A g : g = T(g) <=> g = Table(f, DOMAIN s, g)
  BY <1>2
<1>4. (CHOOSE g : g = T(g)) = (CHOOSE g : g = Table(f, DOMAIN s, g))
  BY <1>3
<1>. QED  BY <1>1, <1>4 DEF SumOver

(* A sample counts for the part of the window in which it was the last.        *)
LEMMA HeldIs ==
  ASSUME NEW s, Ordered(s), NEW i \in 1..Len(s)
  PROVE  /\ Held(s, i) \in Nat /\ s[i].net \in Int
         /\ i < Len(s) /\ s[i + 1].age >= Window => Held(s, i) = 0
         /\ i < Len(s) /\ s[i + 1].age = 0 /\ s[i].age > 0 => Held(s, i) > 0
<1>1. s[i] \in Samples /\ Len(s) \in Nat
  BY DEF Ordered
<1>2. i < Len(s) => i + 1 \in 1..Len(s) /\ s[i + 1] \in Samples /\ s[i].age >= s[i + 1].age
  BY <1>1 DEF Ordered
<1>3. Window \in Nat \ {0}
  BY ChargeAssumption
<1>4. s[i].age \in Nat /\ s[i].net \in Int /\ (i < Len(s) => s[i + 1].age \in Nat)
  BY <1>1, <1>2 DEF Samples
<1>. QED  BY <1>1, <1>2, <1>3, <1>4 DEF Held, AtLeast, AtMost

(* If what is above b is older than the window, the averages are not above it.  *)
LEMMA AverageBounded ==
  ASSUME NEW s, Ordered(s), NEW b \in Int,
         Len(s) >= 2, s[Len(s)].age = 0, s[Len(s) - 1].age > 0
  PROVE  /\ Covered(s) \in Nat \ {0} /\ Total(s) \in Int
         /\ Bounded(s, Window, b) => Total(s) <= b * Covered(s)
<1>. DEFINE n == Len(s)
            f == [i \in DOMAIN s |-> s[i].net * Held(s, i)]
            w == [i \in DOMAIN s |-> Held(s, i)]
<1>0. DOMAIN s = 1..n /\ n \in Nat
  BY DEF Ordered
<1>1. Total(s) = SumOver(f, 1..n) /\ Covered(s) = SumOver(w, 1..n)
  BY <1>0, TotalIsSum, CoveredIsSum
<1>2. \A i \in 1..n : /\ Held(s, i) \in Nat /\ s[i].net \in Int
                      /\ s[i].net * Held(s, i) \in Int
  BY HeldIs
<1>3. \A i \in 1..n : f[i] = s[i].net * Held(s, i) /\ w[i] = Held(s, i)
  BY <1>0
<1>. HIDE DEF f, w
<1>4. Numbers(f, 1..n) /\ Numbers(w, 1..n) /\ \A i \in 1..n : w[i] \in Nat
  BY <1>2, <1>3 DEF Numbers
<1>7. ASSUME Bounded(s, Window, b), NEW i \in 1..n PROVE f[i] <= b * w[i]
  <2>1. CASE s[i].net <= b
    <3>1. \A x, y \in Int, h \in Nat : x <= y => x * h <= y * h
      OBVIOUS
    <3>2. s[i].net * Held(s, i) <= b * Held(s, i)
      BY <1>2, <2>1, <3>1
    <3>. QED  BY <1>3, <3>2
  <2>2. CASE \E p \in (i + 1)..n : s[p].age >= Window
    <3>1. PICK p \in (i + 1)..n : s[p].age >= Window
      BY <2>2
    <3>2. /\ i < Len(s) /\ i + 1 \in 1..n /\ p \in 1..n
          /\ i + 1 = p \/ i + 1 < p
      BY <1>0, <3>1
    <3>3. s[i + 1].age >= Window
      <4>1. CASE i + 1 = p
        BY <3>1, <4>1
      <4>2. CASE i + 1 < p
        <5>1. s[i + 1].age >= s[p].age
          BY <3>2, <4>2 DEF Ordered
        <5>2. s[i + 1] \in Samples /\ s[p] \in Samples
          BY <3>2 DEF Ordered
        <5>. QED  BY <3>1, <5>1, <5>2, ChargeAssumption DEF Samples
      <4>. QED  BY <3>2, <4>1, <4>2
    <3>4. Held(s, i) = 0
      BY <3>2, <3>3, HeldIs
    <3>5. \A x \in Int : x * 0 = 0
      OBVIOUS
    <3>6. s[i].net * Held(s, i) = 0 /\ b * Held(s, i) = 0
      BY <1>2, <3>4, <3>5
    <3>7. f[i] = 0 /\ b * w[i] = 0
      BY <1>3, <3>6
    <3>. QED  BY <3>7
  <2>. QED  BY <1>7, <2>1, <2>2 DEF Bounded
<1>8. n - 1 \in 1..n /\ w[n - 1] > 0
  <2>1. n - 1 \in 1..n /\ n - 1 < Len(s) /\ (n - 1) + 1 = n
    BY <1>0
  <2>2. Held(s, n - 1) > 0
    BY <2>1, HeldIs
  <2>. QED  BY <1>3, <2>1, <2>2
<1>. HIDE DEF n
<1>9. SumOver(w, 1..n) \in Nat \ {0}
  BY <1>0, <1>4, <1>8, SumPositive
<1>10. Bounded(s, Window, b) => SumOver(f, 1..n) <= b * SumOver(w, 1..n)
  BY <1>0, <1>4, <1>7, SumBounded
<1>11. SumOver(f, 1..n) \in Int
  BY <1>0, <1>4, SumOfInterval
<1>. QED  BY <1>1, <1>9, <1>10, <1>11

(* _limited: of averages that are bounded, the limit is.                     *)
LEMMA LimitBounded ==
  ASSUME NEW s, NEW b \in Int, Covered(s) \in Nat \ {0}, Total(s) \in Int
  PROVE  /\ Limit(s) \in 0..Maximum
         /\ Total(s) <= b * Covered(s) => Limit(s) <= AtLeast(b - Reserve, 0)
<1>. DEFINE C == Covered(s)
            safe == Total(s) - Reserve * C
            q == safe \div C
<1>0. Reserve \in Nat /\ MinimumSafe \in Nat /\ Maximum \in Nat
  BY ChargeAssumption
<1>1. C \in Nat \ {0} /\ Reserve * C \in Int /\ safe \in Int
  BY <1>0
<1>2. ASSUME Total(s) <= b * C PROVE safe <= (b - Reserve) * C
  <2>1. (b - Reserve) * C = b * C - Reserve * C
    BY <1>0
  <2>2. \A x, y, z \in Int : x <= y => x - z <= y - z
    OBVIOUS
  <2>3. b * C \in Int
    OBVIOUS
  <2>4. Total(s) - Reserve * C <= b * C - Reserve * C
    <3>. DEFINE rc == Reserve * C
    <3>. HIDE DEF rc
    <3>1. rc \in Int
      BY <1>1 DEF rc
    <3>2. Total(s) - rc <= b * C - rc
      BY <1>2, <2>2, <2>3, <3>1
    <3>. QED  BY <3>2 DEF rc
  <2>. QED  BY <2>1, <2>4
<1>3. q \in Int /\ (Total(s) <= b * C => q <= b - Reserve)
  <2>. DEFINE d == b - Reserve
  <2>1. d \in Int
    BY <1>0
  <2>2. \A x, y \in Int, k \in Nat \ {0} :
          x \div k \in Int /\ (x <= y * k => x \div k <= y)
    OBVIOUS
  <2>. HIDE DEF safe, d
  <2>3. Total(s) <= b * C => safe <= d * C
    BY <1>2 DEF d
  <2>. HIDE DEF C
  <2>4. safe \div C \in Int /\ (Total(s) <= b * C => safe \div C <= d)
    BY <1>1, <2>1, <2>2, <2>3
  <2>. QED  BY <2>4 DEF d
<1>4. Limit(s) = IF safe < MinimumSafe * C THEN 0 ELSE AtMost(AtLeast(q, 0), Maximum)
  BY DEF Limit
<1>. HIDE DEF q, safe
<1>5. Limit(s) \in 0..Maximum
  BY <1>0, <1>3, <1>4 DEF AtMost, AtLeast
<1>6. ASSUME Total(s) <= b * C PROVE Limit(s) <= AtLeast(b - Reserve, 0)
  <2>1. q \in Int /\ q <= b - Reserve
    BY <1>3, <1>6
  <2>. QED  BY <1>0, <1>4, <2>1 DEF AtMost, AtLeast
<1>. QED  BY <1>5, <1>6

-----------------------------------------------------------------------------
(* Time passes in the window.                                               *)
LEMMA OlderIs ==
  ASSUME Ordered(samples), NEW gap \in 1..MaxGap
  PROVE  /\ Ordered(Older(gap)) /\ Len(Older(gap)) = Len(samples)
         /\ \A i \in 1..Len(samples) :
              /\ Older(gap)[i].net = samples[i].net
              /\ Older(gap)[i].age = AtMost(samples[i].age + gap, 2 * Window + 1)
              /\ Older(gap)[i].age > 0
<1>. DEFINE o == Older(gap)
            n == Len(samples)
<1>0. /\ Window \in Nat \ {0} /\ gap \in Nat \ {0}
      /\ n \in Nat /\ DOMAIN samples = 1..n
  BY ChargeAssumption DEF Ordered
<1>1. \A i \in 1..n : /\ samples[i] \in Samples
                      /\ samples[i].age \in 0..(2 * Window + 1) /\ samples[i].net \in Int
  <2>1. \A i \in 1..n : samples[i] \in Samples
    BY DEF Ordered
  <2>. QED  BY <2>1 DEF Samples
<1>2. o = [i \in 1..n |-> [samples[i] EXCEPT !.age = AtMost(@ + gap, 2 * Window + 1)]]
  BY <1>0 DEF Older
<1>3. ASSUME NEW i \in 1..n
      PROVE  /\ o[i] \in Samples /\ o[i].net = samples[i].net
             /\ o[i].age = AtMost(samples[i].age + gap, 2 * Window + 1) /\ o[i].age > 0
  <2>1. o[i] = [samples[i] EXCEPT !.age = AtMost(@ + gap, 2 * Window + 1)]
    BY <1>2
  <2>2. /\ AtMost(samples[i].age + gap, 2 * Window + 1) \in 0..(2 * Window + 1)
        /\ AtMost(samples[i].age + gap, 2 * Window + 1) > 0
    BY <1>0, <1>1 DEF AtMost
  <2>3. samples[i] \in Samples
    BY <1>1
  <2>. HIDE DEF o
  <2>. QED  BY <2>1, <2>2, <2>3 DEF Samples
<1>4. o \in Seq(Samples) /\ Len(o) = n
  <2>1. o = [i \in 1..n |-> o[i]]
    BY <1>2
  <2>. HIDE DEF o
  <2>2. o \in [1..n -> Samples]
    BY <1>3, <2>1
  <2>. HIDE DEF n
  <2>3. o \in Seq(Samples)
    BY <1>0, <2>2 
  <2>. QED  BY <1>0, <2>2, <2>3, LenProperties
<1>5. ASSUME NEW i \in 1..n, NEW j \in 1..n, i < j
      PROVE  o[i].age >= o[j].age
  <2>1. samples[i].age >= samples[j].age
    BY <1>5 DEF Ordered
  <2>. HIDE DEF o
  <2>. QED  BY <1>0, <1>1, <1>3, <2>1 DEF AtMost
<1>. QED  BY <1>3, <1>4, <1>5 DEF Ordered

(* As it passes, what bounds the window ages.                                *)
LEMMA OlderBounded ==
  ASSUME Ordered(samples), NEW gap \in 1..MaxGap, NEW b, NEW t \in 0..Window,
         Bounded(samples, t, b)
  PROVE  /\ AtMost(t + gap, Window) \in 0..Window
         /\ Bounded(Older(gap), AtMost(t + gap, Window), b)
<1>. DEFINE o == Older(gap)
            n == Len(samples)
<1>0. Window \in Nat \ {0} /\ gap \in Nat \ {0} /\ n \in Nat
  BY ChargeAssumption DEF Ordered
<1>1. /\ Len(o) = n
      /\ \A i \in 1..n : /\ o[i].net = samples[i].net
                         /\ o[i].age = AtMost(samples[i].age + gap, 2 * Window + 1)
  BY OlderIs
<1>2. \A i \in 1..n : samples[i].age \in Nat
  <2>1. \A i \in 1..n : samples[i] \in Samples
    BY DEF Ordered
  <2>. QED  BY <1>0, <2>1 DEF Samples
<1>3. ASSUME NEW p \in 1..n, samples[p].age >= t
      PROVE  o[p].age >= AtMost(t + gap, Window)
  <2>. HIDE DEF o
  <2>. QED  BY <1>0, <1>1, <1>2, <1>3 DEF AtMost
<1>4. ASSUME NEW i \in 1..n
      PROVE  \/ o[i].net <= b
             \/ \E p \in (i + 1)..n : o[p].age >= AtMost(t + gap, Window)
  <2>1. CASE samples[i].net <= b
    BY <1>1, <2>1
  <2>2. ASSUME NEW p \in (i + 1)..n, samples[p].age >= t
        PROVE  o[p].age >= AtMost(t + gap, Window)
    <3>1. p \in 1..n
      BY <1>0
    <3>. QED  BY <1>3, <2>2, <3>1
  <2>. HIDE DEF o
  <2>. QED  BY <2>1, <2>2 DEF Bounded
<1>5. AtMost(t + gap, Window) \in 0..Window
  BY <1>0 DEF AtMost
<1>. HIDE DEF o
<1>. QED  BY <1>1, <1>4, <1>5 DEF Bounded, o

(* An evaluation without a reading holds the last one.                        *)
LEMMA ForgetMeasured ==
  ASSUME Ordered(samples), Measured, NEW gap \in 1..MaxGap, Forget(gap),
         samples' = Older(gap)
  PROVE  Measured'
<1>0. /\ Window \in Nat \ {0} /\ gap \in Nat \ {0} /\ Broken = -1
      /\ below \in [Nets -> {Broken} \cup 0..Window]
  BY ChargeAssumption DEF Measured, Broken
<1>1. below' = [b \in Nets |-> IF below[b] = Broken THEN Broken
                               ELSE AtMost(below[b] + gap, Window)]
  BY DEF Forget
<1>2. ASSUME NEW b \in Nets, below[b] # Broken
      PROVE  /\ AtMost(below[b] + gap, Window) \in 0..Window
             /\ Bounded(Older(gap), AtMost(below[b] + gap, Window), b)
  <2>1. below[b] \in 0..Window /\ Bounded(samples, below[b], b)
    BY <1>0, <1>2 DEF Measured
  <2>. QED  BY <2>1, OlderBounded
<1>3. below' \in [Nets -> {Broken} \cup 0..Window]
  BY <1>1, <1>2
<1>4. ASSUME NEW b \in Nets, below'[b] # Broken
      PROVE  Bounded(samples', below'[b], b)
  <2>1. below[b] # Broken /\ below'[b] = AtMost(below[b] + gap, Window)
    BY <1>1, <1>4
  <2>. QED  BY <1>2, <2>1
<1>. QED  BY <1>3, <1>4 DEF Measured, Bounded

(* What a sample does to the window: it is appended, and what is dropped precedes *)
(* one that is past two windows.                                            *)
LEMMA AddedIs ==
  ASSUME Ordered(samples), NEW gap \in 1..MaxGap, NEW in \in Telemetry,
         NEW s, s = Added(gap, in)
  PROVE  /\ Net(in) \in Int
         /\ Ordered(s)
         /\ \E d \in 0..Len(samples) :
              /\ Len(s) = Len(samples) + 1 - d
              /\ s[Len(s)] = [age |-> 0, net |-> Net(in)]
              /\ \A i \in 1..(Len(s) - 1) : s[i] = Older(gap)[i + d]
              /\ d > 0 => d < Len(samples) /\ s[1].age > 2 * Window
<1>. DEFINE o == Older(gap)
            n == Len(samples)
            last == [age |-> 0, net |-> Net(in)]
            a == Append(o, last)
            old == {i \in DOMAIN a : a[i].age > 2 * Window}
<1>0. Window \in Nat \ {0} /\ n \in Nat
  BY ChargeAssumption DEF Ordered
<1>1. Net(in) \in Int /\ last \in Samples
  <2>1. in.flow \in Nat \X Nat
    BY ChargeAssumption DEF Telemetry
  <2>2. Net(in) \in Int
    BY <2>1 DEF Net
  <2>. QED  BY <1>0, <2>2 DEF Samples
<1>2. Ordered(o) /\ Len(o) = n
  BY OlderIs
<1>. HIDE DEF o, last
<1>3. /\ a \in Seq(Samples) /\ Len(a) = n + 1 /\ DOMAIN a = 1..(n + 1)
      /\ a[n + 1] = last /\ \A i \in 1..n : a[i] = o[i]
  BY <1>0, <1>1, <1>2 DEF Ordered
<1>. HIDE DEF a
<1>4. last.age = 0
  BY DEF last
<1>5. ASSUME NEW i \in 1..(n + 1), NEW j \in 1..(n + 1), i < j
      PROVE  a[i].age >= a[j].age
  <2>1. CASE j = n + 1
    <3>1. a[i] \in Samples
      BY <1>3
    <3>. QED  BY <1>3, <1>4, <2>1, <3>1 DEF Samples
  <2>2. CASE j < n + 1
    <3>1. i \in 1..n /\ j \in 1..n
      BY <1>0, <1>5, <2>2
    <3>2. o[i].age >= o[j].age
      BY <1>2, <1>5, <3>1 DEF Ordered
    <3>. QED  BY <1>3, <3>1, <3>2
  <2>. QED  BY <1>0, <2>1, <2>2
<1>6. s = IF old = {} THEN a ELSE SubSeq(a, Max(old), Len(a))
  BY DEF Added, a, o, last
<1>7. CASE old = {}
  <2>1. s = a
    BY <1>6, <1>7
  <2>2. Ordered(s)
    BY <1>3, <1>5, <2>1 DEF Ordered
  <2>3. /\ 0 \in 0..n /\ Len(s) = n + 1 - 0 /\ s[Len(s)] = last
        /\ \A i \in 1..(Len(s) - 1) : i + 0 = i /\ s[i] = o[i]
    BY <1>0, <1>3, <2>1
  <2>. QED  BY <1>1, <2>2, <2>3 DEF o, last
<1>8. CASE old # {}
  <2>. DEFINE m == Max(old)
  <2>1. old \subseteq 1..(n + 1)
    BY <1>3
  <2>2. \E x \in old : \A y \in old : x >= y
    <3>. HIDE DEF old
    <3>1. 1 \in Int /\ n + 1 \in Int
      BY <1>0
    <3>. QED  BY <1>8, <2>1, <3>1, Greatest
  <2>3. m \in old
    BY <2>2 DEF Max
  <2>4. a[m].age > 2 * Window /\ m \in 1..(n + 1)
    BY <2>1, <2>3
  <2>5. m \in 1..n
    <3>1. m # n + 1
      BY <1>0, <1>3, <1>4, <2>4
    <3>. QED  BY <1>0, <2>4, <3>1
  <2>6. s = SubSeq(a, m, n + 1)
    BY <1>3, <1>6, <1>8
  <2>. HIDE DEF m, old
  <2>7. /\ s \in Seq(Samples) /\ Len(s) = n + 2 - m
        /\ \A i \in 1..(n + 2 - m) : s[i] = a[i + (m - 1)]
    <3>1. m \in Int /\ n + 1 \in Int /\ m >= 1 /\ n + 1 <= Len(a) /\ m <= n + 1
      BY <1>0, <1>3, <2>5
    <3>2. m \in 1..(Len(a) + 1) /\ n + 1 \in (m - 1)..Len(a)
      BY <1>0, <1>3, <3>1
    <3>3. /\ s \in Seq(Samples) /\ Len(s) = (n + 1) - m + 1
          /\ \A i \in 1..((n + 1) - m + 1) : s[i] = a[m + i - 1]
      BY <1>3, <2>6, <3>2, SubSeqProperties
    <3>4. (n + 1) - m + 1 = n + 2 - m
      BY <1>0, <2>5
    <3>5. \A i \in 1..(n + 2 - m) : m + i - 1 = i + (m - 1)
      BY <1>0, <2>5
    <3>. QED  BY <3>3, <3>4, <3>5
  <2>8. Ordered(s)
    <3>1. ASSUME NEW i \in 1..Len(s), NEW j \in 1..Len(s), i < j
          PROVE  s[i].age >= s[j].age
      <4>1. /\ i + (m - 1) \in 1..(n + 1) /\ j + (m - 1) \in 1..(n + 1)
            /\ i + (m - 1) < j + (m - 1)
        BY <1>0, <2>5, <2>7, <3>1
      <4>. QED  BY <1>5, <2>7, <4>1
    <3>. QED  BY <2>7, <3>1 DEF Ordered
  <2>9. /\ m - 1 \in 0..n /\ Len(s) = n + 1 - (m - 1) /\ s[Len(s)] = last
        /\ \A i \in 1..(Len(s) - 1) : s[i] = o[i + (m - 1)]
        /\ m - 1 < n /\ s[1].age > 2 * Window
    <3>1. m - 1 \in 0..n /\ Len(s) = n + 1 - (m - 1) /\ m - 1 < n
      BY <1>0, <2>5, <2>7
    <3>2. s[Len(s)] = last
      <4>1. Len(s) \in 1..(n + 2 - m) /\ Len(s) + (m - 1) = n + 1
        BY <1>0, <2>5, <2>7
      <4>. QED  BY <1>3, <2>7, <4>1
    <3>3. s[1].age > 2 * Window
      <4>1. 1 \in 1..(n + 2 - m) /\ 1 + (m - 1) = m
        BY <1>0, <2>5
      <4>. QED  BY <2>4, <2>7, <4>1
    <3>4. ASSUME NEW i \in 1..(Len(s) - 1)
          PROVE  s[i] = o[i + (m - 1)]
      <4>1. i \in 1..(n + 2 - m) /\ i + (m - 1) \in 1..n
        BY <1>0, <2>5, <2>7
      <4>. QED  BY <1>3, <2>7, <4>1
    <3>. QED  BY <3>1, <3>2, <3>3, <3>4
  <2>. QED  BY <1>1, <2>8, <2>9 DEF o, last
<1>. QED  BY <1>7, <1>8

(* A sample goes on with the bounds that it respects, and begins the others.    *)
LEMMA AddedMeasured ==
  ASSUME LimitInv, NEW gap \in 1..MaxGap, NEW in \in Telemetry,
         Remember(gap, in), NEW s, s = Added(gap, in)
  PROVE  /\ Ordered(s) /\ Len(s) >= 1 /\ s[Len(s)].age = 0
         /\ below' \in [Nets -> {Broken} \cup 0..Window]
         /\ \A b \in Nets : below'[b] # Broken => Bounded(s, below'[b], b)
         /\ feeding # Broken => Len(s) >= 2 /\ s[Len(s) - 1].age > 0
<1>. DEFINE n == Len(samples)
            o == Older(gap)
<1>0. /\ Window \in Nat \ {0} /\ gap \in Nat \ {0} /\ n \in Nat /\ Broken = -1
      /\ Ordered(samples) /\ below \in [Nets -> {Broken} \cup 0..Window]
  BY ChargeAssumption DEF LimitInv, Measured, Ordered, Broken
<1>1. Net(in) \in Int /\ Ordered(s)
  BY <1>0, AddedIs
<1>2. PICK d \in 0..n :
        /\ Len(s) = n + 1 - d
        /\ s[Len(s)] = [age |-> 0, net |-> Net(in)]
        /\ \A i \in 1..(Len(s) - 1) : s[i] = o[i + d]
        /\ d > 0 => d < n /\ s[1].age > 2 * Window
  <2>1. \E d \in 0..Len(samples) :
              /\ Len(s) = Len(samples) + 1 - d
              /\ s[Len(s)] = [age |-> 0, net |-> Net(in)]
              /\ \A i \in 1..(Len(s) - 1) : s[i] = Older(gap)[i + d]
              /\ d > 0 => d < Len(samples) /\ s[1].age > 2 * Window
    <3>1. Ordered(samples) /\ s = Added(gap, in)
      BY <1>0
    <3>. HIDE DEF n, o
    <3>. QED  BY <3>1, AddedIs
  <2>. QED  BY <2>1
<1>3. Len(o) = n /\ \A i \in 1..n : o[i].age > 0
  BY <1>0, OlderIs
<1>4. s[Len(s)].age = 0 /\ s[Len(s)].net = Net(in) /\ Len(s) >= 1
  BY <1>0, <1>2
<1>5. below' = [b \in Nets |-> Lasted(below[b], Net(in) <= b, gap, Window)]
  BY DEF Remember
<1>6. ASSUME NEW b \in Nets, below[b] # Broken
      PROVE  /\ AtMost(below[b] + gap, Window) \in 0..Window
             /\ Bounded(o, AtMost(below[b] + gap, Window), b)
  <2>1. below[b] \in 0..Window /\ Bounded(samples, below[b], b)
    BY <1>0, <1>6 DEF LimitInv, Measured
  <2>. QED  BY <1>0, <2>1, OlderBounded
<1>. HIDE DEF n, o
<1>7. below' \in [Nets -> {Broken} \cup 0..Window]
  <2>1. \A b \in Nets : Lasted(below[b], Net(in) <= b, gap, Window)
                          \in {Broken} \cup 0..Window
    BY <1>0, <1>6 DEF Lasted
  <2>. QED  BY <1>5, <2>1
<1>8. ASSUME NEW b \in Nets, below'[b] # Broken
      PROVE  Bounded(s, below'[b], b)
  <2>1. /\ Net(in) <= b
        /\ below[b] = Broken => below'[b] = 0
        /\ below[b] # Broken => below'[b] = AtMost(below[b] + gap, Window)
    BY <1>5, <1>8 DEF Lasted
  <2>2. ASSUME NEW i \in 1..Len(s)
        PROVE  \/ s[i].net <= b
               \/ \E p \in (i + 1)..Len(s) : s[p].age >= below'[b]
    <3>1. CASE i = Len(s)
      BY <1>4, <2>1, <3>1
    <3>2. CASE i # Len(s) /\ below[b] = Broken
      <4>1. Len(s) \in (i + 1)..Len(s) /\ s[Len(s)].age >= below'[b]
        BY <1>0, <1>2, <1>4, <2>1, <3>2
      <4>. QED  BY <4>1
    <3>3. CASE i # Len(s) /\ below[b] # Broken
      <4>1. i \in 1..(Len(s) - 1) /\ i + d \in 1..n
        BY <1>0, <1>2, <3>3
      <4>2. s[i] = o[i + d]
        BY <1>2, <4>1
      <4>3. Bounded(o, below'[b], b)
        BY <1>6, <2>1, <3>3
      <4>4. \/ o[i + d].net <= b
            \/ \E p \in (i + d + 1)..n : o[p].age >= below'[b]
        BY <1>3, <4>1, <4>3 DEF Bounded
      <4>5. ASSUME NEW p \in (i + d + 1)..n, o[p].age >= below'[b]
            PROVE  \E q \in (i + 1)..Len(s) : s[q].age >= below'[b]
        <5>1. /\ p - d \in (i + 1)..Len(s) /\ p - d \in 1..(Len(s) - 1)
              /\ (p - d) + d = p
          BY <1>0, <1>2, <4>1
        <5>2. s[p - d].age >= below'[b]
          BY <1>2, <4>5, <5>1
        <5>. QED  BY <5>1, <5>2
      <4>. QED  BY <4>2, <4>4, <4>5
    <3>. QED  BY <3>1, <3>2, <3>3
  <2>. QED  BY <2>2 DEF Bounded
<1>9. ASSUME feeding # Broken PROVE Len(s) >= 2 /\ s[Len(s) - 1].age > 0
  <2>1. n >= 1
    BY <1>9 DEF LimitInv, n
  <2>2. /\ Len(s) >= 2 /\ Len(s) - 1 \in 1..(Len(s) - 1)
        /\ (Len(s) - 1) + d \in 1..n
    BY <1>0, <1>2, <2>1
  <2>. QED  BY <1>2, <1>3, <2>2
<1>. QED  BY <1>1, <1>4, <1>7, <1>8, <1>9

(* Every evaluation keeps the invariant; the one that limits finds the reserve     *)
(* taken off whatever bounds the whole window.                                *)
LEMMA LimitStep ==
  ASSUME LimitInv, NEW gap \in 1..MaxGap, NEW in \in Telemetry,
         Proceed(gap, in), Remember(gap, in)
  PROVE  /\ LimitInv'
         /\ state # "CHARGE_DEYE_LIMITED" /\ state' = "CHARGE_DEYE_LIMITED" =>
              /\ feeding' = TransferConfirm
              /\ limited' \in 0..Maximum
              /\ \A n \in Nets :
                   below'[n] = Window => limited' <= AtLeast(n - Reserve, 0)
<1>. DEFINE s == Added(gap, in)
<1>0. /\ samples' = s /\ gap \in Nat \ {0} /\ TransferConfirm \in Nat \ {0}
      /\ since \in Nat /\ Broken = -1 /\ Window \in Nat \ {0}
      /\ feeding \in {Broken} \cup 0..TransferConfirm
  BY ChargeAssumption DEF Proceed, LimitInv, Broken
<1>1. /\ Ordered(s) /\ Len(s) >= 1 /\ s[Len(s)].age = 0
      /\ below' \in [Nets -> {Broken} \cup 0..Window]
      /\ \A b \in Nets : below'[b] # Broken => Bounded(s, below'[b], b)
      /\ feeding # Broken => Len(s) >= 2 /\ s[Len(s) - 1].age > 0
  BY AddedMeasured
<1>2. Elapsed(gap) \in Nat /\ Elapsed(gap) <= since + gap
  BY <1>0, ElapsedIsReal
<1>3. /\ ~Transfer(in) => feeding' = Broken
      /\ Transfer(in) /\ feeding = Broken => feeding' = 0
      /\ Transfer(in) /\ feeding # Broken =>
           feeding' = AtMost(feeding + gap, TransferConfirm)
  BY DEF Remember, Lasted
<1>4. /\ feeding' \in {Broken} \cup 0..TransferConfirm
      /\ Transfer(in) => feeding' \in 0..TransferConfirm /\ feeding' # Broken
  BY <1>0, <1>3 DEF AtMost
<1>. HIDE DEF s
<1>5. Ordered(samples') /\ Measured' /\ Len(samples') >= 1
  BY <1>0, <1>1 DEF Measured, Bounded
<1>6. since' \in Nat
  BY <1>2 DEF Proceed, GiveWay, AwaitRecovery, AwaitStart, ConfirmStart, Charge,
      ConfirmTransfer, TryReturn, ConfirmReturn, Enter, Stay
<1>7. ASSUME Transfer(in), state = "TRANSFER_CONFIRMATION"
      PROVE  /\ feeding # Broken /\ feeding' # Broken
             /\ \/ feeding' >= since + gap
                \/ feeding' = TransferConfirm
  BY <1>0, <1>3, <1>4, <1>7 DEF LimitInv, AtMost
<1>8. ASSUME state' = "TRANSFER_CONFIRMATION"
      PROVE  feeding' # Broken /\ (since' <= feeding' \/ feeding' = TransferConfirm)
  <2>1. \/ state = "CHARGE_DEYE_FULL" /\ Transfer(in) /\ since' = 0
        \/ state = "TRANSFER_CONFIRMATION" /\ Transfer(in) /\ since' = Elapsed(gap)
    BY <1>8 DEF Proceed, GiveWay, AwaitRecovery, AwaitStart, ConfirmStart, Charge,
        ConfirmTransfer, TryReturn, ConfirmReturn, Enter, Stay, Timed
  <2>2. CASE Transfer(in) /\ since' = 0
    BY <1>0, <1>4, <2>2
  <2>3. CASE state = "TRANSFER_CONFIRMATION" /\ Transfer(in) /\ since' = Elapsed(gap)
    BY <1>0, <1>2, <1>4, <1>7, <2>3
  <2>. QED  BY <2>1, <2>2, <2>3
<1>9. LimitInv'
  BY <1>4, <1>5, <1>6, <1>8 DEF LimitInv, Ordered, Measured, Bounded
<1>10. ASSUME state # "CHARGE_DEYE_LIMITED", state' = "CHARGE_DEYE_LIMITED"
       PROVE  /\ feeding' = TransferConfirm
              /\ limited' \in 0..Maximum
              /\ \A n \in Nets :
                   below'[n] = Window => limited' <= AtLeast(n - Reserve, 0)
  <2>1. /\ state = "TRANSFER_CONFIRMATION" /\ Transfer(in)
        /\ Elapsed(gap) >= TransferConfirm /\ limited' = Limit(s)
    BY <1>10 DEF Proceed, GiveWay, AwaitRecovery, AwaitStart, ConfirmStart, Charge,
        ConfirmTransfer, TryReturn, ConfirmReturn, Enter, Stay, s
  <2>2. feeding # Broken /\ feeding' = TransferConfirm
    BY <1>0, <1>2, <1>4, <1>7, <2>1
  <2>3. Len(s) >= 2 /\ s[Len(s) - 1].age > 0
    BY <1>1, <2>2
  <2>4. ASSUME NEW b \in Int
        PROVE  /\ Limit(s) \in 0..Maximum
               /\ Bounded(s, Window, b) => Limit(s) <= AtLeast(b - Reserve, 0)
    <3>1. /\ Covered(s) \in Nat \ {0} /\ Total(s) \in Int
          /\ Bounded(s, Window, b) => Total(s) <= b * Covered(s)
      BY <1>1, <2>3, AverageBounded
    <3>. QED  BY <3>1, LimitBounded
  <2>5. ASSUME NEW n \in Nets, below'[n] = Window
        PROVE  Limit(s) <= AtLeast(n - Reserve, 0)
    <3>1. n \in Int /\ Window # Broken
      BY <1>0, NetsAreNumbers
    <3>2. Bounded(s, Window, n)
      BY <1>1, <2>5, <3>1
    <3>. QED  BY <2>4, <3>1, <3>2
  <2>6. Limit(s) \in 0..Maximum
    BY <2>4
  <2>. QED  BY <2>1, <2>2, <2>5, <2>6
<1>. QED  BY <1>9, <1>10

(* LimitIsMeasured: the limit of the current is decided after a whole confirmation *)
(* period in which every evaluation found a transfer, and is at most what any      *)
(* reading allows above which nothing was held in the averaging window: no older   *)
(* sample counts, whichever values and gaps the telemetry has and whichever of the *)
(* window and the confirmation is the longer.                                *)
THEOREM LimitCorrect == ControlSpec => LimitIsMeasured
<1>1. ControlInit => LimitInv
  <2>1. ASSUME ControlInit PROVE Measured
    <3>1. samples = <<>> /\ Len(samples) = 0 /\ below = [b \in Nets |-> Window]
      BY <2>1 DEF ControlInit
    <3>2. \A t, b : Bounded(samples, t, b)
      BY <3>1 DEF Bounded
    <3>3. below \in [Nets -> {Broken} \cup 0..Window]
      BY <3>1, ChargeAssumption
    <3>. QED  BY <3>2, <3>3 DEF Measured
  <2>. QED  BY <2>1, ChargeAssumption DEF ControlInit, LimitInv, Ordered, Broken
<1>2. ASSUME LimitInv, [ControlTick]_controlVars
      PROVE  /\ LimitInv'
             /\ state # "CHARGE_DEYE_LIMITED" /\ state' = "CHARGE_DEYE_LIMITED" =>
                  /\ feeding' = TransferConfirm
                  /\ limited' \in 0..Maximum
                  /\ \A n \in Nets :
                       below'[n] = Window => limited' <= AtLeast(n - Reserve, 0)
  <2>1. CASE UNCHANGED controlVars
    BY <1>2, <2>1 DEF controlVars, LimitInv, Ordered, Measured, Bounded
  <2>2. ASSUME NEW gap \in 1..MaxGap, Disable(gap) \/ Fault(gap), Forget(gap)
        PROVE  LimitInv' /\ state' # "CHARGE_DEYE_LIMITED"
    <3>1. Ordered(samples) /\ Measured /\ since \in Nat
      BY <1>2 DEF LimitInv
    <3>2. Ordered(Older(gap)) /\ Elapsed(gap) \in Nat
      BY <3>1, OlderIs, ElapsedIsReal
    <3>3. /\ samples' = Older(gap) /\ since' \in Nat
          /\ state' \in {"DISABLED", "FAULT"} /\ feeding' = Broken
      BY <2>2, <3>2 DEF Disable, Fault, Enter, Forget
    <3>4. Ordered(samples') /\ Measured'
      BY <2>2, <3>1, <3>2, <3>3, ForgetMeasured
    <3>. QED  BY <3>3, <3>4 DEF LimitInv, Ordered
  <2>3. ASSUME NEW gap \in 1..MaxGap, NEW in \in Telemetry,
               Proceed(gap, in), Remember(gap, in)
        PROVE  /\ LimitInv'
               /\ state # "CHARGE_DEYE_LIMITED" /\ state' = "CHARGE_DEYE_LIMITED" =>
                    /\ feeding' = TransferConfirm
                    /\ limited' \in 0..Maximum
                    /\ \A n \in Nets :
                         below'[n] = Window => limited' <= AtLeast(n - Reserve, 0)
    BY <1>2, <2>3, LimitStep
  <2>. QED  BY <1>2, <2>1, <2>2, <2>3 DEF ControlTick, controlVars
<1>3. LimitInv /\ [ControlTick]_controlVars =>
        [ state # "CHARGE_DEYE_LIMITED" /\ state' = "CHARGE_DEYE_LIMITED" =>
            /\ feeding' = TransferConfirm
            /\ limited' \in 0..Maximum
            /\ \A n \in Nets :
                 below'[n] = Window => limited' <= AtLeast(n - Reserve, 0) ]_controlVars
  BY <1>2
<1>4. LimitInv /\ [ControlTick]_controlVars => LimitInv'
  BY <1>2
<1>. QED  BY <1>1, <1>3, <1>4, PTL DEF ControlSpec, LimitIsMeasured
=============================================================================
