---------------------------- MODULE ExecutorRuntime ----------------------------
(***************************************************************************)
(* The shadow executor as a process: one tick of executor_runtime.py, the  *)
(* evaluation executor/engine.py makes in it, and the file and the four    *)
(* entities it leaves behind.                                              *)
(*                                                                         *)
(* A tick holds the runtime's lock (an overlapping one returns at once), so *)
(* its steps are the stages of one sequential program; a save or a set_state *)
(* may raise at each of them, and the process may be killed between any two. *)
(* The runtime supplies no command record, settling evidence or command id, *)
(* so a transition gets no further than the phases below; Transition.tla    *)
(* has the whole of it.                                                    *)
(*                                                                         *)
(* Bounds: MaxTicks evaluations, and an epoch of Epochs for each process.  *)
(***************************************************************************)
EXTENDS Integers

CONSTANTS
  Intents,     \* plans the planner may publish: records [plan, type]
  DeyeRoles,   \* roles of DEYE the adapter may read
  Epochs,      \* epochs a process may draw
  MaxTicks     \* bound on the evaluations

None == [plan |-> 0, type |-> "NONE"]          \* no planner intent

ASSUME RuntimeAssumption ==
  /\ \A i \in Intents : i.type \in {"NORMAL", "SOLAX", "DEYE"}
  /\ None \notin Intents
  /\ DeyeRoles \subseteq {"OFF", "NATIVE", "CHARGE", "DISCHARGE"}
  /\ MaxTicks \in Nat

VARIABLES
  epoch,        \* the execution epoch of the process
  mode,         \* current_state
  progress,     \* transition_progress, as a set of at most one
  reconciling,  \* reconciliation_required
  proposal,     \* proposal of the last result
  stage,        \* where the tick is
  tick,         \* the evaluation it makes, counted over all processes
  file,         \* the persisted state
  shown,        \* the published entities
  proven        \* history: native ownership proven since the last failure

runVars == <<epoch, mode, progress, reconciling, proposal, proven>>
vars == <<runVars, stage, tick, file, shown>>

Modes == {"RECONCILING", "DISABLED", "NORMAL", "PRECHECK", "TRANSITION",
          "ROLLBACK", "SAFE_STOP"}
Phases == {"FREEZE_INTENT", "STOP_CURRENT_OWNER", "VERIFY_PCC",
           "ARM_DESTINATION", "WAIT_DESTINATION_READY", "ISSUE_TARGET",
           "COMPLETE"}
Owning == {"CHARGE", "DISCHARGE"}              \* DEYE has a writer

(* What the safety evaluators make of a snapshot: "calm", or "busy" when a   *)
(* battery is not neutral, "limited" when the PCC reading objects,           *)
(* "doubtful" when an input is stale, incoherent or in conflict.            *)
Evidence == {"calm", "busy", "limited", "doubtful"}

(* What the adapter reads in one tick: manual says that SolaX is in a        *)
(* forced mode.                                                             *)
Snapshots == [enabled : BOOLEAN, intent : Intents \cup {None},
              deye : DeyeRoles, manual : BOOLEAN,
              evidence : Evidence]

Progresses == [epoch : Epochs, intent : Intents, phase : Phases,
               deye : DeyeRoles \cup {"OFF"}, owned : BOOLEAN]

Conclude(m, p, says) == mode' = m /\ progress' = p /\ proposal' = says

-----------------------------------------------------------------------------
(* Reconciliation.                                                         *)
Owed == reconciling \/ mode = "RECONCILING"

ProvenNative(in) ==
  /\ ~in.manual /\ in.deye = "OFF"
  /\ in.evidence \in {"calm", "limited"}

Reconcile(in) ==
  /\ Owed
  /\ Conclude(IF ~ProvenNative(in) THEN "SAFE_STOP"
              ELSE IF in.enabled /\ in.intent # None THEN "PRECHECK"
              ELSE "NORMAL", {}, "NONE")
  /\ reconciling' = ~ProvenNative(in)
  /\ proven' = ProvenNative(in)

-----------------------------------------------------------------------------
(* A transition in flight.                                                 *)
Contradicts(in) == in.manual \/ \E p \in progress : in.deye # p.deye

Working_Rolled(p) == {"TRANSITION", "ROLLBACK"}        \* mutated: resumes

Working(p) ==
  {"TRANSITION", "SOLAX_HOLD", "DEYE_START_REQUIRED", "DEYE_STARTING"} \cup
  (IF p.phase = "COMPLETE" THEN {"SOLAX_DISPATCH", "DEYE_DISPATCH"} ELSE {})

MayContinue(in) ==
  /\ in.enabled
  /\ \A p \in progress :
       mode \in Working(p) /\ p.epoch = epoch /\ p.intent = in.intent
  /\ ~Contradicts(in)

Abort(in) ==
  /\ ~MayContinue(in)
  /\ Conclude("ROLLBACK", progress, "NONE")

(* The phase a transition with evidence goes to; the others wait for a      *)
(* command the runtime never issues.                                       *)
NextPhase(p) ==
  CASE p.phase = "FREEZE_INTENT" ->
         IF p.owned THEN {"STOP_CURRENT_OWNER"}
         ELSE IF p.intent.type = "NORMAL" THEN {"COMPLETE"} ELSE {"VERIFY_PCC"}
    [] p.phase = "VERIFY_PCC" -> {"ARM_DESTINATION"}
    [] p.phase = "ARM_DESTINATION" /\ p.intent.type = "SOLAX" ->
         {"WAIT_DESTINATION_READY"}
    [] p.phase = "WAIT_DESTINATION_READY" -> {"ISSUE_TARGET"}
    [] OTHER -> {}

Enter(p, phase) ==
  IF phase = "WAIT_DESTINATION_READY"
  THEN [p EXCEPT !.phase = phase, !.deye = "OFF", !.owned = TRUE]
  ELSE [p EXCEPT !.phase = phase]

Objected(in) == in.evidence \in {"limited", "doubtful"}

(* The one proposal that needs no command id.                               *)
AdaptedProposal(phase) ==
  IF phase = "WAIT_DESTINATION_READY" THEN "NATIVE" ELSE "NONE"

Advance(in, p) ==
  /\ ~Objected(in)
  /\ \E phase \in NextPhase(p) :
       Conclude(IF phase = "COMPLETE" THEN "NORMAL" ELSE "TRANSITION",
                {Enter(p, phase)}, AdaptedProposal(phase))

Keep(in, p) ==
  /\ ~(p.owned /\ Objected(in))
  /\ Conclude("TRANSITION", progress, "NONE")

(* A deadline, or a safety decision against a writer.                       *)
FailTransition ==
  \E m \in {"ROLLBACK", "SAFE_STOP"} : Conclude(m, progress, "NONE")

Pursue(in) ==
  /\ ~Owed /\ progress # {}
  /\ \/ Abort(in)
     \/ /\ MayContinue(in)
        /\ \/ FailTransition
           \/ \E p \in progress : Advance(in, p) \/ Keep(in, p)
  /\ UNCHANGED <<reconciling, proven>>

-----------------------------------------------------------------------------
(* No transition.                                                          *)
SafeNative(in) ==
  mode \in {"NORMAL", "PRECHECK"} /\ in.deye = "OFF" /\ in.evidence = "calm"

Stop(in) == IF in.deye \in Owning THEN "ROLLBACK" ELSE "SAFE_STOP"

Object(in) ==
  /\ Objected(in) \/ in.evidence = "busy" \/ in.intent.type # "NORMAL"
  /\ \/ Conclude("PRECHECK", {}, "NONE")
     \/ in.deye \in Owning /\ \E m \in {"ROLLBACK", "SAFE_STOP"} :
                                Conclude(m, {}, "NONE")

NewPlan(in) ==
  [epoch |-> epoch, intent |-> in.intent, phase |-> "FREEZE_INTENT",
   deye |-> in.deye, owned |-> in.deye \in Owning]

(* The graph lets a transition start from two of the states the runtime is    *)
(* in without one; any other state falls back to PRECHECK first.             *)
Startable == {"NORMAL", "PRECHECK"}

Plan(in) ==
  /\ ~Objected(in)
  /\ \/ /\ in.intent.type = "NORMAL" /\ in.deye = "OFF"
        /\ Conclude("NORMAL", {}, "NONE")
     \/ /\ in.intent.type # "NORMAL" \/ in.deye # "OFF"
        /\ IF mode \in Startable
           THEN Conclude("TRANSITION", {NewPlan(in)}, "NONE")
           ELSE Conclude("PRECHECK", {}, "NONE")

Consider(in) ==
  /\ ~Owed /\ progress = {}
  /\ \/ ~in.enabled /\ Conclude("DISABLED", {}, "NONE")
     \/ in.enabled /\ in.manual /\ Conclude("ROLLBACK", {}, "NONE")
     \/ /\ in.enabled /\ ~in.manual /\ in.intent = None
        /\ Conclude(IF SafeNative(in) THEN "NORMAL" ELSE Stop(in), {}, "NONE")
     \/ /\ in.enabled /\ ~in.manual /\ in.intent # None
        /\ Object(in) \/ Plan(in)
  /\ UNCHANGED <<reconciling, proven>>

-----------------------------------------------------------------------------
(* One tick.                                                               *)
Evaluate(in) ==
  /\ stage = "idle" /\ tick < MaxTicks
  /\ Reconcile(in) \/ Pursue(in) \/ Consider(in)
  /\ tick' = tick + 1
  /\ stage' = "save"
  /\ UNCHANGED <<epoch, file, shown>>

FailClosed_Retaining ==                \* mutated: the transition is kept
  /\ Conclude("SAFE_STOP", progress, "NONE")
  /\ reconciling' = TRUE /\ proven' = FALSE
  /\ stage' = "save failure"
  /\ UNCHANGED <<epoch, file, shown>>

FailClosed ==
  /\ Conclude("SAFE_STOP", {}, "NONE")
  /\ reconciling' = TRUE /\ proven' = FALSE
  /\ stage' = "save failure"
  /\ UNCHANGED <<epoch, file, shown>>

(* The adapter proves no ownership or conflicts, or anything else raises.   *)
RefuseInputs ==
  /\ stage = "idle" /\ tick < MaxTicks
  /\ tick' = tick + 1
  /\ FailClosed

Saved == [tick |-> tick, epoch |-> epoch, mode |-> mode]

Save_Later ==                          \* mutated: a failed save is ignored
  /\ stage = "save"
  /\ file' \in {file, Saved} /\ stage' = "mark"
  /\ UNCHANGED <<runVars, tick, shown>>

Save ==
  /\ stage = "save"
  /\ file' = Saved /\ stage' = "mark"
  /\ UNCHANGED <<runVars, tick, shown>>

SaveFailure ==
  /\ stage = "save failure"
  /\ file' \in {file, Saved}
  /\ stage' = "failedState"
  /\ UNCHANGED <<runVars, tick, shown>>

Entities == {"state", "reason", "proposal", "epoch"}

(* The set_state calls of _publish and of _publish_failure, in their order: *)
(* the entity each one sets, and the stage after it.                        *)
Call(entity, then) == [entity |-> entity, then |-> then]
Calls ==
  [mark           |-> Call("state", "reason"),
   reason         |-> Call("reason", "proposal"),
   proposal       |-> Call("proposal", "epoch"),
   epoch          |-> Call("epoch", "state"),
   state          |-> Call("state", "idle"),
   failedState    |-> Call("state", "failedReason"),
   failedReason   |-> Call("reason", "failedProposal"),
   failedProposal |-> Call("proposal", "failedEpoch"),
   failedEpoch    |-> Call("epoch", "idle")]
Snapshot == {"mark", "reason", "proposal", "epoch", "state"}
FailureSnapshot ==
  {"failedState", "failedReason", "failedProposal", "failedEpoch"}

Says_Unmarked(call) ==                 \* mutated: the old state is left
  CASE Calls[call].entity = "state" ->
         IF call = "mark" THEN shown["state"].says ELSE mode
    [] Calls[call].entity = "proposal" -> proposal
    [] OTHER -> "text"

Says(call) ==
  CASE Calls[call].entity = "state" -> IF call = "mark" THEN "UPDATING" ELSE mode
    [] Calls[call].entity = "proposal" -> proposal
    [] OTHER -> "text"

Publish(call) ==
  /\ stage = call
  /\ shown' = [shown EXCEPT ![Calls[call].entity] =
                  [tick |-> tick, says |-> Says(call)]]
  /\ stage' = Calls[call].then
  /\ UNCHANGED <<runVars, tick, file>>

(* A save or a set_state raises inside the tick; raised while the failure   *)
(* itself is published, it only ends the tick.                             *)
Raise ==
  /\ stage \in {"save"} \cup Snapshot
  /\ FailClosed
  /\ UNCHANGED tick

AbandonFailure ==
  /\ stage \in FailureSnapshot
  /\ stage' = "idle"
  /\ UNCHANGED <<runVars, tick, file, shown>>

(* The process is killed, and a new one starts: it draws another epoch than *)
(* the file's, or any if it cannot read the file.                          *)
Restart ==
  /\ epoch' \in Epochs
  /\ Conclude("RECONCILING", {}, "NONE")
  /\ reconciling' = TRUE /\ proven' = FALSE
  /\ stage' = "idle"
  /\ UNCHANGED <<tick, file, shown>>

-----------------------------------------------------------------------------
Init ==
  /\ epoch \in Epochs
  /\ mode = "RECONCILING" /\ progress = {} /\ proposal = "NONE"
  /\ reconciling = TRUE /\ proven = FALSE
  /\ stage = "idle" /\ tick = 0
  /\ file = [tick |-> 0, epoch |-> epoch, mode |-> "RECONCILING"]
  /\ shown = [k \in Entities |-> [tick |-> 0, says |-> "nothing"]]

Next ==
  \/ \E in \in Snapshots : Evaluate(in)
  \/ RefuseInputs \/ Save \/ SaveFailure \/ Raise \/ AbandonFailure
  \/ \E call \in DOMAIN Calls : Publish(call)
  \/ Restart

Spec == Init /\ [][Next]_vars

-----------------------------------------------------------------------------
Stages == {"idle", "save", "save failure"} \cup Snapshot \cup FailureSnapshot

Texts == Modes \cup {"UPDATING", "nothing", "text", "NONE", "NATIVE"}

TypeOK ==
  /\ epoch \in Epochs /\ mode \in Modes
  /\ progress \subseteq Progresses
  /\ \A p, q \in progress : p = q
  /\ reconciling \in BOOLEAN /\ proven \in BOOLEAN
  /\ proposal \in {"NONE", "NATIVE"}
  /\ stage \in Stages /\ tick \in 0..MaxTicks
  /\ file \in [tick : 0..MaxTicks, epoch : Epochs, mode : Modes]
  /\ shown \in [Entities -> [tick : 0..MaxTicks, says : Texts]]

(* The state entity vouches for the others: unless it is being updated or   *)
(* reports a stop, all four entities come from one evaluation, whichever    *)
(* set_state failed and wherever a process was killed, and a proposal is    *)
(* shown with a running transition only (executor_runtime.py:1107).         *)
Vouched == shown["state"].says \notin {"nothing", "UPDATING", "SAFE_STOP"}

SnapshotIsCoherent ==
  Vouched =>
    /\ \A k \in Entities : shown[k].tick = shown["state"].tick
    /\ shown["proposal"].says # "NONE" => shown["state"].says = "TRANSITION"

(* Nothing is shown of an evaluation that was not saved before, and the     *)
(* state shown is the one saved, unless a later failure replaced it         *)
(* (executor_runtime.py:1034).                                             *)
ShownWasSaved ==
  Vouched =>
    /\ shown["state"].tick <= file.tick
    /\ shown["state"].tick = file.tick =>
         file.mode \in {shown["state"].says, "SAFE_STOP"}

(* What the entities show together holds in each of these two ways.         *)
PublishedIsSound == SnapshotIsCoherent /\ ShownWasSaved

(* No authority survives a failure or a restart: outside SAFE_STOP and      *)
(* RECONCILING, and whenever a transition exists, native ownership has been *)
(* proven since, and the transition is of this process                      *)
(* (executor_runtime.py:1121, reconciliation.py:89).                        *)
AuthorityIsReconciled ==
  /\ mode \notin {"RECONCILING", "SAFE_STOP"} => proven
  /\ \A p \in progress : proven /\ ~reconciling /\ p.epoch = epoch

(* A transition is never resumed after an abort and never exchanged for     *)
(* another: it advances in TRANSITION, stays as it is when it is aborted,   *)
(* and is dropped only by a failure or a restart that makes reconciliation  *)
(* due (engine.py:284, engine.py:358).                                     *)
AbortIsFinal ==
  [][ progress # {} =>
        \/ progress' = progress /\ (mode \in {"ROLLBACK", "SAFE_STOP"} =>
                                    mode' \in {"ROLLBACK", "SAFE_STOP"})
        \/ mode = "TRANSITION" /\ \E p \in progress, q \in progress' :
                                    q.intent = p.intent /\ q.phase # p.phase
        \/ progress' = {} /\ reconciling' ]_vars
=============================================================================
