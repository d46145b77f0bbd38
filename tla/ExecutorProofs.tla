--------------------------- MODULE ExecutorProofs ---------------------------
(* Theorems about the executor: about its runtime, for every set of plans,     *)
(* roles and epochs and every bound (ExecutorRuntime), and about the records of   *)
(* its commands, for every lifetime (CommandLifecycle).                      *)
EXTENDS ExecutorRuntime, CommandLifecycle, TLAPS

(* What makes the authority inductive: reconciliation is due exactly while   *)
(* native ownership is unproven, and a runtime that is RECONCILING owes it.  *)
Debt ==
  /\ proven <=> ~reconciling
  /\ mode = "RECONCILING" => reconciling

(* A proposal exists in a running transition only.                           *)
Proposed == proposal # "NONE" => mode = "TRANSITION"

RunInv == TypeOK /\ Debt /\ Proposed /\ AuthorityIsReconciled

USE DEF Conclude, runVars

(* The outcome of an evaluation is well typed.                              *)
Outcome ==
  /\ mode' \in Modes /\ progress' \subseteq Progresses
  /\ \A p, q \in progress' : p = q
  /\ proposal' \in {"NONE", "NATIVE"}
  /\ reconciling' \in BOOLEAN /\ proven' \in BOOLEAN

-----------------------------------------------------------------------------
(* A transition advances to a phase and stays a transition of its process.   *)
LEMMA EnterKeeps ==
  ASSUME NEW p \in Progresses, NEW phase \in NextPhase(p)
  PROVE  /\ Enter(p, phase) \in Progresses
         /\ Enter(p, phase).epoch = p.epoch
         /\ Enter(p, phase).intent = p.intent
         /\ Enter(p, phase).phase = phase /\ phase # p.phase
<1>1. phase \in Phases /\ phase # p.phase
  BY DEF NextPhase, Phases, Progresses
<1>. QED  BY <1>1 DEF Enter, Progresses

(* Each way an evaluation ends keeps the run's invariant.                   *)
LEMMA EvaluationKeeps ==
  ASSUME RunInv, NEW in \in Snapshots,
         Reconcile(in) \/ Pursue(in) \/ Consider(in), UNCHANGED epoch
  PROVE  Outcome /\ Debt' /\ Proposed' /\ AuthorityIsReconciled'
<1>. USE DEF RunInv, Debt, Proposed, AuthorityIsReconciled, Outcome
<1>. in.deye \in DeyeRoles /\ in.intent \in Intents \cup {None}
  BY DEF Snapshots
<1>1. CASE Reconcile(in)
  BY <1>1 DEF Reconcile, Modes, ProvenNative, Snapshots
<1>2. CASE Pursue(in)
  <2>. /\ UNCHANGED <<reconciling, proven>> /\ progress # {}
       /\ proven /\ ~reconciling
    BY <1>2 DEF Pursue, TypeOK, Owed
  <2>1. CASE Abort(in)
    BY <2>1 DEF Abort, TypeOK, Modes
  <2>2. CASE FailTransition
    BY <2>2 DEF FailTransition, TypeOK, Modes
  <2>3. CASE \E p \in progress : Keep(in, p)
    BY <2>3 DEF Keep, TypeOK, Modes
  <2>4. ASSUME NEW p \in progress, Advance(in, p)
        PROVE  Outcome /\ Debt' /\ Proposed' /\ AuthorityIsReconciled'
    <3>1. PICK phase \in NextPhase(p) :
            Conclude(IF phase = "COMPLETE" THEN "NORMAL" ELSE "TRANSITION",
                     {Enter(p, phase)},
                     IF phase = "WAIT_DESTINATION_READY"
                     THEN "NATIVE" ELSE "NONE")
      BY <2>4 DEF Advance, AdaptedProposal
    <3>2. Enter(p, phase) \in Progresses /\ Enter(p, phase).epoch = epoch
      BY EnterKeeps DEF TypeOK
    <3>. QED  BY <3>1, <3>2 DEF Modes, TypeOK
  <2>. QED  BY <1>2, <2>1, <2>2, <2>3, <2>4 DEF Pursue
<1>3. CASE Consider(in)
  <2>. UNCHANGED <<reconciling, proven>> /\ proven /\ ~reconciling
    BY <1>3 DEF Consider, Owed, TypeOK
  <2>1. CASE Plan(in) /\ in.intent # None
    <3>. NewPlan(in) \in Progresses /\ NewPlan(in).epoch = epoch
      BY <2>1 DEF NewPlan, Progresses, Phases, TypeOK
    <3>. QED  BY <2>1 DEF Plan, Startable, Modes, TypeOK
  <2>2. CASE Object(in)
    BY <2>2 DEF Object, Modes, TypeOK
  <2>. QED  BY <1>3, <2>1, <2>2 DEF Consider, Stop, Modes, TypeOK
<1>. QED  BY <1>1, <1>2, <1>3

(* Failing closed keeps it too.                                             *)
LEMMA FailureKeeps ==
  ASSUME RunInv, FailClosed, tick' \in 0..MaxTicks
  PROVE  RunInv'
BY DEF RunInv, FailClosed, TypeOK, Debt, Proposed, AuthorityIsReconciled,
       Modes, Stages

(* The calls one by one, and what they have in common: a call publishes one  *)
(* of the four entities, and the tick goes on.                              *)
LEMMA CallTable ==
  ASSUME NEW call \in DOMAIN Calls
  PROVE  \/ call = "mark" /\ Calls[call] = Call("state", "reason")
         \/ call = "reason" /\ Calls[call] = Call("reason", "proposal")
         \/ call = "proposal" /\ Calls[call] = Call("proposal", "epoch")
         \/ call = "epoch" /\ Calls[call] = Call("epoch", "state")
         \/ call = "state" /\ Calls[call] = Call("state", "idle")
         \/ call = "failedState" /\ Calls[call] = Call("state", "failedReason")
         \/ call = "failedReason" /\ Calls[call] = Call("reason", "failedProposal")
         \/ call = "failedProposal" /\ Calls[call] = Call("proposal", "failedEpoch")
         \/ call = "failedEpoch" /\ Calls[call] = Call("epoch", "idle")
<1>1. call \in Snapshot \cup FailureSnapshot
  BY DEF Calls, Snapshot, FailureSnapshot
<1>2. CASE call = "mark"
  BY <1>2 DEF Calls
<1>3. CASE call = "reason"
  BY <1>3 DEF Calls
<1>4. CASE call = "proposal"
  BY <1>4 DEF Calls
<1>5. CASE call = "epoch"
  BY <1>5 DEF Calls
<1>6. CASE call = "state"
  BY <1>6 DEF Calls
<1>7. CASE call = "failedState"
  BY <1>7 DEF Calls
<1>8. CASE call = "failedReason"
  BY <1>8 DEF Calls
<1>9. CASE call = "failedProposal"
  BY <1>9 DEF Calls
<1>10. CASE call = "failedEpoch"
  BY <1>10 DEF Calls
<1>. QED  BY <1>1, <1>2, <1>3, <1>4, <1>5, <1>6, <1>7, <1>8, <1>9, <1>10
    DEF Snapshot, FailureSnapshot

LEMMA CallType ==
  ASSUME NEW call \in DOMAIN Calls
  PROVE  Calls[call].entity \in Entities /\ Calls[call].then \in Stages
<1>1. PICK e \in Entities, t \in Stages : Calls[call] = Call(e, t)
  BY CallTable DEF Entities, Stages, Snapshot, FailureSnapshot
<1>. QED  BY <1>1 DEF Call

LEMMA RunInitial == Init => RunInv
<1>. SUFFICES ASSUME Init PROVE RunInv
  OBVIOUS
<1>1. 0 \in 0..MaxTicks
  BY RuntimeAssumption
<1>2. /\ file \in [tick : 0..MaxTicks, epoch : Epochs, mode : Modes]
      /\ shown \in [Entities -> [tick : 0..MaxTicks, says : Texts]]
  BY <1>1 DEF Init, Modes, Texts
<1>. QED  BY <1>1, <1>2 DEF Init, RunInv, TypeOK, Debt, Proposed,
                        AuthorityIsReconciled, Modes, Stages

LEMMA RunStep == RunInv /\ [Next]_vars => RunInv'
<1>. SUFFICES ASSUME RunInv, [Next]_vars PROVE RunInv'
  OBVIOUS
<1>. USE DEF RunInv
<1>1. ASSUME NEW in \in Snapshots, Evaluate(in) PROVE RunInv'
  <2>1. Outcome /\ Debt' /\ Proposed' /\ AuthorityIsReconciled'
    BY <1>1, EvaluationKeeps DEF Evaluate
  <2>2. tick' \in 0..MaxTicks
    BY <1>1, RuntimeAssumption DEF Evaluate, TypeOK
  <2>. QED  BY <1>1, <2>1, <2>2 DEF Evaluate, TypeOK, Outcome, Stages
<1>2. CASE RefuseInputs
  <2>1. tick' \in 0..MaxTicks
    BY <1>2, RuntimeAssumption DEF RefuseInputs, TypeOK
  <2>. QED  BY <1>2, <2>1, FailureKeeps DEF RefuseInputs
<1>3. CASE Raise
  BY <1>3, FailureKeeps DEF Raise, TypeOK
<1>4. CASE Save \/ SaveFailure
  <2>1. Saved \in [tick : 0..MaxTicks, epoch : Epochs, mode : Modes]
    BY DEF Saved, TypeOK
  <2>2. UNCHANGED <<epoch, runVars, tick, shown>> /\ file' \in {file, Saved}
        /\ stage' \in {"mark", "failedState"}
    BY <1>4 DEF Save, SaveFailure
  <2>3. stage' \in Stages
    BY <2>2 DEF Stages, Snapshot, FailureSnapshot
  <2>. QED  BY <2>1, <2>2, <2>3 DEF TypeOK, Debt, Proposed,
                                    AuthorityIsReconciled
<1>5. ASSUME NEW call \in DOMAIN Calls, Publish(call) PROVE RunInv'
  <2>1. [tick |-> tick, says |-> Says(call)] \in [tick : 0..MaxTicks, says : Texts]
    BY DEF Says, TypeOK, Texts
  <2>2. TypeOK'
    BY <1>5, <2>1, CallType DEF Publish, TypeOK
  <2>. QED  BY <1>5, <2>2 DEF Publish, Debt, Proposed, AuthorityIsReconciled
<1>6. CASE AbandonFailure
  BY <1>6 DEF AbandonFailure, TypeOK, Stages, Debt, Proposed,
              AuthorityIsReconciled
<1>7. CASE Restart
  BY <1>7 DEF Restart, TypeOK, Stages, Modes, Debt, Proposed,
              AuthorityIsReconciled
<1>8. CASE UNCHANGED vars
  BY <1>8 DEF vars, TypeOK, Debt, Proposed, AuthorityIsReconciled
<1>. QED  BY <1>1, <1>2, <1>3, <1>4, <1>5, <1>6, <1>7, <1>8 DEF Next

LEMMA RunCorrect == Spec => []RunInv
BY RunInitial, RunStep, PTL DEF Spec

(* Every variable of the runtime, its file and its entities keep their type. *)
THEOREM TypeCorrect == Spec => []TypeOK
BY RunCorrect, PTL DEF RunInv

(* No authority survives a failure or a restart.                            *)
THEOREM AuthorityCorrect == Spec => []AuthorityIsReconciled
BY RunCorrect, PTL DEF RunInv

(* A transition is never resumed after an abort and never exchanged.        *)
THEOREM AbortIsFinalCorrect == Spec => AbortIsFinal
<1>1. ASSUME RunInv, [Next]_vars, progress # {}
      PROVE  \/ progress' = progress /\ (mode \in {"ROLLBACK", "SAFE_STOP"} =>
                                         mode' \in {"ROLLBACK", "SAFE_STOP"})
             \/ mode = "TRANSITION" /\ \E p \in progress, q \in progress' :
                                         q.intent = p.intent /\ q.phase # p.phase
             \/ progress' = {} /\ reconciling'
  <2>. USE <1>1 DEF RunInv
  <2>1. ~Owed
    BY DEF Owed, Debt, AuthorityIsReconciled, TypeOK
  <2>2. ASSUME NEW in \in Snapshots, MayContinue(in) PROVE mode = "TRANSITION"
    BY <2>2 DEF MayContinue, Working, TypeOK, Modes
  <2>3. ASSUME NEW in \in Snapshots, Evaluate(in)
        PROVE  \/ progress' = progress
                  /\ (mode # "TRANSITION" =>
                         mode' \in {"ROLLBACK", "SAFE_STOP"})
               \/ mode = "TRANSITION" /\ \E p \in progress, q \in progress' :
                                           q.intent = p.intent /\ q.phase # p.phase
    <3>1. Pursue(in)
      BY <2>1, <2>3 DEF Evaluate, Reconcile, Consider
    <3>2. CASE Abort(in)
      BY <3>2 DEF Abort
    <3>3. CASE MayContinue(in) /\ FailTransition
      BY <3>3 DEF FailTransition
    <3>4. ASSUME NEW p \in progress, MayContinue(in), Keep(in, p)
          PROVE  progress' = progress /\ mode = "TRANSITION"
      BY <2>2, <3>4 DEF Keep
    <3>5. ASSUME NEW p \in progress, MayContinue(in), Advance(in, p)
          PROVE  mode = "TRANSITION" /\ \E q \in progress' :
                   q.intent = p.intent /\ q.phase # p.phase
      BY <2>2, <3>5, EnterKeeps DEF Advance, TypeOK
    <3>. QED  BY <3>1, <3>2, <3>3, <3>4, <3>5 DEF Pursue
  <2>4. CASE RefuseInputs \/ Raise \/ Restart
    BY <2>4 DEF RefuseInputs, Raise, Restart, FailClosed
  <2>5. CASE UNCHANGED runVars
    BY <2>5
  <2>6. CASE Save \/ SaveFailure \/ AbandonFailure
    BY <2>5, <2>6 DEF Save, SaveFailure, AbandonFailure
  <2>7. ASSUME NEW call \in DOMAIN Calls, Publish(call)
        PROVE  UNCHANGED runVars
    BY <2>7 DEF Publish
  <2>. QED  BY <2>3, <2>4, <2>5, <2>6, <2>7 DEF Next, vars
<1>. QED  BY <1>1, RunCorrect, PTL DEF Spec, AbortIsFinal

-----------------------------------------------------------------------------
(* What has been saved and shown at each stage of a tick.                   *)
Told ==
  /\ file.tick <= tick
  /\ \A k \in Entities : shown[k].tick <= tick
  /\ stage = "save" => shown["state"].tick < tick
  /\ stage \in Snapshot => file = Saved
  /\ stage \in Snapshot \ {"mark"} => shown["state"].says = "UPDATING"
  /\ stage \in {"proposal", "epoch", "state"} => shown["reason"].tick = tick
  /\ stage \in {"epoch", "state"} =>
       shown["proposal"] = [tick |-> tick, says |-> proposal]
  /\ stage = "state" => shown["epoch"].tick = tick
  /\ stage \in {"save failure"} \cup FailureSnapshot => mode = "SAFE_STOP"
  /\ stage \in FailureSnapshot \ {"failedState"} =>
       shown["state"].says = "SAFE_STOP"

ToldInv == Told /\ SnapshotIsCoherent /\ ShownWasSaved

LEMMA ToldInitial == Init => ToldInv
BY DEF Init, ToldInv, Told, SnapshotIsCoherent, ShownWasSaved, Vouched,
       Entities, Snapshot, FailureSnapshot

LEMMA ToldStep == RunInv /\ ToldInv /\ [Next]_vars => ToldInv'
<1>. SUFFICES ASSUME RunInv, ToldInv, [Next]_vars PROVE ToldInv'
  OBVIOUS
<1>. USE DEF RunInv, ToldInv
<1>. /\ tick \in Nat /\ file.tick \in Nat
     /\ \A k \in Entities : shown[k].tick \in Nat
     /\ "state" \in Entities
  BY RuntimeAssumption DEF TypeOK, Entities
<1>1. ASSUME NEW in \in Snapshots, Evaluate(in) PROVE ToldInv'
  BY <1>1 DEF Evaluate, Told, SnapshotIsCoherent, ShownWasSaved, Vouched,
              Snapshot, FailureSnapshot
<1>2. CASE RefuseInputs \/ Raise
  <2>1. /\ stage' = "save failure" /\ mode' = "SAFE_STOP"
        /\ UNCHANGED <<file, shown>>
    BY <1>2, Zenon DEF RefuseInputs, Raise, FailClosed
  <2>2. tick' \in Nat /\ tick <= tick'
    <3>1. tick' = tick + 1 \/ tick' = tick
      BY <1>2, Zenon DEF RefuseInputs, Raise
    <3>. QED  BY <3>1
  <2>3. Told'
    <3>1. ASSUME NEW k \in Entities
          PROVE  file'.tick <= tick' /\ shown'[k].tick <= tick'
      <4>1. file'.tick = file.tick /\ shown'[k].tick = shown[k].tick
        BY <2>1
      <4>2. file.tick <= tick /\ shown[k].tick <= tick
        BY DEF Told
      <4>. QED  BY <2>2, <4>1, <4>2
    <3>2. stage' = "save failure" /\ mode' = "SAFE_STOP"
      BY <2>1
    <3>. QED  BY <3>1, <3>2 DEF Told, Snapshot, FailureSnapshot
  <2>. QED  BY <2>1, <2>3 DEF SnapshotIsCoherent, ShownWasSaved, Vouched
<1>3. CASE Save
  BY <1>3 DEF Save, Saved, Told, SnapshotIsCoherent, ShownWasSaved, Vouched,
              Snapshot, FailureSnapshot
<1>4. CASE SaveFailure
  <2>1. /\ stage' = "failedState" /\ mode = "SAFE_STOP"
        /\ UNCHANGED <<mode, tick, shown, proposal>>
        /\ file' \in {file, Saved}
    BY <1>4 DEF SaveFailure, Told
  <2>2. CASE file' = Saved
    BY <2>1, <2>2 DEF Saved, Told, SnapshotIsCoherent, ShownWasSaved, Vouched,
                      Snapshot, FailureSnapshot
  <2>3. CASE file' = file
    BY <2>1, <2>3 DEF Told, SnapshotIsCoherent, ShownWasSaved, Vouched,
                      Snapshot, FailureSnapshot
  <2>. QED  BY <2>1, <2>2, <2>3
<1>5. ASSUME NEW call \in DOMAIN Calls, Publish(call) PROVE ToldInv'
  <2>1. /\ stage = call /\ stage' = Calls[call].then
        /\ UNCHANGED <<runVars, tick, file>> /\ Saved' = Saved
    BY <1>5 DEF Publish, Saved
  <2>2. /\ shown'[Calls[call].entity] = [tick |-> tick, says |-> Says(call)]
        /\ \A k \in Entities \ {Calls[call].entity} : shown'[k] = shown[k]
    BY <1>5, CallType DEF Publish, TypeOK
  <2>3. Entities = {"state", "reason", "proposal", "epoch"}
    BY DEF Entities
  <2>4. CASE call = "mark"
    <3>1. Calls[call] = Call("state", "reason") /\ Says(call) = "UPDATING"
      BY <2>4 DEF Calls, Call, Says
    <3>. QED  BY <2>1, <2>2, <2>3, <2>4, <3>1
              DEF Call, Told, SnapshotIsCoherent, ShownWasSaved, Vouched,
                  Snapshot, FailureSnapshot
  <2>5. CASE call = "reason"
    <3>1. Calls[call] = Call("reason", "proposal")
      BY <2>5 DEF Calls, Call, Says
    <3>. QED  BY <2>1, <2>2, <2>3, <2>5, <3>1
              DEF Call, Told, SnapshotIsCoherent, ShownWasSaved, Vouched,
                  Snapshot, FailureSnapshot
  <2>6. CASE call = "proposal"
    <3>1. Calls[call] = Call("proposal", "epoch") /\ Says(call) = proposal
      BY <2>6 DEF Calls, Call, Says
    <3>. QED  BY <2>1, <2>2, <2>3, <2>6, <3>1
              DEF Call, Told, SnapshotIsCoherent, ShownWasSaved, Vouched,
                  Snapshot, FailureSnapshot
  <2>7. CASE call = "epoch"
    <3>1. Calls[call] = Call("epoch", "state")
      BY <2>7 DEF Calls, Call, Says
    <3>. QED  BY <2>1, <2>2, <2>3, <2>7, <3>1
              DEF Call, Told, SnapshotIsCoherent, ShownWasSaved, Vouched,
                  Snapshot, FailureSnapshot
  <2>8. CASE call = "state"
    <3>1. Calls[call] = Call("state", "idle") /\ Says(call) = mode
      BY <2>8 DEF Calls, Call, Says
    <3>2. \A k \in Entities : shown'[k].tick = tick
      BY <2>1, <2>2, <2>3, <2>8, <3>1 DEF Call, Told, Snapshot
    <3>3. /\ shown'["state"].says = mode /\ shown'["proposal"].says = proposal
          /\ file = Saved
      BY <2>1, <2>2, <2>3, <2>8, <3>1 DEF Call, Told, Snapshot
    <3>4. Told'
      BY <2>1, <2>8, <3>1, <3>2 DEF Call, Told, Snapshot, FailureSnapshot
    <3>. QED  BY <2>1, <2>3, <3>2, <3>3, <3>4
              DEF SnapshotIsCoherent, ShownWasSaved, Vouched, Saved, Proposed
  <2>9. CASE call \in FailureSnapshot
    <3>1. mode = "SAFE_STOP"
      BY <2>1, <2>9 DEF Told
    <3>2. /\ stage' \in {"idle"} \cup (FailureSnapshot \ {"failedState"})
          /\ call = "failedState" => Calls[call].entity = "state"
          /\ call # "failedState" => Calls[call].entity # "state"
      BY <2>1, <2>9, CallTable DEF Call, FailureSnapshot
    <3>3. shown'["state"].says = "SAFE_STOP" /\ shown'["state"].tick <= tick
      <4>1. CASE call = "failedState"
        <5>1. Says(call) = mode
          BY <3>2, <4>1, Zenon DEF Says
        <5>. QED  BY <2>2, <3>1, <3>2, <4>1, <5>1, CallType DEF Told
      <4>2. CASE call # "failedState"
        BY <2>1, <2>2, <2>9, <3>2, <4>2 DEF Told
      <4>. QED  BY <4>1, <4>2
    <3>4. ASSUME NEW k \in Entities PROVE shown'[k].tick <= tick
      <4>1. CASE k = Calls[call].entity
        BY <2>2, <4>1
      <4>2. CASE k # Calls[call].entity
        BY <2>2, <4>2 DEF Told
      <4>. QED  BY <4>1, <4>2
    <3>. QED  BY <2>1, <3>1, <3>2, <3>3, <3>4
              DEF Told, SnapshotIsCoherent, ShownWasSaved, Vouched, Snapshot,
                  FailureSnapshot
  <2>. QED  BY <2>4, <2>5, <2>6, <2>7, <2>8, <2>9, CallTable
            DEF FailureSnapshot
<1>6. CASE AbandonFailure \/ Restart
  <2>1. stage' = "idle" /\ UNCHANGED <<tick, file, shown>>
    BY <1>6 DEF AbandonFailure, Restart
  <2>. QED  BY <2>1 DEF Told, SnapshotIsCoherent, ShownWasSaved, Vouched,
                        Snapshot, FailureSnapshot
<1>7. CASE UNCHANGED vars
  BY <1>7 DEF vars, Told, SnapshotIsCoherent, ShownWasSaved, Vouched, Saved
<1>. QED  BY <1>1, <1>2, <1>3, <1>4, <1>5, <1>6, <1>7 DEF Next

LEMMA ToldCorrect == Spec => []ToldInv
BY ToldInitial, ToldStep, RunCorrect, PTL DEF Spec

(* The state entity vouches for an evaluation shown whole.                  *)
THEOREM CoherenceCorrect == Spec => []SnapshotIsCoherent
BY ToldCorrect, PTL DEF ToldInv

(* Nothing is shown before it is saved.                                     *)
THEOREM SavedCorrect == Spec => []ShownWasSaved
BY ToldCorrect, PTL DEF ToldInv

(* Both together (executor_runtime.py:1034, 1107).                           *)
THEOREM PublishedCorrect == Spec => []PublishedIsSound
BY CoherenceCorrect, SavedCorrect, PTL DEF PublishedIsSound

-----------------------------------------------------------------------------
(* A record has a reason to have failed exactly when it has.                *)
Failed(r) == r.failed <=> r.state \in {"FAILED", "EXPIRED"}

(* A record that is still open has the proofs up to its state and no other,    *)
(* and was last observed when the latest of them was.                        *)
OpenOK(r) ==
  r.state \notin Terminal =>
    /\ \A i \in 1..4 : i > Rank[r.state] => r.proof[i] = Unset
    /\ r.last = IF Rank[r.state] < 2 THEN Unset ELSE r.proof[Rank[r.state]]

(* What the caller holds: a record of the dataclass. A candidate may be a drifted*)
(* one instead.                                                             *)
Held(r) == r \in Records /\ RecordOK(r) /\ Failed(r) /\ OpenOK(r)

Built(r) == r \in Records /\ Failed(r) /\ (RecordOK(r) \/ Drifted(r))

(* The inductive invariant: OnlyDriftIsRefused does not say that the caller keeps*)
(* to records of the dataclass, nor that an open one owes its state to its proofs.*)
Inv == current \in CommandEpochs /\ Held(record) /\ Built(attempt)

(* A candidate keeps the proofs of the record and its place in the chain, or adds*)
(* the next of them.                                                        *)
Grown(r) ==
  /\ \A i \in 1..4 : record.proof[i] # Unset => r.proof[i] = record.proof[i]
  /\ r.state \in {record.state, "FAILED", "EXPIRED"}
     \/ Rank[r.state] = Rank[record.state] + 1

(* What a candidate must be.                                                *)
Fit(r) == Built(r) /\ (RecordOK(r) => Held(r)) /\ Grown(r)

Open == record.state \notin Terminal /\ record.epoch = current

(* What EvidenceOnlyGrows says of a step.                                   *)
Growth ==
  /\ Grown(record')
  /\ record.state \in {"STABLE", "FAILED", "EXPIRED"} => record' = record
  /\ record.epoch # current => record' = record

(* Taking a fit candidate is a step that the theorems allow.                *)
LEMMA BuildStep ==
  ASSUME Inv, Open, NEW r, Fit(r), Build(r), current' = current
  PROVE  Inv' /\ Growth
<1>1. attempt' = r /\ record' \in {r, record} /\ Held(record')
  BY DEF Build, Inv, Fit
<1>2. Grown(record')
  BY <1>1 DEF Fit, Grown
<1>. QED
  BY <1>1, <1>2 DEF Inv, Growth, Open, Terminal, Fit

(* So is leaving the record as it is.                                       *)
LEMMA RejectStep ==
  ASSUME Inv, UNCHANGED <<record, attempt>>, current' \in CommandEpochs
  PROVE  Inv' /\ Growth
BY DEF Inv, Growth, Grown

(* A record keeps to the dataclass when it ends.                             *)
LEMMA Ended ==
  ASSUME Inv, Open, NEW r \in Records, r.state \in {"FAILED", "EXPIRED"},
         r.proof = record.proof, r.failed,
         r.state = "EXPIRED" => r.expired >= Expires,
         r.last = record.last \/
           (r.last \in Times /\ r.last >= Earliest(record) /\ r.last >= record.last)
  PROVE  Fit(r)
<1>. USE LifetimeAssumption
<1>1. Rank[r.state] = 0
  BY DEF Rank
<1>2. \A i \in 1..4 : record.proof[i] # Unset /\ r.last # Unset => r.last >= record.proof[i]
  <2>1. CASE r.last = record.last
    BY <2>1 DEF Inv, Held, RecordOK
  <2>2. CASE r.last \in Times /\ r.last >= Earliest(record) /\ r.last >= record.last
    BY <2>2 DEF Inv, Held, RecordOK, Open, OpenOK, Earliest, Records, Rank,
        Terminal,
       Unset, Stamps, Times, States
  <2>. QED  BY <2>1, <2>2
<1>3. r.last # Unset => r.last >= Created
  BY DEF Inv, Held, RecordOK, Earliest, Records, Stamps, Times, Unset
<1>4. RecordOK(r)
  BY <1>1, <1>2, <1>3 DEF Inv, Held, RecordOK
<1>. QED  BY <1>4 DEF Fit, Built, Held, OpenOK, Failed, Grown, Terminal

(* An observation is kept beside the proofs and adds none.                  *)
LEMMA CommandEvidence ==
  ASSUME Inv, NEW obs \in Observations
  PROVE  /\ WithEvidence(record, obs) \in Records
         /\ WithEvidence(record, obs).proof = record.proof
         /\ WithEvidence(record, obs).state = record.state
         /\ WithEvidence(record, obs).last = obs.at
BY DEF Inv, Held, WithEvidence, Records, Observations, Stamps

(* An observation that is stale, early, late or of another epoch.           *)
LEMMA RefuseStep ==
  ASSUME Inv, NEW obs \in Observations, Addressed(obs), Refuse(obs), current' = current
  PROVE  Inv' /\ Growth
<1>0. Open
  BY DEF Addressed, Open
<1>. USE LifetimeAssumption
<1>1. CASE OutOfOrder(obs) /\ Fail(record)
  <2>. DEFINE r == [record EXCEPT !.state = "FAILED", !.failed = TRUE]
  <2>1. Fit(r)
    BY <1>0, Ended DEF Inv, Held, Records, States
  <2>. QED  BY <1>0, <1>1, <2>1, BuildStep DEF Fail
<1>2. CASE ~OutOfOrder(obs) /\ obs.at >= Expires
           /\ Build([WithEvidence(record, obs) EXCEPT !.state = "EXPIRED",
                      !.failed = TRUE, !.expired = obs.at])
  <2>. DEFINE r == [WithEvidence(record, obs) EXCEPT !.state = "EXPIRED",
                      !.failed = TRUE, !.expired = obs.at]
  <2>1. /\ r \in Records /\ r.state = "EXPIRED" /\ r.proof = record.proof
        /\ r.failed /\ r.expired = obs.at /\ r.last = obs.at /\ obs.at \in Times
    BY CommandEvidence DEF Records, States, Stamps, Observations
  <2>2. obs.at >= Earliest(record) /\ obs.at >= record.last
    BY <1>2, <2>1 DEF OutOfOrder, Inv, Held, Records, Stamps, Times, Earliest, Unset
  <2>. HIDE DEF r
  <2>3. Fit(r)
    BY <1>0, <1>2, <2>1, <2>2, Ended
  <2>. USE DEF r
  <2>. QED  BY <1>0, <1>2, <2>3, BuildStep
<1>3. CASE ~OutOfOrder(obs) /\ Fail(WithEvidence(record, obs))
  <2>. DEFINE r == [WithEvidence(record, obs) EXCEPT !.state = "FAILED",
                      !.failed = TRUE]
  <2>1. /\ r \in Records /\ r.state = "FAILED" /\ r.proof = record.proof
        /\ r.failed /\ r.last = obs.at /\ obs.at \in Times
    BY CommandEvidence DEF Records, States, Observations
  <2>2. obs.at >= Earliest(record) /\ obs.at >= record.last
    BY <1>3, <2>1 DEF OutOfOrder, Inv, Held, Records, Stamps, Times, Earliest, Unset
  <2>. HIDE DEF r
  <2>3. Fit(r)
    BY <1>0, <2>1, <2>2, Ended
  <2>. USE DEF r
  <2>. QED  BY <1>0, <1>3, <2>3, BuildStep DEF Fail
<1>. QED  BY <1>1, <1>2, <1>3 DEF Refuse

(* A confirmation adds the next proof, later than all before it.              *)
LEMMA Confirmed ==
  ASSUME Inv, Open, NEW r \in Records, NEW k \in 1..4, NEW at \in Times,
         k = Rank[record.state] + 1, Rank[r.state] = k, r.state \notin {"FAILED", "EXPIRED"},
         r.proof = [record.proof EXCEPT ![k] = at], ~r.failed,
         r.last = IF k < 2 THEN record.last ELSE at,
         at >= Earliest(record), at >= record.last, at < Expires,
         k >= 2 => r.matches \/ r.state = "PHYSICAL_RESPONSE_CONFIRMED"
  PROVE  Fit(r)
<1>. USE LifetimeAssumption
<1>1. /\ \A i \in 1..4 : i < k => record.proof[i] # Unset /\ record.proof[i] <= at
      /\ \A i \in 1..4 : i >= k => record.proof[i] = Unset
      /\ at >= Created
      /\ record.proof \in [1..4 -> Stamps]
  BY DEF Inv, Held, RecordOK, Open, OpenOK, Earliest, Records, Rank, Terminal,
       Unset, Stamps, Times, States
<1>2. /\ \A i \in 1..4 : i # k => r.proof[i] = record.proof[i]
      /\ r.proof[k] = at /\ at # Unset
  BY <1>1 DEF Times, Unset
<1>. DEFINE q == [r EXCEPT !.matches = TRUE]
<1>3. /\ q.proof = r.proof /\ q.state = r.state /\ q.last = r.last
      /\ q.matches /\ q.failed = r.failed
  BY DEF Records
<1>. HIDE DEF q
<1>4. /\ \A i \in 1..4 : r.proof[i] # Unset =>
           /\ r.proof[i] >= Created
           /\ r.proof[i] < Expires
           /\ r.last # Unset => r.last >= r.proof[i]
           /\ \A j \in 1..4 : j < i => r.proof[j] <= r.proof[i]
      /\ r.last # Unset => r.last >= Created
      /\ \A i \in 1..4 : i <= k => r.proof[i] # Unset
  BY <1>1, <1>2 DEF Inv, Held, RecordOK, Open, OpenOK, Rank, States, Records,
      Stamps, Times, Unset
<1>5. RecordOK(q)
  BY <1>3, <1>4 DEF RecordOK
<1>6. RecordOK(r) \/ Drifted(r)
  <2>1. CASE r.matches
    BY <1>4, <2>1 DEF RecordOK
  <2>2. CASE ~r.matches
    BY <1>4, <1>5, <2>2 DEF RecordOK, Drifted, q
  <2>. QED  BY <2>1, <2>2 
<1>7. OpenOK(r)
  BY <1>1, <1>2 DEF OpenOK, Inv, Held, Open, Rank, States, Records
<1>8. Grown(r)
  BY <1>1, <1>2 DEF Grown
<1>. QED  BY <1>6, <1>7, <1>8 DEF Fit, Built, Held, Failed, Records

-----------------------------------------------------------------------------
(* The next proof of the chain, in time and in order.                       *)
LEMMA AdvanceStep ==
  ASSUME Inv, NEW now \in Times, AdvanceCommand(now)
  PROVE  Inv' /\ Growth
<1>. USE LifetimeAssumption
<1>0. Open /\ current' = current
  BY DEF AdvanceCommand, Open
<1>1. CASE /\ now >= Expires
           /\ Build([record EXCEPT !.state = "EXPIRED", !.failed = TRUE,
                                   !.expired = now])
  <2>. DEFINE r == [record EXCEPT !.state = "EXPIRED", !.failed = TRUE,
                                  !.expired = now]
  <2>1. Fit(r)
    BY <1>0, <1>1, Ended DEF Inv, Held, Records, States, Stamps
  <2>. QED  BY <1>0, <1>1, <2>1, BuildStep
<1>2. CASE /\ now < Expires
           /\ record.state = "INTENT_CREATED"
           /\ Build([record EXCEPT !.state = "COMMAND_ISSUED", !.proof[1] = now])
  <2>. DEFINE r == [record EXCEPT !.state = "COMMAND_ISSUED", !.proof[1] = now]
  <2>1. /\ r \in Records /\ r.state = "COMMAND_ISSUED"
        /\ r.proof = [record.proof EXCEPT ![1] = now]
        /\ ~r.failed /\ r.last = record.last
    BY <1>2 DEF Inv, Held, Records, Failed, States, Stamps
  <2>2. now >= Earliest(record) /\ now >= record.last
    BY <1>2 DEF AdvanceCommand, Earliest, Inv, Held, OpenOK, Terminal, Rank, Times,
        Unset
  <2>3. Rank[record.state] = 0 /\ Rank[r.state] = 1
    BY <1>2, <2>1 DEF Rank
  <2>. HIDE DEF r
  <2>4. Fit(r)
    BY <1>0, <1>2, <2>1, <2>2, <2>3, Confirmed
  <2>. USE DEF r
  <2>. QED  BY <1>0, <1>2, <2>4, BuildStep
<1>. QED  BY <1>1, <1>2 DEF AdvanceCommand

(* What an observation that is not refused is worth.                          *)
LEMMA ValidIsInOrder ==
  ASSUME Inv, NEW obs \in Observations, Valid(obs)
  PROVE  /\ Open /\ obs.at \in Times /\ obs.at < Expires
         /\ obs.at >= Earliest(record) /\ obs.at >= record.last
<1>1. /\ obs.at \in Nat /\ record.last \in Int /\ Earliest(record) \in Int
  BY LifetimeAssumption
  DEF Observations, Times, Inv, Held, Records, Stamps, Unset, Earliest
<1>. QED
  BY <1>1 DEF Valid, Addressed, Open, OutOfOrder, Observations

(* An observation that arrives in order but says no ends the record.          *)
LEMMA FailStep ==
  ASSUME Inv, NEW obs \in Observations, Valid(obs),
         Fail(WithEvidence(record, obs)), current' = current
  PROVE  Inv' /\ Growth
<1>. DEFINE r == [WithEvidence(record, obs) EXCEPT !.state = "FAILED",
                    !.failed = TRUE]
<1>1. /\ r \in Records /\ r.state = "FAILED" /\ r.proof = record.proof
      /\ r.failed /\ r.last = obs.at
  BY CommandEvidence DEF Records, States, Observations
<1>2. Open /\ Build(r)
  BY ValidIsInOrder DEF Fail
<1>. HIDE DEF r
<1>3. Fit(r)
  BY <1>1, <1>2, ValidIsInOrder, Ended
<1>. QED  BY <1>2, <1>3, BuildStep

(* readback_confirmed: the third proof.                                     *)
LEMMA ReadbackStep ==
  ASSUME Inv, NEW obs \in Observations, ConfirmReadback(obs), current' = current
  PROVE  Inv' /\ Growth
<1>1. CASE ~Addressed(obs)
  BY <1>1, RejectStep DEF ConfirmReadback, Reject, Inv
<1>2. CASE Addressed(obs) /\ ~Valid(obs)
  BY <1>2, RefuseStep DEF ConfirmReadback
<1>3. CASE Valid(obs) /\ record.state # "COMMAND_ISSUED"
  BY <1>3, RejectStep DEF ConfirmReadback, Reject, Inv, Valid
<1>4. CASE Valid(obs) /\ record.state = "COMMAND_ISSUED" /\ obs.readback # "match"
  BY <1>4, FailStep DEF ConfirmReadback, Valid
<1>5. CASE Valid(obs) /\ record.state = "COMMAND_ISSUED" /\ obs.readback = "match"
  <2>. DEFINE r == [WithEvidence(record, obs) EXCEPT
                      !.state = "READBACK_CONFIRMED", !.proof[2] = obs.at,
                      !.failed = FALSE]
  <2>1. Build(r)
    BY <1>5 DEF ConfirmReadback, Valid
  <2>2. /\ r \in Records /\ r.state = "READBACK_CONFIRMED" /\ ~r.failed
        /\ r.proof = [record.proof EXCEPT ![2] = obs.at] /\ r.last = obs.at
        /\ r.matches
    BY <1>5 DEF Inv, Held, WithEvidence, Records, Observations, Stamps, States
  <2>3. Rank[record.state] + 1 = 2 /\ Rank[r.state] = 2
    BY <1>5, <2>2 DEF Rank
  <2>. HIDE DEF r
  <2>4. Fit(r)
    BY <1>5, <2>2, <2>3, ValidIsInOrder, Confirmed
  <2>. QED  BY <1>5, <2>1, <2>4, ValidIsInOrder, BuildStep
<1>. QED  BY <1>1, <1>2, <1>3, <1>4, <1>5 DEF Valid

(* physical_response_confirmed: the fourth, where a readback may drift.     *)
LEMMA ResponseStep ==
  ASSUME Inv, NEW obs \in Observations, ConfirmPhysicalResponse(obs),
         current' = current
  PROVE  Inv' /\ Growth
<1>1. CASE ~Addressed(obs)
  BY <1>1, RejectStep DEF ConfirmPhysicalResponse, Reject, Inv
<1>2. CASE Addressed(obs) /\ ~Valid(obs)
  BY <1>2, RefuseStep DEF ConfirmPhysicalResponse
<1>3. CASE Valid(obs) /\ record.state # "READBACK_CONFIRMED"
  BY <1>3, RejectStep DEF ConfirmPhysicalResponse, Reject, Inv, Valid
<1>4. CASE Valid(obs) /\ record.state = "READBACK_CONFIRMED" /\ ~obs.response
  BY <1>4, FailStep DEF ConfirmPhysicalResponse, Valid
<1>5. CASE Valid(obs) /\ record.state = "READBACK_CONFIRMED" /\ obs.response
  <2>. DEFINE r == [WithEvidence(record, obs) EXCEPT
                      !.state = "PHYSICAL_RESPONSE_CONFIRMED",
                      !.proof[3] = obs.at, !.failed = FALSE]
  <2>1. Build(r)
    BY <1>5 DEF ConfirmPhysicalResponse, Valid
  <2>2. /\ r \in Records /\ r.state = "PHYSICAL_RESPONSE_CONFIRMED"
        /\ r.proof = [record.proof EXCEPT ![3] = obs.at] /\ r.last = obs.at
        /\ ~r.failed
    BY <1>5 DEF Inv, Held, WithEvidence, Records, Observations, Stamps, States
  <2>3. Rank[record.state] + 1 = 3 /\ Rank[r.state] = 3
    BY <1>5, <2>2 DEF Rank
  <2>. HIDE DEF r
  <2>4. Fit(r)
    BY <1>5, <2>2, <2>3, ValidIsInOrder, Confirmed
  <2>. QED  BY <1>5, <2>1, <2>4, ValidIsInOrder, BuildStep
<1>. QED  BY <1>1, <1>2, <1>3, <1>4, <1>5 DEF Valid

(* stability_confirmed: the last, of the readback and the response.         *)
LEMMA StabilityStep ==
  ASSUME Inv, NEW own \in BOOLEAN, NEW stable \in BOOLEAN, NEW ep \in CommandEpochs,
         NEW at \in Times, ConfirmStability(own, ep, at, stable)
  PROVE  Inv' /\ Growth
<1>0. Open /\ current' = current /\ at >= record.last
      /\ record.state = "PHYSICAL_RESPONSE_CONFIRMED"
  BY DEF ConfirmStability, Open, Terminal
<1>1. at >= Earliest(record)
  BY <1>0, LifetimeAssumption
  DEF Inv, Held, RecordOK, OpenOK, Terminal, Rank, Earliest, Records, Stamps,
      Times, Unset
<1>2. CASE /\ at >= Expires
           /\ Build([record EXCEPT !.state = "EXPIRED", !.last = at,
                                   !.failed = TRUE, !.expired = at])
  <2>. DEFINE r == [record EXCEPT !.state = "EXPIRED", !.last = at,
                                  !.failed = TRUE, !.expired = at]
  <2>1. /\ r \in Records /\ r.state = "EXPIRED" /\ r.proof = record.proof
        /\ r.failed /\ r.expired = at /\ r.last = at
    BY DEF Inv, Held, Records, States, Stamps
  <2>. HIDE DEF r
  <2>2. Fit(r)
    BY <1>0, <1>1, <1>2, <2>1, Ended
  <2>. USE DEF r
  <2>. QED  BY <1>0, <1>2, <2>2, BuildStep
<1>3. CASE /\ at < Expires /\ stable
           /\ Build([record EXCEPT !.state = "STABLE", !.last = at,
                                   !.proof[4] = at, !.failed = FALSE])
  <2>. DEFINE r == [record EXCEPT !.state = "STABLE", !.last = at,
                                  !.proof[4] = at, !.failed = FALSE]
  <2>0. record \in Records /\ record.matches
    BY <1>0 DEF Inv, Held, RecordOK, Rank
  <2>1. /\ r \in Records /\ r.state = "STABLE" /\ ~r.failed
        /\ r.proof = [record.proof EXCEPT ![4] = at] /\ r.last = at /\ r.matches
    BY <2>0 DEF Records, States, Stamps
  <2>2. Rank[record.state] + 1 = 4 /\ Rank[r.state] = 4
    BY <1>0, <2>1 DEF Rank
  <2>. HIDE DEF r
  <2>3. Fit(r)
    BY <1>0, <1>1, <1>3, <2>1, <2>2, Confirmed
  <2>. USE DEF r
  <2>. QED  BY <1>0, <1>3, <2>3, BuildStep
<1>. QED  BY <1>2, <1>3 DEF ConfirmStability

-----------------------------------------------------------------------------
LEMMA Initial == CommandInit => Inv
<1>. SUFFICES ASSUME CommandInit PROVE Inv
  OBVIOUS
<1>1. 0 \in CommandEpochs /\ NewRecord \in Records
  BY LifetimeAssumption DEF CommandEpochs, NewRecord, Records, States, Stamps
<1>2. RecordOK(NewRecord) /\ Failed(NewRecord) /\ OpenOK(NewRecord)
  BY DEF NewRecord, RecordOK, Failed, OpenOK, Rank, Unset
<1>. QED  BY <1>1, <1>2 DEF CommandInit, Inv, Held, Built

LEMMA Step ==
  ASSUME Inv, [CommandNext]_commandVars
  PROVE  Inv' /\ Growth
<1>1. CASE UNCHANGED commandVars
  BY <1>1, RejectStep DEF commandVars, Inv
<1>2. ASSUME NEW now \in Times, AdvanceCommand(now) PROVE Inv' /\ Growth
  BY <1>2, AdvanceStep
<1>3. ASSUME NEW obs \in Observations, EvaluateObservation(obs) PROVE Inv' /\ Growth
  BY <1>3, ReadbackStep, ResponseStep, RejectStep
  DEF EvaluateObservation, Dispatch, Reject, Inv
<1>4. ASSUME NEW obs \in Observations, Confirm(obs) PROVE Inv' /\ Growth
  BY <1>4, ReadbackStep, ResponseStep DEF Confirm
<1>5. ASSUME NEW own \in BOOLEAN, NEW stable \in BOOLEAN, NEW ep \in CommandEpochs,
             NEW at \in Times, ConfirmStability(own, ep, at, stable)
      PROVE  Inv' /\ Growth
  BY <1>5, StabilityStep
<1>6. CASE CommandRestart
  BY <1>6, RejectStep, LifetimeAssumption DEF CommandRestart, CommandEpochs, Inv
<1>. QED  BY <1>1, <1>2, <1>3, <1>4, <1>5, <1>6 DEF CommandNext

LEMMA InvCorrect == CommandSpec => []Inv
BY Initial, Step, PTL DEF CommandSpec

(* Whatever is called, in any order and with any timestamps, no lifecycle function*)
(* builds a record that CommandRecord refuses, but for the response whose readback*)
(* drifted (command_lifecycle.py:190).                                      *)
THEOREM LifecycleCorrect == CommandSpec => []OnlyDriftIsRefused
<1>1. Inv => OnlyDriftIsRefused
  BY DEF Inv, Held, Built, Failed, OnlyDriftIsRefused, CommandTypeOK
<1>. QED  BY <1>1, InvCorrect, PTL

(* Confirmations are never moved or withdrawn, states follow the chain one proof*)
(* at a time, and a terminal record, or one of another epoch, stays as it is*)
(* (command_lifecycle.py:24-263).                                           *)
THEOREM EvidenceCorrect == CommandSpec => EvidenceOnlyGrows
<1>1. Inv /\ [CommandNext]_commandVars =>
        [ /\ \A i \in 1..4 : record.proof[i] # Unset =>
             record'.proof[i] = record.proof[i]
          /\ record.state \in {"STABLE", "FAILED", "EXPIRED"} => record' = record
          /\ record.epoch # current => record' = record
          /\ record'.state \in {record.state, "FAILED", "EXPIRED"}
             \/ Rank[record'.state] = Rank[record.state] + 1 ]_commandVars
  BY Step DEF Growth, Grown
<1>. QED  BY <1>1, InvCorrect, PTL DEF CommandSpec, EvidenceOnlyGrows
=============================================================================
