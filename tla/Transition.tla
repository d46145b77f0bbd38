------------------------------ MODULE Transition ------------------------------
(***************************************************************************)
(* One break-before-make transition of the shadow executor, from its plan  *)
(* to its end: executor/transition.py, driven as executor/engine.py drives *)
(* it.                                                                     *)
(*                                                                         *)
(* An action is one evaluation (one call of advance_transition), a tick of *)
(* the clock, or a step of the outstanding command, which the repository   *)
(* leaves to its callers.  An evaluation that returns the progress         *)
(* it was given is a stuttering step.  Stop, hold and target commands carry *)
(* distinct identifiers, so evidence is evidence of the command awaited.   *)
(*                                                                         *)
(* Powers are whole units: a PCC limit below Target is a CLAMP decision,   *)
(* Target itself the decision NONE.  A target of 0 is None.                *)
(***************************************************************************)
EXTENDS Integers

CONSTANTS
  Sources,         \* role vectors a transition may start from
  Intents,         \* intent types it may be planned for
  Target,          \* target_w of an active intent
  Start,           \* created_at of the plan
  Deadline,        \* its deadline, the deadline of the intent
  PhaseTimeout,    \* phase_timeouts_s, the same for every phase
  PccMaxAge,       \* pcc_max_age_s
  ReadyMaxAge,     \* readiness_max_age_s
  Dwell,           \* neutral_dwell_s
  ConflictAction   \* owned_writer_conflict_action

Batteries == {"SOLAX", "DEYE"}
Active == {"CHARGE", "DISCHARGE"}
Writing == Active \cup {"HOLD"}
RoleNames == Writing \cup {"NATIVE", "OFF"}
RoleVectors == [Batteries -> RoleNames]
Failures == {"ROLLBACK", "SAFE_STOP"}

Vector(solax, deye) ==
  [b \in Batteries |-> IF b = "SOLAX" THEN solax ELSE deye]
Native == Vector("NATIVE", "OFF")

IntentTypes ==
  {"NORMAL", "CHARGE_SOLAX", "DISCHARGE_SOLAX", "CHARGE_DEYE", "DISCHARGE_DEYE"}

DesiredRoles ==
  [NORMAL          |-> Native,
   CHARGE_SOLAX    |-> Vector("CHARGE", "OFF"),
   DISCHARGE_SOLAX |-> Vector("DISCHARGE", "OFF"),
   CHARGE_DEYE     |-> Vector("HOLD", "CHARGE"),
   DISCHARGE_DEYE  |-> Vector("HOLD", "DISCHARGE")]

ASSUME PlanAssumption ==
  /\ Sources \subseteq RoleVectors
  /\ Intents \subseteq IntentTypes
  /\ Target \in Nat \ {0}
  /\ Start \in Nat /\ Deadline \in Nat /\ Start < Deadline

ASSUME ConfigAssumption ==
  /\ PhaseTimeout \in Nat \ {0} /\ PccMaxAge \in Nat \ {0}
  /\ ReadyMaxAge \in Nat \ {0} /\ Dwell \in Nat \ {0}
  /\ ConflictAction \in Failures

VARIABLES
  now,             \* the time of the evaluation
  status,          \* "active", or the failed outcome the transition ended in
  source,          \* plan.current_roles
  intent,          \* plan.intent.intent_type
  phase, entered,  \* current_phase and phase_entered_at
  roles, owners,   \* physical_roles and writer_owners
  expected,        \* expected_command
  effective,       \* effective_target_w
  pccUntil, readyUntil,   \* pcc_valid_until and readiness_valid_until
  neutralSince, sampled,  \* neutral_since, and the last sample of each source
  disturbed,       \* history: time of the last sample that was not neutral
  command,         \* lifecycle state of the record of the expected command
  stopped,         \* history: batteries whose stop was acknowledged
  headroom         \* history: limit of the last PCC reading that was evaluated

planVars == <<source, intent>>
phaseVars == <<phase, entered>>
ownVars == <<roles, owners>>
proofVars == <<pccUntil, readyUntil>>
settleVars == <<neutralSince, sampled, disturbed>>
cmdVars == <<expected, command, stopped>>
powerVars == <<effective, headroom>>
vars == <<now, status, planVars, phaseVars, ownVars, proofVars, settleVars,
          cmdVars, powerVars>>

Unset == -1
Times == 0..Deadline
Stamps == Times \cup {Unset}

Lesser(a, b) == IF a <= b THEN a ELSE b
Latest(at) == IF at["SOLAX"] >= at["DEYE"] THEN at["SOLAX"] ELSE at["DEYE"]

-----------------------------------------------------------------------------
(* Roles and owners.                                                       *)
WritersOf(r) == {b \in Batteries : r[b] \in Writing}
DrivenBy(r) == {b \in Batteries : r[b] \in Active}

Desired == DesiredRoles[intent]
Destination == DrivenBy(Desired)
Breaks == WritersOf(source) # {}           \* full_break_required
Drives == Destination # {}                 \* the intent has an active target

(* _stop_owner: the active battery, else the single writer, else none.     *)
StopOwner(r, w) ==
  IF "SOLAX" \in DrivenBy(r) THEN {"SOLAX"}
  ELSE IF DrivenBy(r) # {} THEN DrivenBy(r)
  ELSE IF w = Batteries THEN {} ELSE w

-----------------------------------------------------------------------------
(* Phases: _canonical_phases and _next_progress.                           *)
Position ==
  [FREEZE_INTENT |-> 1, STOP_CURRENT_OWNER |-> 2, WAIT_CURRENT_ACK |-> 3,
   WAIT_NEUTRAL |-> 4, VERIFY_PCC |-> 5, ARM_DESTINATION |-> 6,
   WAIT_DESTINATION_READY |-> 7, ISSUE_TARGET |-> 8, WAIT_TARGET_ACK |-> 9,
   WAIT_PHYSICAL_RESPONSE |-> 10, WAIT_STABLE |-> 11, COMPLETE |-> 12]
Phases == {"FREEZE_INTENT", "STOP_CURRENT_OWNER", "WAIT_CURRENT_ACK",
           "WAIT_NEUTRAL", "VERIFY_PCC", "ARM_DESTINATION",
           "WAIT_DESTINATION_READY", "ISSUE_TARGET", "WAIT_TARGET_ACK",
           "WAIT_PHYSICAL_RESPONSE", "WAIT_STABLE", "COMPLETE"}
Beyond(p) == Position[phase] > Position[p]

Continuation == {"WAIT_DESTINATION_READY", "ISSUE_TARGET", "WAIT_TARGET_ACK",
                 "WAIT_PHYSICAL_RESPONSE", "WAIT_STABLE", "COMPLETE"}
TargetWait == {"WAIT_TARGET_ACK", "WAIT_PHYSICAL_RESPONSE", "WAIT_STABLE",
               "COMPLETE"}

AfterBreak == IF Drives THEN "VERIFY_PCC" ELSE "COMPLETE"
AfterFreeze_Direct == AfterBreak                       \* mutated: retarget
AfterFreeze_Unstopped ==                               \* mutated: no stop
  IF Breaks THEN "WAIT_NEUTRAL" ELSE AfterBreak
AfterFreeze == IF Breaks THEN "STOP_CURRENT_OWNER" ELSE AfterBreak

Enter(p) == phase' = p /\ entered' = now

PhaseDeadline == Lesser(Deadline, entered + PhaseTimeout)

-----------------------------------------------------------------------------
(* Commands.                                                               *)
CommandStates == {"NONE", "COMMAND_ISSUED", "READBACK_CONFIRMED",
                  "PHYSICAL_RESPONSE_CONFIRMED", "STABLE", "FAILED", "EXPIRED"}
Readback == {"READBACK_CONFIRMED", "PHYSICAL_RESPONSE_CONFIRMED", "STABLE"}
Physical == {"PHYSICAL_RESPONSE_CONFIRMED", "STABLE"}
Ended == {"FAILED", "EXPIRED"}

Cmd(kind, b, role, target) ==
  [kind |-> kind, battery |-> b, role |-> role, target |-> target]
NoCommand == Cmd("NONE", "SOLAX", "OFF", 0)
StopOf(b) ==
  Cmd("STOP_CURRENT_OWNER", b, IF b = "SOLAX" THEN "NATIVE" ELSE "OFF", 0)
HoldSolax == Cmd("ARM_DESTINATION", "SOLAX", "HOLD", 0)
TargetFor(b, watts) == Cmd("APPLY_TARGET", b, Desired[b], watts)

Commands ==
  [kind : {"NONE", "STOP_CURRENT_OWNER", "ARM_DESTINATION", "APPLY_TARGET"},
   battery : Batteries, role : RoleNames, target : 0..Target]

Propose(c) == expected' = c /\ command' = "COMMAND_ISSUED"

(* The record's own progress; each state may also fail or expire.          *)
LaterStates ==
  [COMMAND_ISSUED |-> {"READBACK_CONFIRMED"} \cup Ended,
   READBACK_CONFIRMED |-> {"PHYSICAL_RESPONSE_CONFIRMED"} \cup Ended,
   PHYSICAL_RESPONSE_CONFIRMED |-> {"STABLE"} \cup Ended,
   NONE |-> {}, STABLE |-> {}, FAILED |-> {}, EXPIRED |-> {}]

Respond ==
  /\ status = "active"
  /\ command' \in LaterStates[command]
  /\ UNCHANGED <<now, status, planVars, phaseVars, ownVars, proofVars,
                 settleVars, expected, stopped, powerVars>>

-----------------------------------------------------------------------------
(* What every evaluation checks before it looks at its phase.              *)
Limits == IF Drives THEN 1..Target ELSE {0}
Readings == {p \in [at : Times, limit : Limits] :
               p.at <= now /\ now - p.at <= PccMaxAge}

Due ==
  /\ status = "active"
  /\ now < Deadline
  /\ phase = "COMPLETE" \/ now < PhaseDeadline

NeedsPcc ==
  /\ phase # "STOP_CURRENT_OWNER"
  /\ owners # {} \/ phase = "ARM_DESTINATION"

Current(p) ==
  /\ now - p.at < PccMaxAge
  /\ phase = "ARM_DESTINATION" => now < pccUntil

Heard(p) == Due /\ (NeedsPcc => Current(p))

Lowered(p) == expected # NoCommand /\ p.limit < effective

Evaluated_Unclamped(p) ==                  \* mutated: the clamp is lost
  effective' = effective /\ headroom' = p.limit

Evaluated(p) ==
  /\ effective' = Lesser(effective, p.limit)
  /\ headroom' = p.limit

(* An evaluation nobody objects to.                                        *)
Take(p) == Heard(p) /\ ~Lowered(p) /\ Evaluated(p)

Fail(outcome) ==
  /\ status' = outcome
  /\ UNCHANGED <<now, planVars, phaseVars, ownVars, proofVars, cmdVars>>

Expire_Incomplete ==                       \* mutated: complete never expires
  /\ status = "active" /\ now >= Deadline
  /\ phase # "COMPLETE"
  /\ Fail("ROLLBACK")
  /\ UNCHANGED <<settleVars, powerVars>>

Expire ==
  /\ status = "active" /\ now >= Deadline
  /\ Fail("ROLLBACK")
  /\ UNCHANGED <<settleVars, powerVars>>

Overrun ==
  /\ status = "active" /\ now < Deadline
  /\ phase # "COMPLETE" /\ now >= PhaseDeadline
  /\ \E outcome \in Failures : Fail(outcome)
  /\ UNCHANGED <<settleVars, powerVars>>

Disable ==
  /\ Due /\ phase \in Continuation
  /\ Fail("ROLLBACK")
  /\ UNCHANGED <<settleVars, powerVars>>

LosePcc ==
  /\ Due /\ NeedsPcc /\ owners # {}
  /\ Fail("ROLLBACK")
  /\ UNCHANGED <<settleVars, powerVars>>

ExceedHeadroom(p) ==
  /\ Heard(p) /\ Lowered(p)
  /\ Fail("ROLLBACK")
  /\ headroom' = p.limit
  /\ UNCHANGED <<effective, settleVars>>

(* A safety decision: ROLLBACK and SAFE_STOP end the transition, DEFER     *)
(* ends it when it owns a writer and otherwise drops the reading's clamp.  *)
Object(p, action) ==
  /\ Heard(p)
  /\ action = "DEFER" => owners # {}
  /\ Fail(IF action = "DEFER" THEN "ROLLBACK" ELSE action)
  /\ headroom' = p.limit
  /\ UNCHANGED <<effective, settleVars>>

Defer(p) ==
  /\ Heard(p) /\ owners = {}
  /\ headroom' = p.limit
  /\ UNCHANGED <<now, status, planVars, phaseVars, ownVars, proofVars,
                 settleVars, cmdVars, effective>>

Conflict(p) ==
  /\ Take(p)
  /\ phase # "STOP_CURRENT_OWNER" /\ owners # {}
  /\ Fail(ConflictAction)
  /\ UNCHANGED settleVars

-----------------------------------------------------------------------------
(* The phases.  Wait is every evaluation whose phase lacks evidence, a     *)
(* command id, a capability or the enabled flag, and every evaluation of a *)
(* complete transition.                                                    *)
Wait(p) ==
  /\ Take(p)
  /\ phase = "FREEZE_INTENT" => owners = {}
  /\ UNCHANGED <<now, status, planVars, phaseVars, ownVars, proofVars,
                 settleVars, cmdVars>>

Freeze(p) ==
  /\ phase = "FREEZE_INTENT" /\ Take(p)
  /\ Enter(AfterFreeze)
  /\ UNCHANGED <<now, status, planVars, ownVars, proofVars, settleVars,
                 cmdVars>>

StopCurrentOwner(p) ==
  /\ phase = "STOP_CURRENT_OWNER" /\ Take(p)
  /\ \E b \in StopOwner(roles, owners) : Propose(StopOf(b))
  /\ Enter("WAIT_CURRENT_ACK")
  /\ UNCHANGED <<now, status, planVars, ownVars, proofVars, settleVars,
                 stopped>>

AcknowledgeStop(p) ==
  /\ phase = "WAIT_CURRENT_ACK" /\ Take(p)
  /\ command \in Readback
  /\ stopped' = stopped \cup {expected.battery}
  /\ expected' = NoCommand /\ command' = "NONE"
  /\ Enter("WAIT_NEUTRAL")
  /\ UNCHANGED <<now, status, planVars, ownVars, proofVars, settleVars>>

(* A failed or expired command ends the waits for it, but not ARM.         *)
LoseCommand(p) ==
  /\ phase \in {"WAIT_CURRENT_ACK", "WAIT_TARGET_ACK",
                "WAIT_PHYSICAL_RESPONSE", "WAIT_STABLE"}
  /\ Take(p)
  /\ command \in Ended
  /\ Fail("ROLLBACK")
  /\ UNCHANGED settleVars

(* Battery power samples of both sources, neutral or not.                  *)
Samples ==
  {at \in [Batteries -> Times] :
     \A b \in Batteries :
       at[b] <= now /\ now - at[b] <= PccMaxAge /\ at[b] >= sampled[b]}

Sample(at, neutral) ==
  /\ sampled' = at
  /\ disturbed' = IF neutral THEN disturbed ELSE Latest(at)

Observe_Sticky(at, neutral) ==             \* mutated: no reset
  /\ Sample(at, neutral)
  /\ neutralSince' = IF neutralSince # Unset THEN neutralSince
                     ELSE IF neutral THEN Latest(at) ELSE Unset

Observe(at, neutral) ==
  /\ Sample(at, neutral)
  /\ neutralSince' = IF ~neutral THEN Unset
                     ELSE IF neutralSince # Unset THEN neutralSince
                     ELSE Latest(at)

Settled(at, neutral) ==
  neutral /\ neutralSince' # Unset /\ Latest(at) - neutralSince' >= Dwell

ObjectToFlow(p, at, neutral) ==
  /\ phase = "WAIT_NEUTRAL" /\ Take(p)
  /\ Observe(at, neutral)
  /\ \E outcome \in Failures : Fail(outcome)

Settle(p, at, neutral) ==
  /\ phase = "WAIT_NEUTRAL" /\ Take(p)
  /\ Observe(at, neutral)
  /\ ~Settled(at, neutral)
  /\ UNCHANGED <<now, status, planVars, phaseVars, ownVars, proofVars, cmdVars>>

Release(p, at) ==
  /\ phase = "WAIT_NEUTRAL" /\ Take(p)
  /\ Observe(at, TRUE)
  /\ Settled(at, TRUE)
  /\ roles' = Native /\ owners' = {}
  /\ Enter(AfterBreak)
  /\ UNCHANGED <<now, status, planVars, proofVars, cmdVars>>

VerifyPcc(p) ==
  /\ phase = "VERIFY_PCC" /\ Take(p)
  /\ now < p.at + PccMaxAge
  /\ pccUntil' = p.at + PccMaxAge
  /\ Enter("ARM_DESTINATION")
  /\ UNCHANGED <<now, status, planVars, ownVars, readyUntil, settleVars,
                 cmdVars>>

ArmSolax(p) ==
  /\ phase = "ARM_DESTINATION" /\ Take(p)
  /\ Destination = {"SOLAX"}
  /\ roles' = Native /\ owners' = {"SOLAX"}
  /\ Enter("WAIT_DESTINATION_READY")
  /\ UNCHANGED <<now, status, planVars, proofVars, settleVars, cmdVars>>

ProposeHold(p) ==
  /\ phase = "ARM_DESTINATION" /\ Take(p)
  /\ Destination = {"DEYE"} /\ expected = NoCommand
  /\ Propose(HoldSolax)
  /\ UNCHANGED <<now, status, planVars, phaseVars, ownVars, proofVars,
                 settleVars, stopped>>

ArmDeye_Unheld(p) ==                       \* mutated: hold never awaited
  /\ phase = "ARM_DESTINATION" /\ Take(p)
  /\ Destination = {"DEYE"}
  /\ roles' = Native /\ owners' = {"DEYE"}
  /\ expected' = NoCommand /\ command' = "NONE"
  /\ Enter("WAIT_DESTINATION_READY")
  /\ UNCHANGED <<now, status, planVars, proofVars, settleVars, stopped>>

ArmDeye(p) ==
  /\ phase = "ARM_DESTINATION" /\ Take(p)
  /\ Destination = {"DEYE"} /\ expected # NoCommand
  /\ command \in Readback
  /\ roles' = Vector("HOLD", "OFF") /\ owners' = Batteries
  /\ expected' = NoCommand /\ command' = "NONE"
  /\ Enter("WAIT_DESTINATION_READY")
  /\ UNCHANGED <<now, status, planVars, proofVars, settleVars, stopped>>

DestinationReady(p, until) ==
  /\ phase = "WAIT_DESTINATION_READY" /\ Take(p)
  /\ readyUntil' = until
  /\ Enter("ISSUE_TARGET")
  /\ UNCHANGED <<now, status, planVars, ownVars, pccUntil, settleVars, cmdVars>>

IssueTarget(p) ==
  /\ phase = "ISSUE_TARGET" /\ Take(p)
  /\ now < pccUntil /\ now < readyUntil
  /\ \E b \in Destination : Propose(TargetFor(b, effective'))
  /\ Enter("WAIT_TARGET_ACK")
  /\ UNCHANGED <<now, status, planVars, ownVars, proofVars, settleVars, stopped>>

ConfirmTarget(p) ==
  /\ phase = "WAIT_TARGET_ACK" /\ Take(p)
  /\ command \in Readback
  /\ Enter("WAIT_PHYSICAL_RESPONSE")
  /\ UNCHANGED <<now, status, planVars, ownVars, proofVars, settleVars, cmdVars>>

ConfirmResponse(p) ==
  /\ phase = "WAIT_PHYSICAL_RESPONSE" /\ Take(p)
  /\ command \in Physical
  /\ Enter("WAIT_STABLE")
  /\ UNCHANGED <<now, status, planVars, ownVars, proofVars, settleVars, cmdVars>>

ConfirmStable(p) ==
  /\ phase = "WAIT_STABLE" /\ Take(p)
  /\ command = "STABLE"
  /\ roles' = Desired /\ owners' = WritersOf(Desired)
  /\ Enter("COMPLETE")
  /\ UNCHANGED <<now, status, planVars, proofVars, settleVars, cmdVars>>

-----------------------------------------------------------------------------
Tick ==
  /\ now < Deadline
  /\ now' = now + 1
  /\ UNCHANGED <<status, planVars, phaseVars, ownVars, proofVars, settleVars,
                 cmdVars, powerVars>>

(* plan_transition, and the clamp evaluate_executor applies to the plan.   *)
Init ==
  /\ now = Start /\ status = "active"
  /\ source \in Sources /\ intent \in Intents
  /\ phase = "FREEZE_INTENT" /\ entered = Start
  /\ roles = source /\ owners = WritersOf(source)
  /\ expected = NoCommand /\ command = "NONE" /\ stopped = {}
  /\ headroom \in Limits /\ effective = headroom
  /\ pccUntil = Unset /\ readyUntil = Unset
  /\ neutralSince = Unset /\ sampled = [b \in Batteries |-> Unset]
  /\ disturbed = Unset

GiveUp == Expire \/ Overrun \/ Disable \/ LosePcc

Advance(p) ==
  \/ Freeze(p) \/ StopCurrentOwner(p) \/ AcknowledgeStop(p)
  \/ VerifyPcc(p) \/ ArmSolax(p) \/ ProposeHold(p) \/ ArmDeye(p)
  \/ \E until \in now + 1 .. now + ReadyMaxAge : DestinationReady(p, until)
  \/ IssueTarget(p) \/ ConfirmTarget(p) \/ ConfirmResponse(p)
  \/ ConfirmStable(p)

Watch(p) ==
  /\ phase = "WAIT_NEUTRAL"
  /\ \E at \in Samples :
       \/ Release(p, at)
       \/ \E neutral \in BOOLEAN :
            Settle(p, at, neutral) \/ ObjectToFlow(p, at, neutral)

Judge(p) ==
  \/ ExceedHeadroom(p) \/ Defer(p) \/ Conflict(p) \/ LoseCommand(p) \/ Wait(p)
  \/ \E action \in Failures \cup {"DEFER"} : Object(p, action)

Evaluate ==
  GiveUp \/ \E p \in Readings : Advance(p) \/ Watch(p) \/ Judge(p)

Next == Tick \/ Respond \/ Evaluate

Spec == Init /\ [][Next]_vars

(* The runtime evaluates on a timer, and the clock runs.                    *)
FairSpec == Spec /\ WF_vars(Tick) /\ WF_vars(Evaluate)

-----------------------------------------------------------------------------
TypeOK ==
  /\ now \in Times /\ status \in Failures \cup {"active"}
  /\ source \in Sources /\ intent \in Intents
  /\ phase \in Phases /\ entered \in Start..now
  /\ roles \in RoleVectors /\ owners \subseteq Batteries
  /\ expected \in Commands /\ command \in CommandStates
  /\ stopped \subseteq Batteries
  /\ effective \in Limits /\ headroom \in Limits
  /\ pccUntil \in Int /\ readyUntil \in Int
  /\ neutralSince \in Stamps /\ disturbed \in Stamps
  /\ sampled \in [Batteries -> Stamps]

(* TransitionProgress validates itself whenever it is built, and an        *)
(* evaluation that built a progress it refuses would raise inside the tick *)
(* instead of failing the transition.  These are its cross-field rules     *)
(* (transition.py:340): command, phase, target and evidence always agree.  *)
CommandOK ==
  /\ phase = "WAIT_CURRENT_ACK" =>
       \E b \in StopOwner(roles, owners) : expected = StopOf(b)
  /\ phase = "ARM_DESTINATION" /\ expected # NoCommand =>
       expected = HoldSolax /\ Destination = {"DEYE"}
  /\ phase \in TargetWait /\ Drives =>
       \E b \in Destination : expected = TargetFor(b, effective)
  /\ phase \notin TargetWait \cup {"WAIT_CURRENT_ACK", "ARM_DESTINATION"} =>
       expected = NoCommand

EvidenceOK ==
  /\ neutralSince # Unset =>
       /\ \A b \in Batteries : sampled[b] # Unset
       /\ neutralSince <= Latest(sampled)
  /\ Breaks /\ Beyond("WAIT_NEUTRAL") => neutralSince # Unset
  /\ Drives /\ Beyond("VERIFY_PCC") => pccUntil # Unset
  /\ Drives /\ Beyond("WAIT_DESTINATION_READY") => readyUntil # Unset

ProgressOK ==
  /\ entered < PhaseDeadline
  /\ CommandOK
  /\ EvidenceOK

(* However readings, deferrals and clamps interleave, a target that is     *)
(* commanded never exceeds the headroom of the last PCC reading the live   *)
(* transition evaluated: a lower reading ends it (transition.py:1028).      *)
WithinHeadroom ==
  status = "active" /\ expected.kind = "APPLY_TARGET" =>
    expected.target <= headroom

(* DEYE is driven only while SolaX is held by an acknowledged hold command *)
(* and both are owned, and no two batteries are driven at once, so neither *)
(* can feed the other (invariants.py:42).                                  *)
NeverFeedsTheOther ==
  expected.kind = "APPLY_TARGET" =>
    /\ expected.battery \in owners
    /\ \A b \in DrivenBy(roles) : b = expected.battery
    /\ expected.battery = "DEYE" => roles["SOLAX"] = "HOLD" /\ owners = Batteries

(* The owners are released only after a continuous neutral dwell: however  *)
(* the samples of the two sources interleave, no sample taken after the    *)
(* one that opened the retained proof was non-neutral, and the proof spans *)
(* the dwell (transition.py:1162).                                         *)
DwellProven ==
  Breaks /\ Beyond("WAIT_NEUTRAL") =>
    /\ disturbed <= neutralSince
    /\ Latest(sampled) - neutralSince >= Dwell

(* The battery that was driven is not given up before the stop of that      *)
(* battery is acknowledged, and no source is released without a stop: the  *)
(* one that may go unstopped is a hold beside another writer (_stop_owner, *)
(* transition.py:627).  No plan starts from two driven batteries           *)
(* (invariants.py:42).                                                     *)
DrivenIsStopped ==
  Breaks /\ Beyond("WAIT_NEUTRAL") =>
    /\ WritersOf(source) \cap stopped # {}
    /\ DrivenBy(source) # Batteries => DrivenBy(source) \subseteq stopped

(* "Pure break-before-make transition planning and evidence-driven         *)
(* advancement." (transition.py:1): every battery that was written has     *)
(* acknowledged a stop before the owners are released.  Expected to be     *)
(* VIOLATED from two writers: one is stopped, both are released            *)
(* (transition.py:1313).                                                   *)
BreakBeforeMake ==
  Breaks /\ Beyond("WAIT_NEUTRAL") => WritersOf(source) \subseteq stopped

(* The refinement: owners are the writers, a driven battery is one with an *)
(* active role or a target command.                                        *)
Promise == INSTANCE HandOver WITH
  writers <- owners,
  driven <- DrivenBy(roles) \cup
            (IF expected.kind = "APPLY_TARGET" THEN {expected.battery} ELSE {}),
  released <- ~Breaks \/ Beyond("WAIT_NEUTRAL")

(* Every transition hands its writers over as HandOver prescribes.         *)
HandsOver == Promise!Spec

(* No transition outlives its intent: the clock and the evaluation timer   *)
(* alone end every one of them by its deadline, in whatever phase it is.   *)
AlwaysEnds == <>(status # "active")
=============================================================================
