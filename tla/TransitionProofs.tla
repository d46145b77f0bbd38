--------------------------- MODULE TransitionProofs ---------------------------
(***************************************************************************)
(* Proofs about Transition for every plan, timeout and age limit.          *)
(***************************************************************************)
EXTENDS Transition, TLAPS

(* Which phases a plan has, and who owns what in each of them.              *)
PlanOK ==
  /\ phase \in {"STOP_CURRENT_OWNER", "WAIT_CURRENT_ACK", "WAIT_NEUTRAL"} =>
       Breaks
  /\ Beyond("WAIT_NEUTRAL") /\ phase # "COMPLETE" => Drives

OwnersOK ==
  /\ ~Beyond("WAIT_NEUTRAL") => roles = source /\ owners = WritersOf(source)
  /\ phase \in {"VERIFY_PCC", "ARM_DESTINATION"} =>
       owners = {} /\ roles = IF Breaks THEN Native ELSE source
  /\ phase \in Continuation /\ Destination = {"SOLAX"} =>
       /\ owners = {"SOLAX"}
       /\ roles = IF phase = "COMPLETE" THEN Desired ELSE Native
  /\ phase \in Continuation /\ Destination = {"DEYE"} =>
       /\ owners = Batteries
       /\ roles = IF phase = "COMPLETE" THEN Desired ELSE Vector("HOLD", "OFF")
  /\ phase = "COMPLETE" /\ ~Drives =>
       owners = {} /\ roles = IF Breaks THEN Native ELSE source

PowerOK ==
  status = "active" /\ expected.kind = "APPLY_TARGET" => effective <= headroom

SettleOK ==
  /\ disturbed <= Latest(sampled)
  /\ neutralSince # Unset => disturbed <= neutralSince

TargetPlanned ==
  expected.kind = "APPLY_TARGET" => Drives /\ phase \in TargetWait

-----------------------------------------------------------------------------
(* Facts about role vectors and plans.                                      *)
LEMMA VectorRoles ==
  ASSUME NEW s \in RoleNames, NEW d \in RoleNames
  PROVE  /\ Vector(s, d) \in RoleVectors
         /\ Vector(s, d)["SOLAX"] = s
         /\ Vector(s, d)["DEYE"] = d
BY DEF Vector, RoleVectors, Batteries

LEMMA NamedVectors ==
  /\ Native \in RoleVectors
  /\ Vector("HOLD", "OFF") \in RoleVectors
  /\ DrivenBy(Native) = {} /\ WritersOf(Native) = {}
  /\ DrivenBy(Vector("HOLD", "OFF")) = {}
BY VectorRoles DEF Native, DrivenBy, WritersOf, RoleNames, Writing, Active,
  Batteries

LEMMA DesiredVectors ==
  ASSUME intent \in IntentTypes
  PROVE  Desired \in RoleVectors
BY VectorRoles DEF Desired, DesiredRoles, IntentTypes, Native, RoleNames,
  Writing, Active

(* An intent drives at most one battery.                                    *)
LEMMA OneDestination ==
  ASSUME intent \in IntentTypes
  PROVE  Destination \in {{}, {"SOLAX"}, {"DEYE"}}
BY VectorRoles DEF Destination, DrivenBy, Desired, DesiredRoles, IntentTypes,
  Native, Vector, RoleNames, Writing, Active, Batteries

LEMMA DesiredWriters ==
  ASSUME intent \in IntentTypes
  PROVE  /\ Destination = {"SOLAX"} => WritersOf(Desired) = {"SOLAX"}
         /\ Destination = {"DEYE"} =>
              WritersOf(Desired) = Batteries /\ Desired["SOLAX"] = "HOLD"
BY VectorRoles DEF Destination, DrivenBy, WritersOf, Desired, DesiredRoles,
  IntentTypes, Native, Vector, RoleNames, Writing, Active, Batteries

LEMMA StopOwners ==
  ASSUME NEW r, NEW w \in SUBSET Batteries
  PROVE  StopOwner(r, w) \subseteq Batteries
BY DEF StopOwner, DrivenBy, Batteries

LEMMA CommandTypes ==
  /\ NoCommand \in Commands
  /\ HoldSolax \in Commands
  /\ \A b \in Batteries : StopOf(b) \in Commands
BY PlanAssumption DEF NoCommand, HoldSolax, StopOf, Cmd, Commands, Batteries,
  RoleNames, Writing, Active

LEMMA LimitsInRange == Limits \subseteq 0..Target
BY PlanAssumption DEF Limits

LEMMA TargetCommands ==
  ASSUME intent \in IntentTypes, NEW b \in Destination, NEW e \in Limits
  PROVE  TargetFor(b, e) \in Commands
<1>1. b \in Batteries
  BY DEF Destination, DrivenBy
<1>2. Desired[b] \in RoleNames
  BY <1>1, DesiredVectors DEF RoleVectors
<1>3. e \in 0..Target
  BY LimitsInRange
<1>. QED BY <1>1, <1>2, <1>3 DEF TargetFor, Cmd, Commands

-----------------------------------------------------------------------------
(* Every field of the progress keeps its type, whatever is evaluated when.  *)
THEOREM TypeCorrect == Spec => []TypeOK
<1>1. Init => TypeOK
  BY PlanAssumption, VectorRoles, CommandTypes DEF Init, TypeOK, Times,
    Stamps, Phases, WritersOf, CommandStates, Batteries,
    RoleNames, Writing, Active, Unset
<1>2. TypeOK /\ [Next]_vars => TypeOK'
  <2> SUFFICES ASSUME TypeOK, [Next]_vars PROVE TypeOK'
    OBVIOUS
  <2> USE PlanAssumption, ConfigAssumption DEF planVars, phaseVars, ownVars,
    proofVars, settleVars, cmdVars, powerVars, TypeOK, Limits, Drives,
    Destination, Desired
  <2>1. CASE UNCHANGED vars
    BY <2>1 DEF vars
  <2>2. CASE Tick
    BY <2>2 DEF Tick, Times, Stamps
  <2>3. CASE Respond
    BY <2>3 DEF Respond, LaterStates, CommandStates, Ended
  <2>4. CASE Expire
    BY <2>4 DEF Expire, Fail, Failures
  <2>5. CASE Overrun
    BY <2>5 DEF Overrun, Fail, Failures
  <2>6. CASE Disable
    BY <2>6 DEF Disable, Fail, Failures
  <2>7. CASE LosePcc
    BY <2>7 DEF LosePcc, Fail, Failures
  <2>8. ASSUME NEW p \in Readings, Freeze(p) PROVE TypeOK'
    BY <2>8 DEF Freeze, AfterFreeze, AfterBreak, Enter, Times, Phases, Take,
      Evaluated, Lesser, Readings
  <2>9. ASSUME NEW p \in Readings, StopCurrentOwner(p) PROVE TypeOK'
    BY <2>9, CommandTypes, StopOwners DEF StopCurrentOwner, Propose,
      CommandStates, Enter, Times, Phases, Take, Evaluated, Lesser, Readings
  <2>10. ASSUME NEW p \in Readings, AcknowledgeStop(p) PROVE TypeOK'
    BY <2>10, CommandTypes DEF AcknowledgeStop, Commands, CommandStates,
      Enter, Times, Phases, Take, Evaluated, Lesser, Readings
  <2>11. ASSUME NEW p \in Readings, VerifyPcc(p) PROVE TypeOK'
    BY <2>11 DEF VerifyPcc, Enter, Times, Phases, Take, Evaluated, Lesser,
      Readings
  <2>12. ASSUME NEW p \in Readings, ArmSolax(p) PROVE TypeOK'
    BY <2>12, NamedVectors DEF ArmSolax, Batteries, Enter, Times, Phases, Take,
      Evaluated, Lesser, Readings
  <2>13. ASSUME NEW p \in Readings, ProposeHold(p) PROVE TypeOK'
    BY <2>13, CommandTypes DEF ProposeHold, Propose, CommandStates, Take,
      Evaluated, Lesser, Readings
  <2>14. ASSUME NEW p \in Readings, ArmDeye(p) PROVE TypeOK'
    <3>1. /\ roles' \in RoleVectors
          /\ owners' \subseteq Batteries
          /\ expected' \in Commands /\ command' \in CommandStates
      BY <2>14, CommandTypes, NamedVectors DEF ArmDeye, CommandStates
    <3>2. effective' \in Limits' /\ headroom' \in Limits'
      BY <2>14 DEF ArmDeye, Take, Evaluated, Lesser, Readings
    <3> QED
      BY <2>14, <3>1, <3>2 DEF ArmDeye, Enter, Times, Phases
  <2>15. ASSUME NEW p \in Readings, NEW until \in now + 1 .. now + ReadyMaxAge,
               DestinationReady(p, until)
        PROVE TypeOK'
    BY <2>15 DEF DestinationReady, Enter, Times, Phases, Take, Evaluated,
      Lesser, Readings
  <2>16. ASSUME NEW p \in Readings, IssueTarget(p) PROVE TypeOK'
    BY <2>16, TargetCommands DEF IssueTarget, Propose, CommandStates, Enter,
      Times, Phases, Take, Evaluated, Lesser, Readings
  <2>17. ASSUME NEW p \in Readings, ConfirmTarget(p) PROVE TypeOK'
    BY <2>17 DEF ConfirmTarget, Enter, Times, Phases, Take, Evaluated,
      Lesser, Readings
  <2>18. ASSUME NEW p \in Readings, ConfirmResponse(p) PROVE TypeOK'
    BY <2>18 DEF ConfirmResponse, Enter, Times, Phases, Take, Evaluated,
      Lesser, Readings
  <2>19. ASSUME NEW p \in Readings, ConfirmStable(p) PROVE TypeOK'
    BY <2>19, DesiredVectors DEF ConfirmStable, WritersOf, Enter, Times,
      Phases, Take, Evaluated, Lesser, Readings
  <2>20. ASSUME NEW p \in Readings, NEW at \in Samples, Release(p, at)
        PROVE TypeOK'
    BY <2>20, NamedVectors DEF Release, Observe, Sample, Samples, Latest,
      Stamps, Batteries, AfterBreak, Enter, Times, Phases, Take, Evaluated,
      Lesser, Readings
  <2>21. ASSUME NEW p \in Readings,
               NEW at \in Samples, NEW neutral \in BOOLEAN,
               Settle(p, at, neutral)
        PROVE TypeOK'
    BY <2>21 DEF Settle, Observe, Sample, Samples, Latest, Stamps, Times,
      Batteries, Take, Evaluated, Lesser, Readings
  <2>22. ASSUME NEW p \in Readings,
               NEW at \in Samples, NEW neutral \in BOOLEAN,
               ObjectToFlow(p, at, neutral)
        PROVE TypeOK'
    BY <2>22 DEF ObjectToFlow, Fail, Failures, Observe, Sample, Samples,
      Latest, Stamps, Times, Batteries, Take, Evaluated, Lesser, Readings
  <2>23. ASSUME NEW p \in Readings, ExceedHeadroom(p) PROVE TypeOK'
    BY <2>23 DEF ExceedHeadroom, Fail, Failures, Readings
  <2>24. ASSUME NEW p \in Readings, Defer(p) PROVE TypeOK'
    BY <2>24 DEF Defer, Readings
  <2>25. ASSUME NEW p \in Readings, Conflict(p) PROVE TypeOK'
    BY <2>25 DEF Conflict, Fail, Take, Evaluated, Lesser, Readings
  <2>26. ASSUME NEW p \in Readings, LoseCommand(p) PROVE TypeOK'
    BY <2>26 DEF LoseCommand, Fail, Failures, Take, Evaluated, Lesser,
      Readings
  <2>27. ASSUME NEW p \in Readings, Wait(p) PROVE TypeOK'
    BY <2>27 DEF Wait, Take, Evaluated, Lesser, Readings
  <2>28. ASSUME NEW p \in Readings, NEW action \in Failures \cup {"DEFER"},
               Object(p, action)
        PROVE TypeOK'
    BY <2>28 DEF Object, Fail, Failures, Readings
  <2> QED
    BY <2>1, <2>2, <2>3, <2>4, <2>5, <2>6, <2>7, <2>8, <2>9, <2>10, <2>11,
      <2>12, <2>13, <2>14, <2>15, <2>16, <2>17, <2>18, <2>19, <2>20, <2>21,
      <2>22, <2>23, <2>24, <2>25, <2>26, <2>27, <2>28 DEF Next, Evaluate,
      GiveUp, Advance, Watch, Judge
<1>. QED BY <1>1, <1>2, PTL DEF Spec
-----------------------------------------------------------------------------
(* Most steps leave the plan, the phase and the owners alone.               *)
Quiet == UNCHANGED <<planVars, phaseVars, ownVars>>

Moves(p) ==
  \/ Freeze(p) \/ StopCurrentOwner(p) \/ AcknowledgeStop(p)
  \/ VerifyPcc(p) \/ ArmSolax(p) \/ ArmDeye(p)
  \/ \E until \in now + 1 .. now + ReadyMaxAge : DestinationReady(p, until)
  \/ IssueTarget(p) \/ ConfirmTarget(p) \/ ConfirmResponse(p)
  \/ ConfirmStable(p)
  \/ \E at \in Samples : Release(p, at)

LEMMA QuietOrMoves ==
  ASSUME [Next]_vars
  PROVE  Quiet \/ \E p \in Readings : Moves(p)
<1> USE DEF Quiet, planVars, phaseVars, ownVars
<1>1. CASE UNCHANGED vars
  BY <1>1 DEF vars
<1>2. CASE Tick \/ Respond
  BY <1>2 DEF Tick, Respond
<1>3. CASE GiveUp
  BY <1>3 DEF GiveUp, Expire, Overrun, Disable, LosePcc, Fail
<1>4. ASSUME NEW p \in Readings, Judge(p) PROVE Quiet
  BY <1>4 DEF Judge, ExceedHeadroom, Defer, Conflict, LoseCommand, Wait,
    Object, Fail
<1>5. ASSUME NEW p \in Readings, Watch(p) PROVE Quiet \/ Moves(p)
  BY <1>5 DEF Watch, Moves, Settle, ObjectToFlow, Fail
<1>6. ASSUME NEW p \in Readings, Advance(p) PROVE Quiet \/ Moves(p)
  BY <1>6 DEF Advance, Moves, ProposeHold
<1>. QED
  BY <1>1, <1>2, <1>3, <1>4, <1>5, <1>6 DEF Next, Evaluate

(* Who owns what follows from the phase.                                    *)
THEOREM OwnershipCorrect == Spec => [](PlanOK /\ OwnersOK)
<1>1. Init => PlanOK /\ OwnersOK
  BY DEF Init, PlanOK, OwnersOK, Beyond, Position, Continuation
<1>2. TypeOK /\ PlanOK /\ OwnersOK /\ [Next]_vars => (PlanOK /\ OwnersOK)'
  <2> SUFFICES ASSUME TypeOK, PlanOK, OwnersOK, [Next]_vars
               PROVE  PlanOK' /\ OwnersOK'
    OBVIOUS
  <2> USE DEF planVars, phaseVars, ownVars, PlanOK, OwnersOK, Breaks, Drives,
    Destination, Desired, Beyond, Position, Continuation
  <2>0. intent \in IntentTypes
    BY PlanAssumption DEF TypeOK
  <2>1. CASE Quiet
    BY <2>1 DEF Quiet
  <2>2. ASSUME NEW p \in Readings, Freeze(p) PROVE PlanOK' /\ OwnersOK'
    BY <2>2 DEF Freeze, AfterFreeze, AfterBreak, Enter
  <2>3. ASSUME NEW p \in Readings, StopCurrentOwner(p)
        PROVE  PlanOK' /\ OwnersOK'
    BY <2>3 DEF StopCurrentOwner, Enter
  <2>4. ASSUME NEW p \in Readings, AcknowledgeStop(p)
        PROVE  PlanOK' /\ OwnersOK'
    BY <2>4 DEF AcknowledgeStop, Enter
  <2>5. ASSUME NEW p \in Readings, VerifyPcc(p) PROVE PlanOK' /\ OwnersOK'
    BY <2>5 DEF VerifyPcc, Enter
  <2>6. ASSUME NEW p \in Readings, ArmSolax(p) PROVE PlanOK' /\ OwnersOK'
    BY <2>6 DEF ArmSolax, Enter
  <2>7. ASSUME NEW p \in Readings, ArmDeye(p) PROVE PlanOK' /\ OwnersOK'
    BY <2>7 DEF ArmDeye, Enter
  <2>8. ASSUME NEW p \in Readings, NEW until \in now + 1 .. now + ReadyMaxAge,
               DestinationReady(p, until)
        PROVE  PlanOK' /\ OwnersOK'
    BY <2>8 DEF DestinationReady, Enter
  <2>9. ASSUME NEW p \in Readings, IssueTarget(p) PROVE PlanOK' /\ OwnersOK'
    BY <2>9 DEF IssueTarget, Enter
  <2>10. ASSUME NEW p \in Readings, ConfirmTarget(p)
         PROVE  PlanOK' /\ OwnersOK'
    BY <2>10 DEF ConfirmTarget, Enter
  <2>11. ASSUME NEW p \in Readings, ConfirmResponse(p)
         PROVE  PlanOK' /\ OwnersOK'
    BY <2>11 DEF ConfirmResponse, Enter
  <2>12. ASSUME NEW p \in Readings, ConfirmStable(p)
         PROVE  PlanOK' /\ OwnersOK'
    BY <2>12, <2>0, OneDestination, DesiredWriters DEF ConfirmStable, Enter
  <2>13. ASSUME NEW p \in Readings, NEW at \in Samples, Release(p, at)
         PROVE  PlanOK' /\ OwnersOK'
    BY <2>13 DEF Release, AfterBreak, Enter
  <2> QED
    BY <2>1, <2>2, <2>3, <2>4, <2>5, <2>6, <2>7, <2>8, <2>9, <2>10, <2>11,
      <2>12, <2>13, QuietOrMoves DEF Moves
<1>. QED BY <1>1, <1>2, TypeCorrect, PTL DEF Spec
-----------------------------------------------------------------------------
LEMMA CommandKinds ==
  /\ NoCommand.kind = "NONE" /\ HoldSolax.kind = "ARM_DESTINATION"
  /\ \A b : StopOf(b).kind = "STOP_CURRENT_OWNER"
  /\ \A b, e : /\ TargetFor(b, e).kind = "APPLY_TARGET"
               /\ TargetFor(b, e).battery = b
               /\ TargetFor(b, e).target = e
<1>1. NoCommand.kind = "NONE" /\ HoldSolax.kind = "ARM_DESTINATION"
  BY DEF NoCommand, HoldSolax, Cmd
<1>2. ASSUME NEW b PROVE StopOf(b).kind = "STOP_CURRENT_OWNER"
  BY DEF StopOf, Cmd
<1>3. ASSUME NEW b, NEW e
      PROVE  /\ TargetFor(b, e).kind = "APPLY_TARGET"
             /\ TargetFor(b, e).battery = b
             /\ TargetFor(b, e).target = e
  BY DEF TargetFor, Cmd
<1>. QED BY <1>1, <1>2, <1>3

LEMMA LimitIntegers ==
  ASSUME TypeOK, NEW p \in Readings
  PROVE  effective \in Int /\ p.limit \in Int /\ effective >= 0
<1>1. effective \in Limits /\ p.limit \in Limits
  BY DEF TypeOK, Readings
<1>2. effective \in 0..Target /\ p.limit \in 0..Target
  BY <1>1, LimitsInRange
<1>. QED BY <1>2, PlanAssumption

(* A command in flight pins the target: a lower reading would not be taken. *)
LEMMA TargetHeld ==
  ASSUME TypeOK, NEW p \in Readings, Take(p), expected # NoCommand
  PROVE  effective' = effective
BY LimitIntegers DEF Take, Lowered, Evaluated, Lesser

KeepsCommand ==
  /\ Quiet
  /\ expected' = expected
  /\ effective' = effective \/ expected = NoCommand

LEMMA CommandSteps ==
  ASSUME TypeOK, [Next]_vars
  PROVE  \/ KeepsCommand
         \/ \E p \in Readings : ProposeHold(p) \/ Moves(p)
<1> USE DEF KeepsCommand, Quiet, planVars, phaseVars, ownVars, cmdVars,
  powerVars
<1>1. CASE UNCHANGED vars
  BY <1>1 DEF vars
<1>2. CASE Tick \/ Respond
  BY <1>2 DEF Tick, Respond
<1>3. CASE GiveUp
  BY <1>3 DEF GiveUp, Expire, Overrun, Disable, LosePcc, Fail
<1>4. ASSUME NEW p \in Readings, Judge(p) PROVE KeepsCommand
  BY <1>4, TargetHeld DEF Judge, ExceedHeadroom, Defer, Conflict, LoseCommand,
    Wait, Object, Fail
<1>5. ASSUME NEW p \in Readings, Watch(p) PROVE KeepsCommand \/ Moves(p)
  BY <1>5, TargetHeld DEF Watch, Moves, Settle, ObjectToFlow, Fail
<1>6. ASSUME NEW p \in Readings, Advance(p) PROVE ProposeHold(p) \/ Moves(p)
  BY <1>6 DEF Advance, Moves
<1>. QED
  BY <1>1, <1>2, <1>3, <1>4, <1>5, <1>6 DEF Next, Evaluate

(* The expected command is always the one its phase awaits, addressed to   *)
(* the owner or the destination, and a target command carries the bounded   *)
(* target of the progress.                                                  *)
THEOREM CommandCorrect == Spec => []CommandOK
<1>1. Init => CommandOK
  BY DEF Init, CommandOK, TargetWait
<1>2. TypeOK /\ PlanOK /\ OwnersOK /\ CommandOK /\ [Next]_vars => CommandOK'
  <2> SUFFICES ASSUME TypeOK, PlanOK, OwnersOK, CommandOK, [Next]_vars
               PROVE  CommandOK'
    OBVIOUS
  <2> USE DEF planVars, phaseVars, ownVars, cmdVars, CommandOK, TargetWait,
    Drives, Destination, Desired, TargetFor
  <2>1. CASE KeepsCommand
    <3>1. expected = NoCommand => ~(phase \in TargetWait /\ Drives)
      BY CommandKinds DEF TargetFor
    <3> QED
      BY <2>1, <3>1 DEF KeepsCommand, Quiet
  <2>2. ASSUME NEW p \in Readings, ProposeHold(p) PROVE CommandOK'
    BY <2>2 DEF ProposeHold, Propose
  <2>3. ASSUME NEW p \in Readings, Freeze(p) PROVE CommandOK'
    BY <2>3 DEF Freeze, AfterFreeze, AfterBreak, Enter
  <2>4. ASSUME NEW p \in Readings, StopCurrentOwner(p) PROVE CommandOK'
    BY <2>4 DEF StopCurrentOwner, Enter, Propose
  <2>5. ASSUME NEW p \in Readings, AcknowledgeStop(p) PROVE CommandOK'
    BY <2>5 DEF AcknowledgeStop, Enter
  <2>6. ASSUME NEW p \in Readings, VerifyPcc(p) PROVE CommandOK'
    BY <2>6 DEF VerifyPcc, Enter
  <2>7. ASSUME NEW p \in Readings, ArmSolax(p) PROVE CommandOK'
    BY <2>7 DEF ArmSolax, Enter
  <2>8. ASSUME NEW p \in Readings, ArmDeye(p) PROVE CommandOK'
    BY <2>8 DEF ArmDeye, Enter
  <2>9. ASSUME NEW p \in Readings, NEW until \in now + 1 .. now + ReadyMaxAge,
               DestinationReady(p, until)
        PROVE  CommandOK'
    BY <2>9 DEF DestinationReady, Enter
  <2>10. ASSUME NEW p \in Readings, IssueTarget(p) PROVE CommandOK'
    BY <2>10 DEF IssueTarget, Enter, Propose
  <2>11. ASSUME NEW p \in Readings,
                ConfirmTarget(p) \/ ConfirmResponse(p) \/ ConfirmStable(p)
         PROVE  CommandOK'
    <3>1. phase \in {"WAIT_TARGET_ACK", "WAIT_PHYSICAL_RESPONSE", "WAIT_STABLE"}
          /\ phase' \in TargetWait
      BY <2>11 DEF ConfirmTarget, ConfirmResponse, ConfirmStable, Enter
    <3>2. Drives
      BY <3>1 DEF PlanOK, Beyond, Position
    <3>3. expected # NoCommand
      BY <3>1, <3>2, CommandKinds DEF TargetFor
    <3>4. effective' = effective
      BY <2>11, <3>3, TargetHeld DEF ConfirmTarget, ConfirmResponse,
        ConfirmStable
    <3> QED
      BY <2>11, <3>1, <3>2, <3>4 DEF ConfirmTarget, ConfirmResponse,
        ConfirmStable
  <2>12. ASSUME NEW p \in Readings, NEW at \in Samples, Release(p, at)
         PROVE  CommandOK'
    BY <2>12 DEF Release, AfterBreak, Enter
  <2> QED
    BY <2>1, <2>2, <2>3, <2>4, <2>5, <2>6, <2>7, <2>8, <2>9, <2>10, <2>11,
      <2>12, CommandSteps DEF Moves
<1>. QED BY <1>1, <1>2, TypeCorrect, OwnershipCorrect, PTL DEF Spec
-----------------------------------------------------------------------------
(* What the samples of WAIT_NEUTRAL establish, whatever their order.        *)
Sampled ==
  /\ neutralSince # Unset =>
       /\ \A b \in Batteries : sampled[b] # Unset
       /\ neutralSince <= Latest(sampled)
  /\ SettleOK

LEMMA LatestStamp ==
  ASSUME NEW at \in [Batteries -> Stamps]
  PROVE  Latest(at) \in Stamps
BY DEF Latest, Batteries

LEMMA SamplesType ==
  ASSUME TypeOK, NEW at \in Samples
  PROVE  /\ at \in [Batteries -> Times]
         /\ at \in [Batteries -> Stamps]
         /\ Latest(at) \in Times
         /\ Latest(sampled) <= Latest(at)
<1>1. at \in [Batteries -> Times] /\ sampled \in [Batteries -> Stamps]
  BY DEF TypeOK, Samples
<1>2. \A b \in Batteries : at[b] >= sampled[b]
  BY DEF Samples
<1>3. Times \subseteq Int /\ Stamps \subseteq Int /\ Times \subseteq Stamps
  BY PlanAssumption DEF Times, Stamps, Unset
<1>4. /\ at["SOLAX"] \in Times /\ at["DEYE"] \in Times
      /\ sampled["SOLAX"] \in Stamps /\ sampled["DEYE"] \in Stamps
      /\ at["SOLAX"] >= sampled["SOLAX"] /\ at["DEYE"] >= sampled["DEYE"]
  BY <1>1, <1>2 DEF Batteries
<1>5. /\ at["SOLAX"] \in Int /\ at["DEYE"] \in Int
      /\ sampled["SOLAX"] \in Int /\ sampled["DEYE"] \in Int
  BY <1>3, <1>4
<1>6. Latest(at) \in Times
  BY <1>4 DEF Latest
<1>7. Latest(sampled) <= Latest(at)
  BY <1>4, <1>5 DEF Latest
<1>. QED BY <1>1, <1>3, <1>6, <1>7

LEMMA Observed ==
  ASSUME TypeOK, Sampled, NEW at \in Samples, NEW neutral \in BOOLEAN,
         Observe(at, neutral)
  PROVE  Sampled'
<1>1. /\ at \in [Batteries -> Times] /\ Latest(at) \in Times
      /\ Latest(sampled) <= Latest(at)
  BY SamplesType
<1>2. Latest(sampled)' = Latest(at)
  BY DEF Observe, Sample, Latest
<1>3. /\ Latest(at) \in Int /\ Latest(sampled) \in Int
      /\ disturbed \in Int /\ neutralSince \in Int
  BY <1>1, LatestStamp, PlanAssumption DEF TypeOK, Times, Stamps, Unset
<1>4. \A b \in Batteries : sampled'[b] # Unset
  BY <1>1 DEF Observe, Sample, Unset, Times
<1>5. CASE neutral
  BY <1>1, <1>2, <1>3, <1>4, <1>5 DEF Sampled, SettleOK, Observe, Sample
<1>6. CASE ~neutral
  <2>1. neutralSince' = Unset /\ disturbed' = Latest(at)
    BY <1>6 DEF Observe, Sample
  <2> QED
    BY <1>1, <1>2, <1>3, <2>1 DEF Sampled, SettleOK
<1>. QED BY <1>5, <1>6

(* A step samples in WAIT_NEUTRAL, moves to another phase, or neither.      *)
Unsampled == UNCHANGED <<planVars, phaseVars, settleVars, proofVars>>

TakesSample ==
  /\ phase = "WAIT_NEUTRAL"
  /\ \E at \in Samples, neutral \in BOOLEAN : Observe(at, neutral)
  /\ UNCHANGED <<planVars, phaseVars, proofVars>>

LEMMA SettleSteps ==
  ASSUME [Next]_vars
  PROVE  Unsampled \/ TakesSample \/ \E p \in Readings : Moves(p)
<1> USE DEF Unsampled, planVars, phaseVars, settleVars, proofVars
<1>1. CASE UNCHANGED vars
  BY <1>1 DEF vars
<1>2. CASE Tick \/ Respond
  BY <1>2 DEF Tick, Respond
<1>3. CASE GiveUp
  BY <1>3 DEF GiveUp, Expire, Overrun, Disable, LosePcc, Fail
<1>4. ASSUME NEW p \in Readings, Judge(p) PROVE Unsampled
  BY <1>4 DEF Judge, ExceedHeadroom, Defer, Conflict, LoseCommand, Wait,
    Object, Fail
<1>5. ASSUME NEW p \in Readings, Watch(p) PROVE TakesSample \/ Moves(p)
  BY <1>5 DEF Watch, Moves, TakesSample, Settle, ObjectToFlow, Fail
<1>6. ASSUME NEW p \in Readings, Advance(p) PROVE Unsampled \/ Moves(p)
  BY <1>6 DEF Advance, Moves, ProposeHold
<1>. QED
  BY <1>1, <1>2, <1>3, <1>4, <1>5, <1>6 DEF Next, Evaluate

(* Evidence that an earlier phase collected is there in every later one,    *)
(* and no progress is built at or after its deadline.                       *)
Settling ==
  /\ Sampled
  /\ DwellProven
  /\ EvidenceOK
  /\ entered < PhaseDeadline

THEOREM SettlingCorrect == Spec => []Settling
<1>1. Init => Settling
  BY PlanAssumption, ConfigAssumption DEF Init, Settling, Sampled, SettleOK,
    DwellProven, EvidenceOK, Beyond, Position, Continuation, PhaseDeadline,
    Lesser, Latest, Unset, Batteries
<1>2. TypeOK /\ PlanOK /\ Settling /\ [Next]_vars => Settling'
  <2> SUFFICES ASSUME TypeOK, PlanOK, Settling, [Next]_vars PROVE Settling'
    OBVIOUS
  <2> USE DEF planVars, phaseVars, settleVars, proofVars, Settling
  <2>1. CASE Unsampled
    BY <2>1 DEF Unsampled, Sampled, SettleOK, DwellProven, EvidenceOK, Beyond,
      Breaks, Drives, Destination, Desired, PhaseDeadline, Latest
  <2>2. CASE TakesSample
    <3>1. Sampled'
      BY <2>2, Observed DEF TakesSample
    <3>2. ~Beyond("WAIT_NEUTRAL") /\ ~Beyond("VERIFY_PCC")
          /\ ~Beyond("WAIT_DESTINATION_READY")
      BY <2>2 DEF TakesSample, Beyond, Position
    <3>3. DwellProven' /\ EvidenceOK'
      BY <2>2, <3>1, <3>2 DEF TakesSample, DwellProven, EvidenceOK, Sampled,
        Beyond
    <3> QED
      BY <2>2, <3>1, <3>3 DEF TakesSample, PhaseDeadline
  <2>3. ASSUME NEW p \in Readings, Moves(p) PROVE (entered < PhaseDeadline)'
    <3>1. Due /\ entered' = now
      BY <2>3 DEF Moves, Take, Heard, Freeze, StopCurrentOwner, VerifyPcc,
        AcknowledgeStop, ArmSolax, ArmDeye, DestinationReady, IssueTarget,
        ConfirmTarget, ConfirmResponse, ConfirmStable, Release, Enter
    <3>2. now \in Int /\ now < Deadline
      BY <3>1, PlanAssumption DEF Due, TypeOK, Times
    <3> QED
      BY <3>1, <3>2, PlanAssumption, ConfigAssumption DEF PhaseDeadline, Lesser
  <2>4. ASSUME NEW p \in Readings, NEW at \in Samples, Release(p, at)
        PROVE  Sampled' /\ DwellProven' /\ EvidenceOK'
    <3>1. Sampled'
      BY <2>4, Observed DEF Release
    <3>2. phase' \in {"VERIFY_PCC", "COMPLETE"} /\ (phase' = "COMPLETE" => ~Drives)
      BY <2>4 DEF Release, AfterBreak, Enter
    <3>3. UNCHANGED planVars
      BY <2>4 DEF Release
    <3>4. Latest(sampled)' = Latest(at)
      BY <2>4 DEF Release, Observe, Sample, Latest
    <3>5. neutralSince' # Unset /\ Latest(at) - neutralSince' >= Dwell
      BY <2>4 DEF Release, Settled
    <3>6. DwellProven'
      BY <3>1, <3>4, <3>5 DEF DwellProven, Sampled, SettleOK
    <3>7. EvidenceOK'
      BY <3>1, <3>2, <3>3, <3>5 DEF EvidenceOK, Sampled, Beyond, Position,
        Drives, Destination, Desired
    <3> QED BY <3>1, <3>6, <3>7
  <2>5. ASSUME NEW p \in Readings, Moves(p),
               ~\E at \in Samples : Release(p, at)
        PROVE  Sampled' /\ DwellProven' /\ EvidenceOK'
    <3>1. UNCHANGED <<planVars, settleVars>>
      BY <2>5 DEF Moves, Freeze, StopCurrentOwner, VerifyPcc, AcknowledgeStop,
        ArmSolax, ArmDeye, DestinationReady, IssueTarget, ConfirmTarget,
        ConfirmResponse, ConfirmStable
    <3>2. Sampled'
      BY <3>1 DEF Sampled, SettleOK, Latest
    <3>3. Breaks /\ Beyond("WAIT_NEUTRAL")' => Beyond("WAIT_NEUTRAL")
      BY <2>5 DEF Moves, Freeze, StopCurrentOwner, VerifyPcc, AcknowledgeStop,
        ArmSolax, ArmDeye, DestinationReady, IssueTarget, ConfirmTarget,
        ConfirmResponse, ConfirmStable, Enter, AfterFreeze, Beyond, Position
    <3>4. DwellProven'
      BY <3>1, <3>3 DEF DwellProven, Breaks, Latest
    <3>5. Drives /\ Beyond("VERIFY_PCC")' => pccUntil' # Unset
      <4>1. CASE VerifyPcc(p)
        <5>1. p.at \in Nat
          BY PlanAssumption DEF Readings, Times
        <5> QED
          BY <4>1, <5>1, ConfigAssumption DEF VerifyPcc, Unset
      <4>2. CASE ~VerifyPcc(p)
        BY <2>5, <4>2 DEF EvidenceOK, Moves, Freeze, StopCurrentOwner,
          AcknowledgeStop, ArmSolax, ArmDeye, DestinationReady, IssueTarget,
          ConfirmTarget, ConfirmResponse, ConfirmStable, Enter, AfterFreeze,
          AfterBreak, Beyond, Position
      <4> QED BY <4>1, <4>2
    <3>6. Drives /\ Beyond("WAIT_DESTINATION_READY")' => readyUntil' # Unset
      <4>1. CASE \E until \in now + 1 .. now + ReadyMaxAge :
                   DestinationReady(p, until)
        <5>1. now \in Nat
          BY PlanAssumption DEF TypeOK, Times
        <5> QED
          BY <4>1, <5>1, ConfigAssumption DEF DestinationReady, Unset
      <4>2. CASE ~\E until \in now + 1 .. now + ReadyMaxAge :
                    DestinationReady(p, until)
        BY <2>5, <4>2 DEF EvidenceOK, Moves, Freeze, StopCurrentOwner,
          AcknowledgeStop, VerifyPcc, ArmSolax, ArmDeye, IssueTarget,
          ConfirmTarget, ConfirmResponse, ConfirmStable, Enter, AfterFreeze,
          AfterBreak, Beyond, Position
      <4> QED BY <4>1, <4>2
    <3> QED
      BY <3>1, <3>2, <3>3, <3>4, <3>5, <3>6 DEF EvidenceOK, Sampled, Breaks,
        Drives, Destination, Desired
  <2> QED
    BY <2>1, <2>2, <2>3, <2>4, <2>5, SettleSteps
<1>. QED BY <1>1, <1>2, TypeCorrect, OwnershipCorrect, PTL DEF Spec

(* Every evaluation, whatever the order of its evidence, builds a progress  *)
(* that TransitionProgress accepts.                                         *)
THEOREM ProgressCorrect == Spec => []ProgressOK
<1>1. Settling /\ CommandOK => ProgressOK
  BY DEF Settling, ProgressOK
<1>. QED BY <1>1, SettlingCorrect, CommandCorrect, PTL

(* The owners are released only after a continuous neutral dwell.           *)
THEOREM DwellCorrect == Spec => []DwellProven
<1>1. Settling => DwellProven
  BY DEF Settling
<1>. QED BY <1>1, SettlingCorrect, PTL
-----------------------------------------------------------------------------
LEMMA TargetPlannedStep ==
  ASSUME TypeOK, PlanOK, CommandOK, TargetPlanned, [Next]_vars
  PROVE  TargetPlanned'
<1> USE DEF planVars, phaseVars, ownVars, cmdVars, TargetPlanned, Drives,
      Destination, Desired
<1>1. CASE KeepsCommand
  BY <1>1 DEF KeepsCommand, Quiet
<1>2. ASSUME NEW p \in Readings, ProposeHold(p) PROVE TargetPlanned'
  BY <1>2, CommandKinds DEF ProposeHold, Propose
<1>3. ASSUME NEW p \in Readings, StopCurrentOwner(p) PROVE TargetPlanned'
  BY <1>3, CommandKinds DEF StopCurrentOwner, Propose
<1>4. ASSUME NEW p \in Readings, AcknowledgeStop(p) \/ ArmDeye(p)
      PROVE  TargetPlanned'
  BY <1>4, CommandKinds DEF AcknowledgeStop, ArmDeye
<1>5. ASSUME NEW p \in Readings, IssueTarget(p) PROVE TargetPlanned'
  BY <1>5 DEF IssueTarget, Enter, TargetWait
<1>6. ASSUME NEW p \in Readings,
             ConfirmTarget(p) \/ ConfirmResponse(p) \/ ConfirmStable(p)
      PROVE  TargetPlanned'
  BY <1>6 DEF ConfirmTarget, ConfirmResponse, ConfirmStable, Enter, TargetWait
<1>7. ASSUME NEW p \in Readings,
             \/ Freeze(p) \/ VerifyPcc(p) \/ ArmSolax(p)
             \/ \E until \in now + 1 .. now + ReadyMaxAge :
                  DestinationReady(p, until)
             \/ \E at \in Samples : Release(p, at)
      PROVE  TargetPlanned'
  <2>1. phase \notin TargetWait /\ expected' = expected
    BY <1>7 DEF Freeze, VerifyPcc, ArmSolax, DestinationReady, Release,
      TargetWait
  <2> QED BY <2>1
<1>. QED
  BY <1>1, <1>2, <1>3, <1>4, <1>5, <1>6, <1>7, CommandSteps DEF Moves

THEOREM TargetsArePlanned == Spec => []TargetPlanned
<1>1. Init => TargetPlanned
  BY CommandKinds DEF Init, TargetPlanned
<1>2. TypeOK /\ PlanOK /\ CommandOK /\ TargetPlanned /\ [Next]_vars
        => TargetPlanned'
  BY TargetPlannedStep
<1>. QED
  BY <1>1, <1>2, TypeCorrect, OwnershipCorrect, CommandCorrect, PTL DEF Spec

(* A target command belongs to the destination, and is its own target.      *)
LEMMA TargetCommand ==
  ASSUME CommandOK, TargetPlanned, expected.kind = "APPLY_TARGET"
  PROVE  /\ phase \in TargetWait /\ Drives
         /\ expected.battery \in Destination
         /\ expected.target = effective
<1>1. phase \in TargetWait /\ Drives
  BY DEF TargetPlanned
<1>2. PICK b \in Destination : expected = TargetFor(b, effective)
  BY <1>1 DEF CommandOK
<1>. QED BY <1>1, <1>2, CommandKinds

PowerStays == UNCHANGED <<status, expected, powerVars>>

LEMMA PowerSteps ==
  ASSUME [Next]_vars, status' = "active"
  PROVE  PowerStays \/ \E p \in Readings : Take(p) \/ Defer(p)
<1> USE ConfigAssumption DEF PowerStays, cmdVars, powerVars, Failures
<1>1. CASE UNCHANGED vars
  BY <1>1 DEF vars
<1>2. CASE Tick \/ Respond
  BY <1>2 DEF Tick, Respond
<1>3. CASE GiveUp
  BY <1>3 DEF GiveUp, Expire, Overrun, Disable, LosePcc, Fail
<1>4. ASSUME NEW p \in Readings, Judge(p) PROVE Take(p) \/ Defer(p)
  BY <1>4 DEF Judge, ExceedHeadroom, Conflict, LoseCommand, Wait, Object, Fail
<1>5. ASSUME NEW p \in Readings, Watch(p) PROVE Take(p)
  BY <1>5 DEF Watch, Settle, ObjectToFlow, Release
<1>6. ASSUME NEW p \in Readings, Advance(p) PROVE Take(p)
  BY <1>6 DEF Advance, Freeze, StopCurrentOwner, AcknowledgeStop, VerifyPcc,
    ArmSolax, ProposeHold, ArmDeye, DestinationReady, IssueTarget,
    ConfirmTarget, ConfirmResponse, ConfirmStable
<1>. QED
  BY <1>1, <1>2, <1>3, <1>4, <1>5, <1>6 DEF Next, Evaluate

(* A commanded target never exceeds the last PCC headroom evaluated.        *)
THEOREM HeadroomRespected == Spec => []WithinHeadroom
<1>1. Init => PowerOK
  BY CommandKinds DEF Init, PowerOK
<1>2. TypeOK /\ PlanOK /\ OwnersOK /\ CommandOK /\ TargetPlanned /\ PowerOK
        /\ [Next]_vars => PowerOK'
  <2> SUFFICES ASSUME TypeOK, OwnersOK, CommandOK, TargetPlanned, PowerOK,
                      [Next]_vars, status' = "active",
                      expected'.kind = "APPLY_TARGET"
               PROVE  effective' <= headroom'
    BY DEF PowerOK
  <2>1. CASE PowerStays
    BY <2>1 DEF PowerStays, powerVars, PowerOK
  <2>2. ASSUME NEW p \in Readings, Take(p) PROVE effective' <= headroom'
    BY <2>2, LimitIntegers DEF Take, Evaluated, Lesser
  <2>3. ASSUME NEW p \in Readings, Defer(p) PROVE FALSE
    <3>1. expected.kind = "APPLY_TARGET"
      BY <2>3 DEF Defer, cmdVars
    <3>2. phase \in TargetWait /\ Drives
      BY <3>1, TargetCommand
    <3>3. intent \in IntentTypes
      BY PlanAssumption DEF TypeOK
    <3> QED
      BY <2>3, <3>2, <3>3, OneDestination DEF Defer, OwnersOK, Continuation,
        TargetWait, Drives, Batteries
  <2> QED BY <2>1, <2>2, <2>3, PowerSteps
<1>3. CommandOK /\ TargetPlanned /\ PowerOK => WithinHeadroom
  BY TargetCommand DEF PowerOK, WithinHeadroom
<1>. QED
  BY <1>1, <1>2, <1>3, TypeCorrect, OwnershipCorrect, CommandCorrect,
    TargetsArePlanned, PTL DEF Spec

(* DEYE is driven only while SolaX is held, and one battery at a time.      *)
THEOREM NeverFed == Spec => []NeverFeedsTheOther
<1>1. TypeOK /\ OwnersOK /\ CommandOK /\ TargetPlanned => NeverFeedsTheOther
  <2> SUFFICES ASSUME TypeOK, OwnersOK, CommandOK, TargetPlanned,
                      expected.kind = "APPLY_TARGET"
               PROVE  /\ expected.battery \in owners
                      /\ \A b \in DrivenBy(roles) : b = expected.battery
                      /\ expected.battery = "DEYE" =>
                           roles["SOLAX"] = "HOLD" /\ owners = Batteries
    BY DEF NeverFeedsTheOther
  <2>1. phase \in Continuation /\ expected.battery \in Destination
    BY TargetCommand DEF TargetWait, Continuation
  <2>2. intent \in IntentTypes
    BY PlanAssumption DEF TypeOK
  <2>3. CASE Destination = {"SOLAX"}
    <3>1. owners = {"SOLAX"} /\ DrivenBy(roles) \subseteq {"SOLAX"}
      BY <2>1, <2>3, NamedVectors DEF OwnersOK, Destination
    <3> QED BY <2>1, <2>3, <3>1
  <2>4. CASE Destination = {"DEYE"}
    <3>1. owners = Batteries /\ DrivenBy(roles) \subseteq {"DEYE"}
      BY <2>1, <2>4, NamedVectors DEF OwnersOK, Destination
    <3>2. roles["SOLAX"] = "HOLD"
      BY <2>1, <2>2, <2>4, DesiredWriters, VectorRoles DEF OwnersOK, RoleNames,
        Writing
    <3> QED BY <2>1, <2>4, <3>1, <3>2 DEF Batteries
  <2> QED BY <2>1, <2>2, <2>3, <2>4, OneDestination
<1>. QED
  BY <1>1, TypeCorrect, OwnershipCorrect, CommandCorrect, TargetsArePlanned, PTL
-----------------------------------------------------------------------------
(* The refinement of HandOver, step by step.                                *)
Driven == DrivenBy(roles) \cup
          (IF expected.kind = "APPLY_TARGET" THEN {expected.battery} ELSE {})
Freed == ~Breaks \/ Beyond("WAIT_NEUTRAL")

Stutters == owners' = owners /\ Driven' = Driven /\ Freed' = Freed

Releases ==
  /\ ~Freed
  /\ owners' = {} /\ Driven' = {} /\ Freed' = TRUE

Grants ==
  /\ Freed /\ owners = {}
  /\ owners' \in SUBSET Batteries
  /\ Driven' = Driven /\ Freed' = Freed

DrivesOne ==
  /\ Freed /\ Driven = {}
  /\ \E b \in owners : Driven' = {b}
  /\ owners' = owners /\ Freed' = Freed

HandOverStep == Stutters \/ Releases \/ Grants \/ DrivesOne

Proven == TypeOK /\ PlanOK /\ OwnersOK /\ CommandOK /\ TargetPlanned

(* Nothing is driven before the target command, once the owners are free.   *)
LEMMA UndrivenArms ==
  ASSUME Proven, phase \in {"VERIFY_PCC", "ARM_DESTINATION"}
  PROVE  DrivenBy(roles) = {}
<1>1. owners = {} /\ roles = IF Breaks THEN Native ELSE source
  BY DEF Proven, OwnersOK
<1>2. ~Breaks => DrivenBy(source) = {}
  BY DEF Breaks, WritersOf, DrivenBy, Writing
<1>. QED BY <1>1, <1>2, NamedVectors

LEMMA NoTargetYet ==
  ASSUME Proven, phase \notin TargetWait
  PROVE  expected.kind # "APPLY_TARGET" /\ Driven = DrivenBy(roles)
BY DEF Proven, TargetPlanned, Driven

LEMMA HandOverSteps ==
  ASSUME Proven, [Next]_vars
  PROVE  HandOverStep
<1> USE DEF planVars, phaseVars, ownVars, cmdVars
<1>0. intent \in IntentTypes /\ Destination \in {{}, {"SOLAX"}, {"DEYE"}}
  BY PlanAssumption, OneDestination DEF Proven, TypeOK
<1>1. CASE KeepsCommand
  BY <1>1 DEF KeepsCommand, Quiet, HandOverStep, Stutters, Driven, Freed,
    Breaks, Beyond, DrivenBy
<1>2. ASSUME NEW p \in Readings, ProposeHold(p) PROVE HandOverStep
  <2>1. expected.kind # "APPLY_TARGET" /\ expected'.kind # "APPLY_TARGET"
    BY <1>2, CommandKinds DEF ProposeHold, Propose
  <2> QED
    BY <1>2, <2>1 DEF ProposeHold, HandOverStep, Stutters, Driven, Freed,
      Breaks, Beyond, DrivenBy
<1>3. ASSUME NEW p \in Readings,
             \/ Freeze(p) \/ StopCurrentOwner(p) \/ AcknowledgeStop(p)
             \/ VerifyPcc(p)
             \/ \E until \in now + 1 .. now + ReadyMaxAge :
                  DestinationReady(p, until)
      PROVE  HandOverStep
  <2>1. expected.kind # "APPLY_TARGET"
    BY <1>3, NoTargetYet DEF Freeze, StopCurrentOwner, AcknowledgeStop,
      VerifyPcc, DestinationReady, TargetWait
  <2>2. expected'.kind # "APPLY_TARGET"
    BY <1>3, <2>1, CommandKinds DEF Freeze, StopCurrentOwner, AcknowledgeStop,
      VerifyPcc, DestinationReady, Propose
  <2>3. UNCHANGED <<planVars, ownVars>>
    BY <1>3 DEF Freeze, StopCurrentOwner, AcknowledgeStop, VerifyPcc,
      DestinationReady
  <2>4. Freed' = Freed
    BY <1>3, <2>3 DEF Proven, PlanOK, Freeze, StopCurrentOwner,
      AcknowledgeStop, VerifyPcc, DestinationReady, Enter, AfterFreeze,
      AfterBreak, Freed, Breaks, Beyond, Position
  <2> QED
    BY <2>1, <2>2, <2>3, <2>4 DEF HandOverStep, Stutters, Driven, DrivenBy
<1>4. ASSUME NEW p \in Readings, NEW at \in Samples, Release(p, at)
      PROVE  HandOverStep
  <2>1. expected.kind # "APPLY_TARGET" /\ expected' = expected
    BY <1>4, NoTargetYet DEF Release, TargetWait
  <2>2. ~Freed /\ Freed' = TRUE
    BY <1>4 DEF Proven, PlanOK, Release, Enter, AfterBreak, Freed, Breaks,
      Beyond, Position
  <2>3. owners' = {} /\ roles' = Native
    BY <1>4 DEF Release
  <2>4. Driven' = {}
    BY <2>1, <2>3, NamedVectors DEF Driven, DrivenBy
  <2> QED BY <2>2, <2>3, <2>4 DEF HandOverStep, Releases
<1>5. ASSUME NEW p \in Readings, ArmSolax(p) \/ ArmDeye(p)
      PROVE  HandOverStep
  <2>1. phase = "ARM_DESTINATION" /\ UNCHANGED planVars
        /\ phase' = "WAIT_DESTINATION_READY"
    BY <1>5 DEF ArmSolax, ArmDeye, Enter
  <2>2. Freed = TRUE /\ Freed' = TRUE
    BY <2>1 DEF Freed, Beyond, Position
  <2>3. owners = {} /\ owners' \in SUBSET Batteries
    BY <1>5, <2>1 DEF Proven, OwnersOK, ArmSolax, ArmDeye, Batteries
  <2>4. Driven = {}
    BY <2>1, UndrivenArms, NoTargetYet DEF TargetWait
  <2>5. DrivenBy(roles') = {}
    BY <1>5, NamedVectors DEF ArmSolax, ArmDeye
  <2>6. expected'.kind # "APPLY_TARGET"
    BY <1>5, <2>1, NoTargetYet, CommandKinds DEF ArmSolax, ArmDeye, TargetWait
  <2>7. Driven' = {}
    BY <2>5, <2>6 DEF Driven, DrivenBy
  <2> QED BY <2>2, <2>3, <2>4, <2>7 DEF HandOverStep, Grants
<1>6. ASSUME NEW p \in Readings, IssueTarget(p) PROVE HandOverStep
  <2>1. phase = "ISSUE_TARGET" /\ phase' = "WAIT_TARGET_ACK"
        /\ UNCHANGED <<planVars, ownVars>>
    BY <1>6 DEF IssueTarget, Enter
  <2>2. Freed = TRUE /\ Freed' = TRUE
    BY <2>1 DEF Freed, Beyond, Position
  <2>3. PICK b \in Destination : expected' = TargetFor(b, effective')
    BY <1>6 DEF IssueTarget, Propose
  <2>4. DrivenBy(roles) = {} /\ b \in owners
    BY <1>0, <2>1, <2>3, NamedVectors DEF Proven, OwnersOK, Continuation,
      Batteries
  <2>5. Driven = {}
    BY <2>1, <2>4, NoTargetYet DEF TargetWait
  <2>6. Driven' = {b}
    BY <2>1, <2>3, <2>4, CommandKinds DEF Driven, DrivenBy
  <2> QED BY <2>1, <2>2, <2>4, <2>5, <2>6 DEF HandOverStep, DrivesOne
<1>7. ASSUME NEW p \in Readings, ConfirmTarget(p) \/ ConfirmResponse(p)
      PROVE  HandOverStep
  <2>1. UNCHANGED <<planVars, ownVars, expected>>
    BY <1>7 DEF ConfirmTarget, ConfirmResponse
  <2>2. Freed = TRUE /\ Freed' = TRUE
    BY <1>7 DEF ConfirmTarget, ConfirmResponse, Enter, Freed, Beyond, Position
  <2> QED BY <2>1, <2>2 DEF HandOverStep, Stutters, Driven, DrivenBy
<1>8. ASSUME NEW p \in Readings, ConfirmStable(p) PROVE HandOverStep
  <2>1. /\ phase = "WAIT_STABLE" /\ phase' = "COMPLETE"
        /\ UNCHANGED planVars /\ expected' = expected
        /\ roles' = Desired /\ owners' = WritersOf(Desired)
    BY <1>8 DEF ConfirmStable, Enter
  <2>2. Freed = TRUE /\ Freed' = TRUE
    BY <2>1 DEF Freed, Beyond, Position
  <2>3. Drives
    BY <2>1 DEF Proven, PlanOK, Beyond, Position
  <2>4. PICK b \in Destination : expected = TargetFor(b, effective)
    BY <2>1, <2>3 DEF Proven, CommandOK, TargetWait
  <2>5. Destination = {b}
    BY <1>0, <2>4
  <2>6. owners' = owners
    BY <1>0, <2>1, <2>3, DesiredWriters DEF Proven, OwnersOK, Continuation,
      Drives
  <2>7. DrivenBy(roles) = {} /\ DrivenBy(roles') = {b}
    BY <1>0, <2>1, <2>3, <2>5, NamedVectors DEF Proven, OwnersOK, Continuation,
      Drives, Destination
  <2>8. Driven = {b} /\ Driven' = {b}
    BY <2>1, <2>4, <2>7, CommandKinds DEF Driven, DrivenBy
  <2> QED BY <2>2, <2>6, <2>8 DEF HandOverStep, Stutters
<1>. QED
  BY <1>1, <1>2, <1>3, <1>4, <1>5, <1>6, <1>7, <1>8, CommandSteps
  DEF Proven, Moves

(* Every transition hands its writers over as HandOver prescribes: all of   *)
(* them are accounted released before one is granted, and only a granted    *)
(* battery is driven.                                                       *)
THEOREM Implements == Spec => HandsOver
<1>1. Init => Promise!Init
  <2> SUFFICES ASSUME Init PROVE Promise!Init
    OBVIOUS
  <2>1. roles = source /\ owners = WritersOf(source)
    BY DEF Init
  <2>2. owners \in SUBSET Batteries
    BY <2>1 DEF WritersOf
  <2>3. expected.kind # "APPLY_TARGET"
    BY CommandKinds DEF Init
  <2>4. Driven \in SUBSET owners
    BY <2>1, <2>3 DEF Driven, DrivenBy, WritersOf, Writing
  <2>5. Freed = (owners = {})
    BY <2>1 DEF Init, Freed, Breaks, Beyond, Position
  <2> QED BY <2>2, <2>4, <2>5 DEF Promise!Init, Driven, Freed
<1>2. HandOverStep => [Promise!Next]_(Promise!vars)
  <2>1. Stutters => UNCHANGED Promise!vars
    BY DEF Stutters, Driven, Freed, Promise!vars
  <2>2. Releases => Promise!Release
    BY DEF Releases, Driven, Freed, Promise!Release
  <2>3. Grants => Promise!Grant
    BY DEF Grants, Driven, Freed, Promise!Grant
  <2>4. DrivesOne => Promise!Drive
    BY DEF DrivesOne, Driven, Freed, Promise!Drive
  <2> QED BY <2>1, <2>2, <2>3, <2>4 DEF HandOverStep, Promise!Next
<1>3. Proven /\ [Next]_vars => [Promise!Next]_(Promise!vars)
  BY <1>2, HandOverSteps
<1>4. TypeOK /\ (PlanOK /\ OwnersOK) /\ CommandOK /\ TargetPlanned => Proven
  BY DEF Proven
<1>. QED
  BY <1>1, <1>3, <1>4, TypeCorrect, OwnershipCorrect, CommandCorrect,
    TargetsArePlanned, PTL DEF Spec, HandsOver, Promise!Spec

-----------------------------------------------------------------------------
(* The battery a stop is proposed for is a writer, and the driven one if     *)
(* one is driven.                                                            *)
LEMMA StopsADriven ==
  ASSUME NEW r \in RoleVectors, NEW b \in StopOwner(r, WritersOf(r))
  PROVE  /\ b \in WritersOf(r)
         /\ DrivenBy(r) # Batteries => DrivenBy(r) \subseteq {b}
<1>1. DrivenBy(r) \subseteq WritersOf(r) /\ DrivenBy(r) \subseteq Batteries
  BY DEF DrivenBy, WritersOf, Writing
<1>. QED  BY <1>1 DEF StopOwner, Batteries

Dropped == \* what the stop of one battery has to have stopped
  /\ WritersOf(source) \cap stopped # {}
  /\ DrivenBy(source) # Batteries => DrivenBy(source) \subseteq stopped

(* After the wait for its acknowledgement, the stop has been acknowledged.     *)
StoppedOK ==
  Breaks /\ phase \notin {"FREEZE_INTENT", "STOP_CURRENT_OWNER", "WAIT_CURRENT_ACK"}
    => Dropped

LEMMA StoppedStep ==
  ASSUME TypeOK, OwnersOK, CommandOK, StoppedOK, [Next]_vars
  PROVE  StoppedOK'
<1> USE DEF StoppedOK, Dropped, Breaks, planVars, phaseVars, ownVars, cmdVars
<1>1. ASSUME NEW p \in Readings, AcknowledgeStop(p)
      PROVE  StoppedOK'
  <2>1. CASE Breaks
    <3>1. PICK b \in StopOwner(source, WritersOf(source)) : expected = StopOf(b)
      BY <1>1 DEF AcknowledgeStop, CommandOK, OwnersOK, Beyond, Position
    <3>2. expected.battery = b
      BY <3>1 DEF StopOf, Cmd
    <3>3. /\ b \in WritersOf(source)
          /\ DrivenBy(source) # Batteries => DrivenBy(source) \subseteq {b}
      BY <3>1, StopsADriven, PlanAssumption DEF TypeOK
    <3>4. stopped' = stopped \cup {b} /\ source' = source
      BY <1>1, <3>2 DEF AcknowledgeStop
    <3>. QED  BY <3>3, <3>4 DEF WritersOf, DrivenBy
  <2>2. CASE ~Breaks
    BY <1>1, <2>2 DEF AcknowledgeStop
  <2>. QED  BY <2>1, <2>2
<1>2. ASSUME NEW p \in Readings, Freeze(p) \/ StopCurrentOwner(p)
      PROVE  StoppedOK'
  BY <1>2 DEF Freeze, StopCurrentOwner, AfterFreeze, Enter
<1>3. ASSUME NEW p \in Readings,
             \/ VerifyPcc(p) \/ ArmSolax(p) \/ ArmDeye(p)
             \/ \E until \in now + 1 .. now + ReadyMaxAge :
                  DestinationReady(p, until)
             \/ IssueTarget(p) \/ ConfirmTarget(p) \/ ConfirmResponse(p)
             \/ ConfirmStable(p)
             \/ \E at \in Samples : Release(p, at)
      PROVE  StoppedOK'
  <2>1. /\ phase \notin {"FREEZE_INTENT", "STOP_CURRENT_OWNER",
                         "WAIT_CURRENT_ACK"}
        /\ source' = source /\ stopped' = stopped
    BY <1>3 DEF VerifyPcc, ArmSolax, ArmDeye, DestinationReady, IssueTarget,
      ConfirmTarget, ConfirmResponse, ConfirmStable, Release
  <2>. QED  BY <2>1
<1>4. CASE Quiet
  <2>1. stopped' = stopped \/ \E p \in Readings : AcknowledgeStop(p)
    <3>1. CASE UNCHANGED vars \/ Tick \/ Respond \/ GiveUp
      BY <3>1 DEF vars, Tick, Respond, GiveUp, Expire, Overrun, Disable, LosePcc,
        Fail
    <3>2. ASSUME NEW p \in Readings, Judge(p) PROVE stopped' = stopped
      BY <3>2 DEF Judge, ExceedHeadroom, Defer, Conflict, LoseCommand, Wait,
        Object, Fail
    <3>3. ASSUME NEW p \in Readings, Watch(p) PROVE stopped' = stopped
      BY <3>3 DEF Watch, Release, Settle, ObjectToFlow, Fail
    <3>4. ASSUME NEW p \in Readings, Advance(p)
          PROVE  stopped' = stopped \/ AcknowledgeStop(p)
      BY <3>4 DEF Advance, Freeze, StopCurrentOwner, VerifyPcc, ArmSolax,
        ProposeHold, ArmDeye, DestinationReady, IssueTarget, ConfirmTarget,
        ConfirmResponse, ConfirmStable
    <3>. QED  BY <3>1, <3>2, <3>3, <3>4 DEF Next, Evaluate
  <2>2. CASE stopped' = stopped
    BY <1>4, <2>2 DEF Quiet
  <2>. QED  BY <1>1, <2>1, <2>2
<1>. QED  BY <1>1, <1>2, <1>3, <1>4, QuietOrMoves DEF Moves

(* From whatever roles a transition starts, two writers included: the         *)
(* battery that was driven is not given up before its stop is acknowledged,   *)
(* and no source is released without a stop (transition.py:627).              *)
THEOREM DrivenBatteriesStop == Spec => []DrivenIsStopped
<1>1. Init => StoppedOK
  BY DEF Init, StoppedOK
<1>2. TypeOK /\ OwnersOK /\ CommandOK /\ StoppedOK /\ [Next]_vars => StoppedOK'
  BY StoppedStep
<1>3. TypeOK /\ StoppedOK => DrivenIsStopped
  BY DEF StoppedOK, Dropped, DrivenIsStopped, Beyond, Position, TypeOK, Phases
<1>. QED
  BY <1>1, <1>2, <1>3, TypeCorrect, OwnershipCorrect, CommandCorrect, PTL DEF Spec
=============================================================================
