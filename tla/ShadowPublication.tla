-------------------------- MODULE ShadowPublication --------------------------
(***************************************************************************)
(* EnergyV3ShadowApp (energy_v3/shadow_app.py): when it evaluates what the    *)
(* house is like, and how it tells, one entity after another, what it would   *)
(* do. Its callbacks run one at a time.                                     *)
(*                                                                         *)
(* A set_state may raise, before it takes effect or after; the schedule may   *)
(* refuse a callback; the app may be killed between any two calls. An         *)
(* evaluation is known by evaluated_at, here a label that no entity shows.     *)
(*                                                                         *)
(* Bounds: MaxFailures of calls and kills, after which none fails.            *)
(***************************************************************************)
EXTENDS ShadowDecision, Sequences

CONSTANTS
  Houses,        \* the evidence that the house may give
  Details,       \* the entities told between the reason and its repetition:
                 \* interval, both targets, telemetry, authorization
  MaxFailures

ASSUME PublicationAssumption ==
  /\ Houses \subseteq Evidence /\ Houses # {}
  /\ Details \in Seq(STRING) /\ MaxFailures \in Nat
  /\ \A i \in DOMAIN Details : Details[i] \notin {"decision", "reason"}

VARIABLES
  house,       \* external: what an evaluation would collect now
  due,         \* callbacks that wait: "change", "coalesced", "periodic"
  pending,     \* _evaluation_pending
  doing,       \* "nothing", "collect", "publish" or "report" (of an error)
  step,        \* how many of its entities it has told
  evaluation,  \* its label
  decision,    \* what it decided
  shown,       \* per entity: whose evaluation it shows, and what
  failures,
  behind,      \* history: the house has changed since the app last collected
               \* it, began to tell an error instead, or started
  refused      \* history: the last withdrawal of the decision had no effect

app == <<pending, doing, step, evaluation, decision>>
vars == <<house, due, app, shown, failures, behind, refused>>

Entities == {"decision", "reason"} \cup {Details[i] : i \in DOMAIN Details}
Labels == 0..(Cardinality(Entities) + 1)

(* The order of _publish, and that of _publish_runtime_error.                *)
Reported == <<"decision", "reason">> \o Details
Published == Reported \o <<"reason", "decision">>

Opening_Kept(e) == shown[e].state     \* mutated: the decision is not withdrawn

Opening(e) == IF e = "decision" THEN "RETURN_TO_NORMAL" ELSE "IN_PROGRESS"
Final(e) == IF e = "decision" THEN decision.state
            ELSE IF e = "reason" THEN decision.reason ELSE "input"
Error(e) == IF e = "decision" THEN "RETURN_TO_NORMAL" ELSE "RUNTIME_ERROR"

Acting == shown["decision"].state # "RETURN_TO_NORMAL"

Show(e, what) == shown' = [shown EXCEPT ![e] = [of |-> evaluation, state |-> what]]

Fail == failures < MaxFailures /\ failures' = failures + 1

Go(what, n) == doing' = what /\ step' = n

-----------------------------------------------------------------------------
(* The house and the schedule.                                              *)
Change ==
  /\ house' \in Houses \ {house}
  /\ due' = due \cup {"change"} /\ behind' = TRUE
  /\ UNCHANGED <<app, shown, failures, refused>>

Periodic_Dies ==                      \* mutated: an exception ends the timer
  /\ failures = 0
  /\ due' = due \cup {"periodic"}
  /\ UNCHANGED <<house, app, shown, failures, behind, refused>>

Periodic ==
  /\ due' = due \cup {"periodic"}
  /\ UNCHANGED <<house, app, shown, failures, behind, refused>>

-----------------------------------------------------------------------------
(* The callbacks.                                                           *)
Free(callback) ==
  /\ doing = "nothing" /\ callback \in due
  /\ evaluation' = CHOOSE n \in Labels : \A e \in Entities : shown[e].of # n

InputChanged ==
  /\ Free("change")
  /\ \/ /\ pending
        /\ due' = due \ {"change"}
        /\ UNCHANGED <<pending, doing, step, failures, behind>>
     \/ /\ ~pending
        /\ due' = (due \ {"change"}) \cup {"coalesced"}
        /\ pending' = TRUE
        /\ UNCHANGED <<doing, step, failures, behind>>
     \/ /\ ~pending /\ Fail
        /\ due' \in {due \ {"change"}, (due \ {"change"}) \cup {"coalesced"}}
        /\ Go("report", 0) /\ behind' = FALSE /\ UNCHANGED pending
  /\ UNCHANGED decision

Coalesced_Early ==                    \* mutated: the flag outlives the timer
  /\ Free("coalesced")
  /\ due' = due \ {"coalesced"} /\ Go("collect", 0)
  /\ UNCHANGED <<pending, decision, failures, behind>>

Coalesced ==
  /\ Free("coalesced")
  /\ due' = due \ {"coalesced"} /\ pending' = FALSE /\ Go("collect", 0)
  /\ UNCHANGED <<decision, failures, behind>>

PeriodicEvaluation ==
  /\ Free("periodic")
  /\ due' = due \ {"periodic"} /\ Go("collect", 0)
  /\ UNCHANGED <<pending, decision, failures, behind>>

Collect ==
  /\ doing = "collect"
  /\ behind' = FALSE
  /\ \/ decision' = Decide(house) /\ Go("publish", 0) /\ UNCHANGED failures
     \/ Fail /\ Go("report", 0) /\ UNCHANGED decision
  /\ UNCHANGED <<due, pending, evaluation>>

Callback ==
  /\ InputChanged \/ Coalesced \/ PeriodicEvaluation \/ Collect
  /\ UNCHANGED <<house, shown, refused>>

-----------------------------------------------------------------------------
(* The publication, and that of an error.                                   *)
Publish ==
  /\ doing = "publish"
  /\ LET e == Published[step + 1]
         last == step + 1 = Len(Published)
         what == IF step < 2 THEN Opening(e) ELSE Final(e)
     IN \/ /\ Show(e, what)
           /\ IF last THEN Go("nothing", 0) ELSE Go("publish", step + 1)
           /\ UNCHANGED failures
        \/ /\ Fail /\ (Show(e, what) \/ UNCHANGED shown)
           /\ Go("report", 0)
  /\ refused' = (refused /\ shown'["decision"] = shown["decision"])

Report ==
  /\ doing = "report"
  /\ LET e == Reported[step + 1]
     IN /\ \/ Show(e, Error(e)) /\ UNCHANGED failures
           \/ Fail /\ (Show(e, Error(e)) \/ UNCHANGED shown)
        /\ refused' = IF e = "decision" THEN shown' = shown ELSE refused
  /\ IF step + 1 = Len(Reported) THEN Go("nothing", 0) ELSE Go("report", step + 1)

Tell ==
  /\ Publish \/ Report
  /\ UNCHANGED <<house, due, pending, evaluation, decision, behind>>

(* A kill and a start: run_every evaluates at once.                          *)
Restart ==
  /\ Fail
  /\ due' = {"periodic"} /\ pending' = FALSE /\ Go("nothing", 0)
  /\ behind' = FALSE
  /\ UNCHANGED <<house, evaluation, decision, shown, refused>>

Init ==
  /\ house \in Houses
  /\ due = {"periodic"} /\ pending = FALSE
  /\ doing = "nothing" /\ step = 0 /\ evaluation = 0
  /\ decision = Refused("HAEO_INVALID")
  /\ shown = [e \in Entities |-> [of |-> 0, state |-> Error(e)]]
  /\ failures = 0 /\ behind = FALSE /\ refused = FALSE

Next == Change \/ Periodic \/ Callback \/ Tell \/ Restart

Evaluation ==
  /\ Coalesced \/ PeriodicEvaluation
  /\ UNCHANGED <<house, shown, refused>>

(* run_every comes again, and AppDaemon runs what is due in its order: a house  *)
(* that keeps changing does not put off the timers for ever.                  *)
Spec ==
  /\ Init /\ [][Next]_vars
  /\ WF_vars(Periodic) /\ WF_vars(Callback \/ Tell) /\ SF_vars(Evaluation)
-----------------------------------------------------------------------------
TypeOK ==
  /\ house \in Houses /\ due \subseteq {"change", "coalesced", "periodic"}
  /\ doing \in {"nothing", "collect", "publish", "report"}
  /\ step \in 0..(Len(Published) - 1) /\ (doing = "nothing" => step = 0)
  /\ evaluation \in Labels /\ decision \in Decisions
  /\ DOMAIN shown = Entities /\ \A e \in Entities : shown[e].of \in Labels
  /\ failures \in 0..MaxFailures
  /\ {pending, behind, refused} \subseteq BOOLEAN

(* Whatever is told to discharge was so decided on evidence that bears it, the  *)
(* signs of targets and readings being opposite (controller.py:96-167,          *)
(* telemetry_adapter.py:69-127).                                             *)
DischargeIsBounded == shown["decision"].state \notin Unborne

(* "A failed partial publication must never leave a positive decision visible" *)
(* (shadow_app.py:96): beside a decision to act, every entity shows the same   *)
(* evaluation, complete, whichever calls failed and whenever the app was        *)
(* killed; unless Home Assistant refused the withdrawal as well, which the app  *)
(* does not repeat (shadow_app.py:191-195).                                   *)
ActingIsWhole ==
  Acting /\ ~refused =>
    \A e \in Entities : /\ shown[e].of = shown["decision"].of
                        /\ shown[e].state \notin {"IN_PROGRESS", "RUNTIME_ERROR"}

(* A decision to act is not replaced by another before it has been seen         *)
(* withdrawn (shadow_app.py:96-107), so no reader takes the entities of one     *)
(* for those of the next.                                                     *)
WithdrawnBetween ==
  [][Acting /\ Acting' => shown'["decision"] = shown["decision"]]_vars

(* The flag of a pending evaluation never loses a change (shadow_app.py:43-61): *)
(* while the last evaluation knows an earlier house, another is under way, the  *)
(* periodic one apart.                                                        *)
ChangeIsFollowed ==
  behind => {"change", "coalesced"} \cap due # {} \/ doing = "collect"

(* If from some time on the house gives no reason to act, even if it never      *)
(* stops changing, the decision to act is withdrawn for good, by way of any     *)
(* coalescing, failures and kills.                                            *)
UnsafeIsWithdrawn ==
  <>[](Decide(house).state = "RETURN_TO_NORMAL") => <>[]~Acting
=============================================================================
