-------------------------- MODULE PlannerPublication --------------------------
(***************************************************************************)
(* How the advisory planner hands its intent to the executor: the planner   *)
(* sets two entities, planner_status and planner_intent, one call after     *)
(* another (advisory_app.py), and the executor reads them one after the     *)
(* other (executor_runtime.py), at any time.                                *)
(*                                                                         *)
(* A set_state may raise, before it takes effect or after; the planner may  *)
(* be killed between any two calls. Its evaluations exclude each other (the *)
(* lock is not waited for), and each has an identifier of its own, here a   *)
(* number that is never used again, restarts included.                      *)
(*                                                                         *)
(* Bounds: MaxPublications evaluations, MaxTime instants.                   *)
(***************************************************************************)
EXTENDS Naturals

CONSTANTS
  Plans,            \* identifiers of plans
  Types,            \* types of intents
  MaxAge,           \* planner_max_age_s of the executor
  MaxPublications,  \* bound on the evaluations
  MaxTime           \* bound on the clock

NoPlan == "REPLANNING"       \* the plan of an intent that is withdrawn
NoIntent == "NONE"

ASSUME PublicationAssumption ==
  /\ NoPlan \notin Plans /\ NoIntent \in Types
  /\ MaxAge \in Nat /\ MaxPublications \in Nat /\ MaxTime \in Nat

VARIABLES
  now,
  pc,        \* the call the planner makes next
  pub,       \* identifier of the evaluation
  outcome,   \* what AdvisoryRuntime.tick and executor_intent_payload return
  status,    \* entity planner_status
  intent,    \* entity planner_intent
  stage,     \* what the executor reads next
  since,     \* now of the executor's tick
  got,       \* the intent it has read
  decoded,   \* the intent it accepted, as a set of at most one
  granted,   \* history: the publication that had authority last
  seen       \* history: the intents that had authority during the reading

planner == <<pc, pub, outcome>>
entities == <<status, intent>>
reader == <<stage, since, got, decoded>>
history == <<granted, seen>>
publicationVars == <<now, planner, entities, reader, history>>

Identities == [pub : 0..MaxPublications, plan : Plans \cup {NoPlan},
               type : Types]
Identity(r) == [pub |-> r.pub, plan |-> r.plan, type |-> r.type]

(* An intent exists in a plan that is valid for the present only.           *)
Outcomes == {o \in [state : {"ADVISORY", "LAST_KNOWN", "DEGRADED"},
                    plan : Plans, type : Types] :
               o.type # NoIntent => o.state = "ADVISORY"}

-----------------------------------------------------------------------------
(* The planner.                                                            *)

(* set_state: it succeeds, or raises with or without having taken effect.   *)
Attempt(write, keep, success, failure) ==
  \/ write /\ pc' = success
  \/ (write \/ keep) /\ pc' = failure

(* A call merges its attributes into the entity's.                          *)
ShowStatus(state) ==
  status' = [status EXCEPT !.state = state, !.pub = pub, !.at = now]

ShowIntent(plan, type) ==
  intent' = [pub |-> pub, plan |-> plan, type |-> type, at |-> now]

Begin_Reusing ==                     \* mutated: no identifier of its own
  /\ pc = "idle" /\ pub < MaxPublications
  /\ pub' = 1 /\ pc' = "mark"
  /\ UNCHANGED <<outcome, entities>>

Begin ==
  /\ pc = "idle" /\ pub < MaxPublications
  /\ pub' = pub + 1 /\ pc' = "mark"
  /\ UNCHANGED <<outcome, entities>>

Mark ==
  /\ pc = "mark"
  /\ Attempt(ShowStatus("UPDATING"), UNCHANGED status,
             "invalidate", "withdraw")
  /\ UNCHANGED <<pub, outcome, intent>>

Invalidate ==
  /\ pc = "invalidate"
  /\ Attempt(ShowIntent(NoPlan, NoIntent), UNCHANGED intent,
             "evaluate", "idle")
  /\ UNCHANGED <<pub, outcome, status>>

(* After the first call or one of the last calls raised.                    *)
Withdraw ==
  /\ pc \in {"withdraw", "retract"}
  /\ Attempt(ShowIntent(NoPlan, NoIntent), UNCHANGED intent, "idle", "idle")
  /\ UNCHANGED <<pub, outcome, status>>

Evaluate ==
  /\ pc = "evaluate"
  /\ \/ outcome' \in Outcomes /\ pc' = "outputs"
     \/ UNCHANGED outcome /\ pc' = "degrade"
  /\ UNCHANGED <<pub, entities>>

Degrade ==
  /\ pc = "degrade"
  /\ Attempt(ShowStatus("DEGRADED"), UNCHANGED status, "idle", "idle")
  /\ UNCHANGED <<pub, outcome, intent>>

(* The other entities, which nobody decides by.                             *)
ShowOutputs ==
  /\ pc = "outputs" /\ pc' \in {"intent", "retract"}
  /\ UNCHANGED <<pub, outcome, entities>>

PublishIntent ==
  /\ pc = "intent"
  /\ Attempt(ShowIntent(outcome.plan, outcome.type), UNCHANGED intent,
             "commit", "retract")
  /\ UNCHANGED <<pub, outcome, status>>

CommitStatus ==
  /\ pc = "commit"
  /\ Attempt(status' = [state |-> outcome.state, pub |-> pub,
                        plan |-> outcome.plan, type |-> outcome.type,
                        committed |-> now, at |-> now],
             UNCHANGED status, "idle", "retract")
  /\ UNCHANGED <<pub, outcome, intent>>

Restart ==
  /\ pc' = "idle"
  /\ UNCHANGED <<pub, outcome, entities>>

Plan ==
  /\ \/ Begin \/ Mark \/ Invalidate \/ Withdraw \/ Evaluate \/ Degrade
     \/ ShowOutputs \/ PublishIntent \/ CommitStatus \/ Restart
  /\ UNCHANGED <<now, reader>>

-----------------------------------------------------------------------------
(* The executor.                                                           *)
Coherent_Plan(i, s) ==               \* mutated: publications not compared
  s.state = "ADVISORY" /\ i.plan = s.plan /\ i.type = s.type

Coherent(i, s) == s.state = "ADVISORY" /\ Identity(i) = Identity(s)

Fresh(at) == at <= since /\ since - at <= MaxAge

Decode(i, s) ==
  IF /\ Coherent(i, s) /\ i.type # NoIntent
     /\ Fresh(s.at) /\ Fresh(s.committed) /\ Fresh(i.at)
     /\ i.at <= s.committed /\ s.committed <= s.at
  THEN {Identity(i)} ELSE {}

StartReading ==
  /\ stage = "nothing" /\ stage' = "intent"
  /\ since' = now /\ decoded' = {}
  /\ UNCHANGED got

ReadIntent ==
  /\ stage = "intent" /\ stage' = "status"
  /\ got' = intent
  /\ UNCHANGED <<since, decoded>>

(* An intent of another slot, or a hypothetical one, is refused as well.    *)
ReadStatus ==
  /\ stage = "status" /\ stage' = "nothing"
  /\ decoded' \in {{}, Decode(got, status)}
  /\ UNCHANGED <<since, got>>

Read ==
  /\ StartReading \/ ReadIntent \/ ReadStatus
  /\ UNCHANGED <<now, planner, entities>>

Elapse ==
  /\ now < MaxTime /\ now' = now + 1
  /\ UNCHANGED <<planner, entities, reader>>

-----------------------------------------------------------------------------
(* The intent that an executor would accept, reading both entities at once. *)
AuthorityOf(i, s) ==
  IF s.state = "ADVISORY" /\ Identity(i) = Identity(s)
  THEN {Identity(i)} ELSE {}
Authority == AuthorityOf(intent, status)

Watch ==
  /\ granted' = IF Authority' # {} THEN status'.pub ELSE granted
  /\ seen' = IF stage = "nothing"
             THEN IF stage' = "intent" THEN Authority' ELSE seen
             ELSE seen \cup Authority'

PublicationInit ==
  /\ now = 0 /\ pc = "idle" /\ pub = 0
  /\ outcome \in Outcomes
  /\ status = [state |-> "unknown", pub |-> 0, plan |-> NoPlan,
               type |-> NoIntent, committed |-> 0, at |-> 0]
  /\ intent = [pub |-> 0, plan |-> NoPlan, type |-> NoIntent, at |-> 0]
  /\ stage = "nothing" /\ since = 0 /\ got = intent /\ decoded = {}
  /\ granted = 0 /\ seen = {}

PublicationNext == (Plan \/ Read \/ Elapse) /\ Watch

PublicationSpec == PublicationInit /\ [][PublicationNext]_publicationVars

-----------------------------------------------------------------------------
Stamped == [pub : 0..MaxPublications, plan : Plans \cup {NoPlan},
            type : Types, at : 0..MaxTime]

PublicationTypeOK ==
  /\ now \in 0..MaxTime /\ since \in 0..MaxTime
  /\ pc \in {"idle", "mark", "invalidate", "withdraw", "evaluate", "degrade",
             "outputs", "intent", "commit", "retract"}
  /\ pub \in 0..MaxPublications /\ granted \in 0..MaxPublications
  /\ outcome \in Outcomes
  /\ status \in [state : {"unknown", "UPDATING", "ADVISORY", "LAST_KNOWN",
                          "DEGRADED"},
                 pub : 0..MaxPublications, plan : Plans \cup {NoPlan},
                 type : Types, committed : 0..MaxTime, at : 0..MaxTime]
  /\ intent \in Stamped /\ got \in Stamped
  /\ stage \in {"nothing", "intent", "status"}
  /\ decoded \subseteq Identities /\ seen \subseteq Identities

(* From the moment an evaluation has marked the status until it commits, no  *)
(* intent has authority, whatever raised before and whatever an earlier      *)
(* process left behind (advisory_app.py:86).                                *)
NothingWhileUpdating ==
  pc \in {"invalidate", "evaluate", "degrade", "outputs", "intent", "commit"}
    => Authority = {}

(* "Decode only an explicitly committed, generation-coherent Phase 5A        *)
(* publication" (executor_runtime.py:416): the executor reads two entities   *)
(* at two moments, and accepts an intent only if at some one moment of its   *)
(* reading that intent had authority.                                       *)
DecodedHadAuthority == stage = "nothing" => decoded \subseteq seen

(* The two entities keep the promise of PlannerAuthority: authority is       *)
(* granted by the commit of a publication and at no other moment, never      *)
(* passes from one intent to another at once, and is not granted twice       *)
(* (advisory_app.py:150).                                                   *)
Promise == INSTANCE PlannerAuthority
             WITH Intents <- Identities, authority <- Authority,
                  newest <- granted
KeepsPromise == Promise!Spec
=============================================================================
