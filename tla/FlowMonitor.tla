----------------------------- MODULE FlowMonitor -----------------------------
(***************************************************************************)
(* What the Phase 3 application concludes from the flows of energy, sample    *)
(* by sample: _evaluate_flow_monitoring (app.py) with FlowDebouncer and       *)
(* RollingExportAverageTracker (flow.py), and FixedQuarterExportTracker       *)
(* (export_budget.py), which the control tick feeds with the same power.      *)
(*                                                                         *)
(* A sample is the power at the grid (export positive), of both batteries      *)
(* (charge positive) and of the surplus of PV over the house. The clock never   *)
(* goes back. Samples come at any pace, several in a tick, as the shadow tick   *)
(* and the flow tick share the trackers; telemetry may be invalid for a while.  *)
(***************************************************************************)
EXTENDS Integers, Sequences, FiniteSets, FiniteSetsExt

CONSTANTS
  Flows,                                        \* samples
  ImportWarning, ImportViolation, FlowWarning, FlowViolation,
  MinCharge, MinExport, Reserve,                \* FlowThresholds
  WarningPersistence, ViolationPersistence,
  Window,                                       \* export_average_window_s
  Target, NearLimit, Legal,                     \* limits of the export
  Quarter,                                      \* of an hour, in ticks
  MaxTime, MaxSamples                           \* bounds

ASSUME MonitorAssumption ==
  /\ Flows \subseteq [grid : Int, solax : Int, deye : Int, surplus : Int]
  /\ WarningPersistence \in Nat \ {0} /\ ViolationPersistence \in Nat \ {0}
  /\ Window \in Nat \ {0} /\ Quarter \in Nat \ {0}
  /\ FlowWarning <= FlowViolation /\ ImportWarning <= ImportViolation
  /\ Target \in Nat /\ Legal \in Int
  /\ Target <= Legal /\ NearLimit <= Legal
  /\ MaxTime \in Nat /\ MaxSamples \in Nat

VARIABLES
  now,
  since,       \* FlowDebouncer: per condition, when it was first found
  confirmed,   \* FlowDebouncer: conditions counted since
  count,       \* FlowDebouncer: how often each was confirmed
  samples,     \* RollingExportAverageTracker.samples
  fixed,       \* FixedQuarterExportTracker: start, used, at, export
  shown,       \* the last assessment
  log          \* history: all samples

flowVars == <<now, since, confirmed, count, samples, fixed, shown, log>>

Never == -1
Positive(x) == IF x > 0 THEN x ELSE 0
Smaller(x, y) == IF x < y THEN x ELSE y
Larger(x, y) == IF x < y THEN y ELSE x

-----------------------------------------------------------------------------
(* assess_flow_snapshot: the state of a sample.                             *)
Import(r) == Positive(-r.grid)
Export(r) == Positive(r.grid)

(* One battery discharges beyond the limit, and the other charges.            *)
Feeds(from, to, limit) == from < -limit /\ to > limit

Crosses(r) ==
  /\ Export(r) > MinExport
  /\ \/ Feeds(r.deye, r.solax, FlowViolation)
     \/ Feeds(r.solax, r.deye, FlowViolation)

Surplus(r) ==
  /\ r.deye > MinCharge /\ Positive(r.surplus) > r.deye + Reserve
  /\ Import(r) <= ImportWarning /\ r.solax >= -FlowWarning

FlowState(r) ==
  IF Crosses(r) THEN "CROSS_CHARGING"
  ELSE IF Feeds(r.solax, r.deye, FlowWarning) THEN "SOLAX_TO_DEYE"
  ELSE IF Feeds(r.deye, r.solax, FlowWarning) THEN "DEYE_TO_SOLAX"
  ELSE IF Surplus(r) THEN "LIKELY_PV_SURPLUS_CHARGE"
  ELSE IF Export(r) > MinExport THEN "GRID_EXPORT"
  ELSE IF Import(r) > ImportWarning THEN "GRID_IMPORT"
  ELSE "NORMAL"

-----------------------------------------------------------------------------
(* FlowDebouncer.assess.                                                    *)
Transfers == {"SOLAX_TO_DEYE", "DEYE_TO_SOLAX", "CROSS_CHARGING"}
Conditions == Transfers \cup {"IMPORT_WARNING", "IMPORT_VIOLATION"}

Finds(r) ==
  {c \in Transfers : FlowState(r) = c}
    \cup (IF Import(r) > ImportWarning THEN {"IMPORT_WARNING"} ELSE {})
    \cup (IF Import(r) > ImportViolation THEN {"IMPORT_VIOLATION"} ELSE {})

Findings == [r \in Flows |-> Finds(r)]
Found(c, r) == c \in Findings[r]

Persistence(c) ==
  IF c = "IMPORT_WARNING" THEN WarningPersistence ELSE ViolationPersistence

Since_Sticky(c, r) ==                 \* mutated: the clock outlives a calm sample
  IF since[c] = Never /\ Found(c, r) THEN now ELSE since[c]

Since(c, r) ==
  IF ~Found(c, r) THEN Never ELSE IF since[c] = Never THEN now ELSE since[c]

Lasting(r) ==
  {c \in Conditions : Since(c, r) # Never /\ now - Since(c, r) >= Persistence(c)}

Confirmed_Again(r) == {}              \* mutated: counted at every evaluation

Confirmed(r) == Lasting(r)

Debounce(r) ==
  /\ since' = [c \in Conditions |-> Since(c, r)]
  /\ confirmed' = Confirmed(r)
  /\ count' = [c \in Conditions |->
                 count[c] + IF c \in Lasting(r) \ confirmed THEN 1 ELSE 0]

-----------------------------------------------------------------------------
(* RollingExportAverageTracker. An average is an energy and the time that it   *)
(* covers.                                                                  *)
Kept_Short(s) ==                      \* mutated: nothing from before the window
  SelectSeq(s, LAMBDA x : x.at >= now - Window)

(* _drop_samples_before: one sample at or before the start of the window stays. *)
Kept(s) ==
  LET old == {i \in DOMAIN s : s[i].at <= now - Window}
  IN IF old = {} THEN s ELSE SubSeq(s, Max(old), Len(s))

Average(s) ==
  LET start == Larger(s[1].at, now - Window)
      end(i) == IF i < Len(s) THEN s[i + 1].at ELSE now
      energy(i) == s[i].export * Positive(end(i) - Larger(s[i].at, start))
  IN [energy |-> MapThenSumSet(energy, DOMAIN s), covered |-> now - start]

(* assess_export_limit, the average being the energy over what it covers.     *)
LimitState(average, r) ==
  IF average.energy > Legal * average.covered
  THEN "EXPORT_AVERAGE_LIMIT_VIOLATION"
  ELSE IF average.covered > 0 /\ average.energy >= NearLimit * average.covered
  THEN "EXPORT_AVERAGE_NEAR_LIMIT"
  ELSE IF Export(r) > Target THEN "EXPORT_INSTANT_ABOVE_TARGET"
  ELSE "EXPORT_WITHIN_TARGET"

-----------------------------------------------------------------------------
(* FixedQuarterExportTracker.                                               *)
QuarterStart(t) == t - (t % Quarter)

(* Of a sample of an earlier quarter, the part since the quarter began counts. *)
Used_Whole ==                         \* mutated: all of its time counts
  (IF fixed.start = QuarterStart(now) THEN fixed.used ELSE 0)
    + fixed.export * (now - fixed.at)

Used ==
  IF fixed.at = Never THEN 0
  ELSE IF fixed.start = QuarterStart(now)
  THEN fixed.used + fixed.export * (now - fixed.at)
  ELSE fixed.export * (now - QuarterStart(now))

Budget_Uncapped(quarter) ==            \* mutated: of a quarter seen in part
  LET remaining == Positive(quarter.start + Quarter - now)
  IN IF remaining = 0 THEN 0
     ELSE Positive(Target * Quarter - quarter.used) \div remaining

(* budget: the power left for the rest of the quarter.                       *)
Budget(quarter) ==
  LET remaining == Positive(quarter.start + Quarter - now)
  IN IF remaining = 0 THEN 0
     ELSE Smaller(Positive(Target * Quarter - quarter.used) \div remaining, Target)

-----------------------------------------------------------------------------
Sample(r) ==
  /\ Len(log) < MaxSamples
  /\ log' = Append(log, [at |-> now, export |-> Export(r), flow |-> r])
  /\ Debounce(r)
  /\ samples' = Kept(Append(samples, [at |-> now, export |-> Export(r)]))
  /\ fixed' = [start |-> QuarterStart(now), used |-> Used, at |-> now,
               export |-> Export(r)]
  /\ LET average == Average(samples')
     IN shown' = [valid |-> TRUE, state |-> FlowState(r),
                  violations |-> Lasting(r) \ {"IMPORT_WARNING"},
                  warnings |-> Lasting(r) \cap {"IMPORT_WARNING"},
                  average |-> average, limit |-> LimitState(average, r),
                  budget |-> Budget(fixed')]
  /\ UNCHANGED now

(* Invalid telemetry: nothing is sampled, and nothing is forgotten.          *)
Invalid ==
  /\ shown' = [shown EXCEPT !.valid = FALSE, !.state = "UNKNOWN",
                           !.violations = {}, !.warnings = {},
                           !.limit = "UNKNOWN", !.budget = Budget(fixed)]
  /\ UNCHANGED <<now, since, confirmed, count, samples, fixed, log>>

Tick ==
  /\ now < MaxTime /\ now' = now + 1
  /\ UNCHANGED <<since, confirmed, count, samples, fixed, shown, log>>

FlowInit ==
  /\ now = 0
  /\ since = [c \in Conditions |-> Never]
  /\ confirmed = {} /\ count = [c \in Conditions |-> 0]
  /\ samples = <<>> /\ log = <<>>
  /\ fixed = [start |-> 0, used |-> 0, at |-> Never, export |-> 0]
  /\ shown = [valid |-> FALSE, state |-> "UNKNOWN", violations |-> {},
              warnings |-> {}, average |-> [energy |-> 0, covered |-> 0],
              limit |-> "UNKNOWN", budget |-> Target]

FlowNext == (\E r \in Flows : Sample(r)) \/ Invalid \/ Tick

FlowSpec == FlowInit /\ [][FlowNext]_flowVars
-----------------------------------------------------------------------------
(* The export that the samples tell of: that of the last one, until the next.  *)
ExportAt(t) ==
  LET before == {i \in DOMAIN log : log[i].at <= t}
  IN IF before = {} THEN 0 ELSE log[Max(before)].export

EnergySince(t) == MapThenSumSet(ExportAt, t..(now - 1))

(* Of the conditions, those that every sample of l has found since one that is    *)
(* as much older than the last as their persistence.                           *)
Held(l) ==
  {c \in Conditions :
     \E j \in DOMAIN l : /\ l[Len(l)].at - l[j].at >= Persistence(c)
                        /\ \A k \in j..Len(l) : Found(c, l[k].flow)}

FlowTypeOK ==
  /\ now \in 0..MaxTime /\ Len(log) <= MaxSamples
  /\ \A c \in Conditions : since[c] \in {Never} \cup 0..now
  /\ \A c \in Conditions : count[c] \in 0..Len(log)
  /\ confirmed \subseteq Conditions /\ shown.violations \subseteq Conditions
  /\ samples # <<>> => samples[Len(samples)].at = fixed.at
  /\ \A i \in 2..Len(samples) : samples[i - 1].at <= samples[i].at
  /\ shown.budget \in 0..Target

(* The average is that of the export over the window, or over the time since     *)
(* the first sample, whatever has been dropped (flow.py:96-140); so the legal    *)
(* limit is told to be exceeded when it is.                                    *)
AverageIsExact ==
  shown.valid /\ samples[Len(samples)].at = now =>
    LET start == Larger(log[1].at, now - Window)
    IN /\ shown.average = [energy |-> EnergySince(start), covered |-> now - start]
       /\ shown.limit = "EXPORT_AVERAGE_LIMIT_VIOLATION" <=>
            EnergySince(start) > Legal * (now - start)

(* What a quarter has used is what was exported since it began, or since the     *)
(* first sample; exporting the budget for its rest does not take it past the     *)
(* operational target (export_budget.py:36-78).                                *)
QuarterIsExact ==
  shown.valid /\ fixed.at = now =>
    LET exported == EnergySince(QuarterStart(now))
    IN /\ fixed.used = exported
       /\ exported + shown.budget * (QuarterStart(now) + Quarter - now)
            <= Larger(exported, Target * Quarter)

(* The figures that are shown are those of the export itself.                *)
FiguresAreExact == FlowTypeOK /\ AverageIsExact /\ QuarterIsExact

(* A violation is reported when, and as long as, its condition has been found    *)
(* by every sample for its persistence; and it is counted once each time, not     *)
(* again by the second tick that samples the same flow, nor after telemetry was   *)
(* invalid (flow.py:165-240).                                                  *)
ViolationsAreTold ==
  [][ /\ shown'.valid => shown'.warnings \cup shown'.violations = Held(log')
      /\ \A c \in Conditions :
           count'[c] = count[c] + IF c \in Held(log') \ Held(log) THEN 1 ELSE 0
    ]_flowVars
=============================================================================
