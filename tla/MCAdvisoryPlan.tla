---------------------------- MODULE MCAdvisoryPlan ----------------------------
(* A small instance of AdvisoryPlan: four readings, neighbours alike; plans  *)
(* that end within the refresh, soon after it and late. Beside it, what a     *)
(* plan is made of that no solver decides: the policy of the reserve, for     *)
(* days of four slots, and the states of DEYE, for plans of up to seven.      *)
EXTENDS AdvisoryPlan, TradingPolicy, PowerState

Four == 0..3
ShortToLong == {1, 5, 9}
NoneToThreeSlots == {0, 10, 30, 45}

(* The plan that is shown, whichever its slots and settings are, has DEYE off   *)
(* where the document lets it be, and there alone: AllAsDocumented, of the      *)
(* blocks that power_state.py:225-284 merges.                                *)
OffOnlyWhenIdle == plan # {} => AllAsDocumented

(* It opens the reserve of the house to export in no slot of the night, nor of   *)
(* a morning it does not trade in, and in one it trades in demands the reserve    *)
(* back: AllKept, of the slots that policy.py:53-88 blocks, in every morning that  *)
(* the plan shows from before its window's end to its deadline.                  *)
ReserveIsKept == plan # {} => AllKept
=============================================================================
