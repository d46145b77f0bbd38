----------------------------- MODULE MCDeyeState -----------------------------
(* A small instance of DeyeState: Home Assistant passes on every last_changed, *)
(* that of the switch is missing, or only that of the switch is there.        *)
EXTENDS DeyeState

AllDated == {Keys, Keys \ {"switch"}, {"switch"}}
=============================================================================
