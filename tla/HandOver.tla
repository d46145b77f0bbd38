------------------------------- MODULE HandOver -------------------------------
(***************************************************************************)
(* What one transition of the shadow executor promises about the two       *)
(* inverters, whatever its phases and evidence: the batteries it may write *)
(* to are released, all at once, before any of them is granted again, and  *)
(* only a battery granted after the release is driven by a target.         *)
(***************************************************************************)
CONSTANT Batteries

VARIABLES
  writers,     \* the batteries whose control the executor accounts as owned
  driven,      \* those with a charge or discharge target
  released     \* no ownership from before this transition is left

vars == <<writers, driven, released>>

Init ==
  /\ writers \in SUBSET Batteries
  /\ driven \in SUBSET writers
  /\ released = (writers = {})

Release ==
  /\ ~released
  /\ writers' = {} /\ driven' = {} /\ released' = TRUE

Grant ==
  /\ released /\ writers = {}
  /\ writers' \in SUBSET Batteries
  /\ UNCHANGED <<driven, released>>

Drive ==
  /\ released /\ driven = {}
  /\ \E b \in writers : driven' = {b}
  /\ UNCHANGED <<writers, released>>

Next == Release \/ Grant \/ Drive

Spec == Init /\ [][Next]_vars
=============================================================================
