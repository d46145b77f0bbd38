--------------------------- MODULE PlannerAuthority ---------------------------
(* What a planner promises a reader of its intent: at any moment at most one *)
(* intent has authority; it is granted at once, when none has, and is never  *)
(* granted again after it was withdrawn.                                     *)
EXTENDS Naturals

CONSTANT Intents      \* intents a publication may carry: records with pub

VARIABLES
  authority,   \* the intent that has authority, as a set of at most one
  newest       \* the publication last granted authority

Init == authority = {} /\ newest = 0

Grant(i) ==
  /\ authority = {} /\ i.pub > newest
  /\ authority' = {i} /\ newest' = i.pub

Withdraw == authority # {} /\ authority' = {} /\ UNCHANGED newest

Next == Withdraw \/ \E i \in Intents : Grant(i)

Spec == Init /\ [][Next]_<<authority, newest>>
=============================================================================
