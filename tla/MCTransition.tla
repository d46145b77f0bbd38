----------------------------- MODULE MCTransition -----------------------------
(* Small instances of Transition: role vectors to start from, by how many  *)
(* writers they have.  All of them pass the executor's own role invariants *)
(* (executor/invariants.py:42).                                            *)
EXTENDS Transition

TwoWriters == {Vector("HOLD", "DISCHARGE")}
UpToTwoWriters == {Native, Vector("CHARGE", "OFF")} \cup TwoWriters
=============================================================================
