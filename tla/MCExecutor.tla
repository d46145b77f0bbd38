------------------------------- MODULE MCExecutor -------------------------------
(* Small instances of the two parts of the executor whose state outlives an  *)
(* evaluation: the runtime, with the plans a planner may publish, and the      *)
(* record of a command that a caller keeps. The shadow runtime is never given  *)
(* a record, so neither reads what the other writes and no order of their      *)
(* steps shows more than either does: each moves while the other is as it      *)
(* started.                                                                  *)
EXTENDS ExecutorRuntime, CommandLifecycle

Normal == [plan |-> 1, type |-> "NORMAL"]
Solax == [plan |-> 2, type |-> "SOLAX"]
Deye == [plan |-> 3, type |-> "DEYE"]
OneOfEach == {Normal, Solax, Deye}

ExecutorInit == Init /\ CommandInit

ExecutorNext ==
  \/ CommandInit /\ Next /\ UNCHANGED commandVars
  \/ Init /\ CommandNext /\ UNCHANGED vars

ExecutorSpec == ExecutorInit /\ [][ExecutorNext]_<<vars, commandVars>>
=============================================================================
