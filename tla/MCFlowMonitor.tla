---------------------------- MODULE MCFlowMonitor ----------------------------
EXTENDS FlowMonitor

Flow(g, s, d) == [grid |-> g, solax |-> s, deye |-> d, surplus |-> 4]

(* A violent import, transfers in both directions, one of them with an export,  *)
(* which is a crossing, and plain exports at the target and above the limit.    *)
SixFlows == {Flow(-3, 0, 0), Flow(-2, 3, -3), Flow(1, -3, 3), Flow(2, -3, 3),
             Flow(3, 0, 1), Flow(5, 0, 0)}
=============================================================================
