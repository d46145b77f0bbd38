------------------------- MODULE MCPlannerPublication -------------------------
(* A small instance of PlannerPublication: one plan, published again and     *)
(* again, as the planner does while its inputs are calm.                     *)
EXTENDS PlannerPublication

OnePlan == {"p1"}
=============================================================================
