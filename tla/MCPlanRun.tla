----------------------------- MODULE MCPlanRun ------------------------------
(* Instances of PlanRun: two consumers, two callers and one apply.         *)
EXTENDS PlanRun

CONSTANTS w1, w2, c1, c2, a1
=============================================================================
