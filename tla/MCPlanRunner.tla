----------------------------- MODULE MCPlanRunner -----------------------------
(* Instances of PlanRunner for TLC, and its refinement of HandoffChain.      *)
EXTENDS PlanRunner, TLC

\* Plan order against dependency order: steps 1 and 3 both wait for step 2,
\* and there is a gate after each of the first two
FanSteps  == (1 :> 2) @@ (2 :> 0) @@ (3 :> 2)
FanGates  == (1 :> 1) @@ (2 :> 2)

\* Two steps in a row, a gate after each
LineSteps == (1 :> 0) @@ (2 :> 1)
LineGates == (1 :> 1) @@ (2 :> 2)
===============================================================================
