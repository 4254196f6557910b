--------------------------- MODULE MCExecuteDispatch ---------------------------
(* Instances of ExecuteDispatch for TLC: two plans and inline dispatches.   *)
EXTENDS ExecuteDispatch, TLC

CONSTANTS p1, p2

TwoPlans == {p1, p2}
Symmetry == Permutations(TwoPlans)
===============================================================================
