--------------------------- MODULE MCPlanRequests ---------------------------
(***************************************************************************)
(* PlanRequests with one customer, one plan and one number of minutes.     *)
(***************************************************************************)
EXTENDS PlanRequests, TLC

CONSTANTS u1, p1, c1, c2, d1, d2

Symmetry == Permutations(Creates) \cup Permutations(Decides)
=============================================================================
