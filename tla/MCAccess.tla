------------------------------ MODULE MCAccess ------------------------------
(***************************************************************************)
(* Access on small instances.                                              *)
(***************************************************************************)
EXTENDS Access, TLC

CONSTANTS u1, u2, m1, m2, c1, c2

\* A purchase that raises the limit.
MCOneGrant == {[seconds |-> 2, devices |-> 2]}

\* Two purchases, of which one raises the limit or none does.
MCTwoGrants ==
  {[seconds |-> 1, devices |-> 1], [seconds |-> 1, devices |-> 2]}

Symmetry ==
  Permutations(Users) \cup Permutations(Macs) \cup Permutations(Calls)
=============================================================================
