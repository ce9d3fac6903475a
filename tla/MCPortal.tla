------------------------------ MODULE MCPortal ------------------------------
(***************************************************************************)
(* Portal with two customers and a slow network: two polls, a connect and  *)
(* a logout under way at once.                                             *)
(***************************************************************************)
EXTENDS Portal

CONSTANTS u1, u2, k1, l1
=============================================================================
