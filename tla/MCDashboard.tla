---------------------------- MODULE MCDashboard -----------------------------
(***************************************************************************)
(* Dashboard with two accounts, one plan and two clicks under way.        *)
(***************************************************************************)
EXTENDS Dashboard

CONSTANTS u1, u2, p1, f1
=============================================================================
