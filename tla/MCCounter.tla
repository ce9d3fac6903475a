----------------------------- MODULE MCCounter ------------------------------
(***************************************************************************)
(* Counter with one customer whose page may be remounted while a POST is   *)
(* under way, and a dashboard with two refreshes under way beside another. *)
(***************************************************************************)
EXTENDS Counter

CONSTANTS u1, p1, p2, f1, f2, d1
=============================================================================
