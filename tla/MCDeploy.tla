------------------------------ MODULE MCDeploy ------------------------------
(***************************************************************************)
(* Deploy with two releases and two editions of .env, the second with      *)
(* fewer customer accounts.                                                *)
(***************************************************************************)
EXTENDS Deploy

Counts == <<2, 1>>
=============================================================================
