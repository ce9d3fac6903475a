----------------------------- MODULE MCVouchers -----------------------------
(***************************************************************************)
(* Vouchers with two batches over three codes, two redemptions in flight.  *)
(***************************************************************************)
EXTENDS Vouchers, TLC

CONSTANTS u1, u2, v1, v2, v3, c1, c2, b1, b2

Symmetry ==
  Permutations(Users) \cup Permutations(Codes) \cup Permutations(Calls)
    \cup Permutations(Batches)
=============================================================================
