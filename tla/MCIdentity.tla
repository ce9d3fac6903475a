----------------------------- MODULE MCIdentity -----------------------------
(***************************************************************************)
(* Identity with a name for the staff and the number of a seat, which the  *)
(* second edition of .env makes the admin's, and one device with two IPs.  *)
(***************************************************************************)
EXTENDS Identity, TLC

CONSTANTS staff, seat, t1, t2, mac, ip1, ip2

MCFirst == [admin |-> staff, seats |-> {}, key |-> 1]
MCEditions ==
  {MCFirst, [admin |-> staff, seats |-> {seat}, key |-> 1],
   [admin |-> seat, seats |-> {seat}, key |-> 2]}
MCAddresses == {mac} \X {ip1, ip2}

Symmetry == Permutations(Tabs)
=============================================================================
