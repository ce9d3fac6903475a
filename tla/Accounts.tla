------------------------------ MODULE Accounts ------------------------------
(***************************************************************************)
(* What the captive portal promises about accounts and devices, with       *)
(* nothing of how: a device is online for at most one account, an account  *)
(* has at most as many devices online as its limit, only an account with   *)
(* time may bring a device online, time is only spent by accounts that had *)
(* a device online, and an account without time has none.                  *)
(***************************************************************************)
EXTENDS Naturals, FiniteSets

CONSTANTS Users, Macs, NoUser

VARIABLES balance, limit, owner

vars == <<balance, limit, owner>>

Devices(u) == {m \in Macs : owner[m] = u}

Init ==
  /\ balance = [u \in Users |-> 0]
  /\ limit = [u \in Users |-> 1]
  /\ owner = [m \in Macs |-> NoUser]

\* Time is bought: the balance grows and the limit never shrinks.
Credit(u) ==
  /\ balance'[u] > balance[u]
  /\ limit'[u] >= limit[u]
  /\ balance' = [balance EXCEPT ![u] = balance'[u]]
  /\ limit' = [limit EXCEPT ![u] = limit'[u]]
  /\ UNCHANGED owner

\* A device joins an account that has time and room for it, leaving the
\* account it was with.
Open(u, m) ==
  /\ owner[m] # u
  /\ balance[u] > 0
  /\ Cardinality(Devices(u)) < limit[u]
  /\ owner' = [owner EXCEPT ![m] = u]
  /\ UNCHANGED <<balance, limit>>

\* A kick.
Close(m) ==
  /\ owner[m] # NoUser
  /\ owner' = [owner EXCEPT ![m] = NoUser]
  /\ UNCHANGED <<balance, limit>>

\* Time is spent and devices go offline, all at once.
Settle ==
  /\ \A u \in Users : /\ balance'[u] <= balance[u]
                      /\ balance'[u] # balance[u] => Devices(u) # {}
                      /\ balance'[u] = 0 => \A m \in Macs : owner'[m] # u
  /\ \A m \in Macs : owner'[m] \in {owner[m], NoUser}
  /\ DOMAIN balance' = Users /\ DOMAIN owner' = Macs
  /\ UNCHANGED limit

Next ==
  \/ Settle
  \/ \E u \in Users : Credit(u) \/ \E m \in Macs : Open(u, m)
  \/ \E m \in Macs : Close(m)

Spec == Init /\ [][Next]_vars
=============================================================================
