------------------------------ MODULE PayOnce ------------------------------
(***************************************************************************)
(* What vouchers and plan requests promise: each is paid out at most once, *)
(* to one account, and an account's time grows by nothing else.            *)
(***************************************************************************)
EXTENDS Naturals

CONSTANTS
  Users, Entitlements,
  Least    \* the least a payment adds to a balance

VARIABLES balance, paid

Init ==
  /\ balance = [u \in Users |-> 0]
  /\ paid = {}

\* One entitlement is paid, into one balance.
Pay(e, u) ==
  /\ e \notin paid
  /\ paid' = paid \cup {e}
  /\ balance'[u] >= balance[u] + Least
  /\ balance' = [balance EXCEPT ![u] = balance'[u]]

Next == \E e \in Entitlements, u \in Users : Pay(e, u)

Spec == Init /\ [][Next]_<<balance, paid>>
=============================================================================
