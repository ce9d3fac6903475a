------------------------------ MODULE Vouchers ------------------------------
(***************************************************************************)
(* VouchersService: admins generate batches of codes, customers redeem     *)
(* them.  Requests run concurrently; a redemption is one transaction that  *)
(* locks the voucher's row, a batch is a loop of INSERTs that skip codes   *)
(* already in the table.                                                   *)
(***************************************************************************)
EXTENDS Naturals, FiniteSets

CONSTANTS
  Codes,      \* what generateCode can return
  Users,
  Calls,      \* redeem requests that can be in flight
  Batches,    \* generate requests
  Count,      \* dto.count, the vouchers a batch must have
  Worth,      \* duration_minutes * 60
  MaxClock    \* bound: the last value of the clock

ASSUME VouchersAssumption ==
  /\ Count \in Nat \ {0} /\ Worth \in Nat \ {0} /\ MaxClock \in Nat
  /\ IsFiniteSet(Codes)

VARIABLES
  clock,
  vouchers,   \* the vouchers table, by code
  balance,    \* users.remaining_seconds, as far as vouchers credit it
  redeem,     \* each redeem request in flight
  batch       \* each generate request: the codes it has inserted so far

vars == <<clock, vouchers, balance, redeem, batch>>

Missing == [status |-> "missing"]
Never == MaxClock + 1   \* expires_at IS NULL

Voucher ==
  [status : {"unused", "redeemed", "expired"}, expires : 0..Never,
   batch : Batches]

Idle == [pc |-> "idle"]
Redeem == [pc : {"sent", "locked"}, user : Users, code : Codes]

TypeOK ==
  /\ clock \in 0..MaxClock
  /\ vouchers \in [Codes -> Voucher \cup {Missing}]
  /\ balance \in [Users -> Nat]
  /\ redeem \in [Calls -> Redeem \cup {Idle}]
  /\ batch \in [Batches -> [codes : SUBSET Codes, expires : 0..Never,
                            pc : {"new", "filling", "done", "failed"}]]

Init ==
  /\ clock = 0
  /\ vouchers = [v \in Codes |-> Missing]
  /\ balance = [u \in Users |-> 0]
  /\ redeem = [c \in Calls |-> Idle]
  /\ batch = [b \in Batches |-> [codes |-> {}, expires |-> 0, pc |-> "new"]]

Unlocked(v) == \A c \in Calls : redeem[c].pc = "locked" => redeem[c].code # v

-----------------------------------------------------------------------------
Advance ==
  /\ clock < MaxClock
  /\ clock' = clock + 1
  /\ UNCHANGED <<vouchers, balance, redeem, batch>>

\* An admin asks for Count codes, with or without an expiry.
GenerateStart(b) ==
  /\ batch[b].pc = "new"
  /\ \E e \in 0..Never :
       batch' = [batch EXCEPT ![b].expires = e, ![b].pc = "filling"]
  /\ UNCHANGED <<clock, vouchers, balance, redeem>>

\* Mutant: RETURNING forgotten, the drawn codes are taken for inserted ones.
Inserted_Mutant(drawn) == drawn

\* ON CONFLICT (code) DO NOTHING RETURNING code
Inserted(drawn) == {v \in drawn : vouchers[v] = Missing}

\* One round: draw as many codes as are missing (a code drawn twice counts
\* once), insert those that are new, and stop when there are enough.
GenerateRound(b) ==
  /\ batch[b].pc = "filling"
  /\ \E drawn \in SUBSET Codes :
       /\ Cardinality(drawn) \in 1..(Count - Cardinality(batch[b].codes))
       /\ LET codes == batch[b].codes \cup Inserted(drawn) IN
          /\ vouchers' = [v \in Codes |->
               IF v \in drawn /\ vouchers[v] = Missing
                 THEN [status |-> "unused", expires |-> batch[b].expires,
                       batch |-> b]
                 ELSE vouchers[v]]
          /\ batch' = [batch EXCEPT ![b].codes = codes,
               ![b].pc = IF Cardinality(codes) < Count THEN "filling" ELSE "done"]
  /\ UNCHANGED <<clock, balance, redeem>>

\* An INSERT fails or the backend dies: what earlier rounds inserted stays, and
\* the admin is shown nothing.
GenerateAbort(b) ==
  /\ batch[b].pc = "filling"
  /\ batch' = [batch EXCEPT ![b].pc = "failed"]
  /\ UNCHANGED <<clock, vouchers, balance, redeem>>

\* A customer types a code, of the table or not.
RedeemStart(c, u, v) ==
  /\ redeem[c] = Idle
  /\ redeem' = [redeem EXCEPT ![c] = [pc |-> "sent", user |-> u, code |-> v]]
  /\ UNCHANGED <<clock, vouchers, balance, batch>>

Overdue(v) == vouchers[v].expires < clock

\* Mutant: the row is read without FOR UPDATE.
RedeemMayLock_Mutant(c) == redeem[c].pc = "sent"

\* SELECT ... FOR UPDATE returns once no other redemption holds the row.
RedeemMayLock(c) == redeem[c].pc = "sent" /\ Unlocked(redeem[c].code)

\* The voucher can be redeemed.
RedeemLock(c) ==
  LET v == redeem[c].code IN
  /\ RedeemMayLock(c)
  /\ vouchers[v].status = "unused"
  /\ ~Overdue(v)
  /\ redeem' = [redeem EXCEPT ![c].pc = "locked"]
  /\ UNCHANGED <<clock, vouchers, balance, batch>>

\* Unknown, redeemed or expired: the handler throws.
RedeemRefuse(c) ==
  LET v == redeem[c].code IN
  /\ RedeemMayLock(c)
  /\ vouchers[v].status # "unused"
  /\ redeem' = [redeem EXCEPT ![c] = Idle]
  /\ UNCHANGED <<clock, vouchers, balance, batch>>

\* Past its expiry: the row is set to 'expired', then the handler throws inside
\* the transaction, which rolls the row back.
RedeemOverdue(c) ==
  LET v == redeem[c].code IN
  /\ RedeemMayLock(c)
  /\ vouchers[v].status = "unused"
  /\ Overdue(v)
  /\ redeem' = [redeem EXCEPT ![c] = Idle]
  /\ UNCHANGED <<clock, vouchers, balance, batch>>

\* Mutant: a status the table's CHECK does not know.
Taken_Mutant(row) == [row EXCEPT !.status = "used"]
Taken(row) == [row EXCEPT !.status = "redeemed"]

\* Both UPDATEs and COMMIT.
RedeemCommit(c) ==
  LET v == redeem[c].code IN
  /\ redeem[c].pc = "locked"
  /\ vouchers' = [vouchers EXCEPT ![v] = Taken(@)]
  /\ balance' = [balance EXCEPT ![redeem[c].user] = @ + Worth]
  /\ redeem' = [redeem EXCEPT ![c] = Idle]
  /\ UNCHANGED <<clock, batch>>

\* A statement fails or the backend dies: ROLLBACK, no answer.
RedeemAbort(c) ==
  /\ redeem[c] # Idle
  /\ redeem' = [redeem EXCEPT ![c] = Idle]
  /\ UNCHANGED <<clock, vouchers, balance, batch>>

Next ==
  \/ Advance
  \/ \E b \in Batches : GenerateStart(b) \/ GenerateRound(b) \/ GenerateAbort(b)
  \/ \E c \in Calls :
       \/ \E u \in Users, v \in Codes : RedeemStart(c, u, v)
       \/ RedeemLock(c) \/ RedeemRefuse(c) \/ RedeemOverdue(c)
       \/ RedeemCommit(c) \/ RedeemAbort(c)

Spec == Init /\ [][Next]_vars

-----------------------------------------------------------------------------
Redeemed == {v \in Codes : vouchers[v].status = "redeemed"}

Payout ==
  INSTANCE PayOnce WITH Entitlements <- Codes, paid <- Redeemed, Least <- Worth

\* "two devices racing on the same code can never both credit": redemptions in
\* every interleaving pay each voucher once and only then change a balance.
PaysOnce == Payout!Spec

\* The codes a finished batch shows the admin are Count vouchers of its own:
\* when two batches draw the same code, only one of them sells it.
BatchesAreComplete ==
  \A b \in Batches : batch[b].pc = "done" =>
    /\ Cardinality(batch[b].codes) = Count
    /\ \A v \in batch[b].codes : vouchers[v] # Missing /\ vouchers[v].batch = b
=============================================================================
