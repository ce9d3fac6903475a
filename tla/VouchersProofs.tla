--------------------------- MODULE VouchersProofs ---------------------------
(***************************************************************************)
(* Theorems about Vouchers, for every set of codes, customers, redemptions *)
(* and batches, whatever the size of a batch and the worth of a code.      *)
(***************************************************************************)
EXTENDS Vouchers, FiniteSetTheorems, TLAPS

\* A redemption that has its lock holds an unused voucher, and holds it alone.
LocksHold ==
  \A c \in Calls : redeem[c].pc = "locked" =>
    /\ vouchers[redeem[c].code].status = "unused"
    /\ \A d \in Calls : redeem[d].pc = "locked" /\ redeem[d].code = redeem[c].code
                          => d = c

\* The codes a batch has so far are vouchers of its own, and not too many.
BatchesOwn ==
  \A b \in Batches :
    /\ \A v \in batch[b].codes : vouchers[v] # Missing /\ vouchers[v].batch = b
    /\ Cardinality(batch[b].codes) <= Count
    /\ batch[b].pc = "filling" => Cardinality(batch[b].codes) < Count
    /\ batch[b].pc = "new" => batch[b].codes = {}
    /\ batch[b].pc = "done" => Cardinality(batch[b].codes) = Count

IInv == TypeOK /\ LocksHold /\ BatchesOwn

-----------------------------------------------------------------------------
\* A set of codes is finite.
LEMMA CodesFinite ==
  ASSUME NEW S \in SUBSET Codes
  PROVE  IsFiniteSet(S) /\ Cardinality(S) \in Nat
BY VouchersAssumption, FS_Subset, FS_CardinalityType

\* A row of the table has a status; a missing one is not any of them.
LEMMA RowStatus ==
  ASSUME TypeOK, NEW v \in Codes
  PROVE  /\ vouchers[v] = Missing <=> vouchers[v].status = "missing"
         /\ vouchers[v] # Missing => vouchers[v] \in Voucher
BY DEF TypeOK, Missing, Voucher

\* A redemption in flight is about an account and a code.
LEMMA InFlight ==
  ASSUME TypeOK, NEW c \in Calls, redeem[c] # Idle
  PROVE  redeem[c] \in Redeem /\ redeem[c].user \in Users /\ redeem[c].code \in Codes
BY DEF TypeOK, Redeem

\* The invariant holds initially.
LEMMA InitStep == Init => IInv
<1> SUFFICES ASSUME Init
             PROVE  IInv
  OBVIOUS
<1>1. TypeOK
  BY VouchersAssumption DEF Init, TypeOK, Never
<1>2. LocksHold
  BY DEF Init, LocksHold, Idle
<1>3. BatchesOwn
  <2>1. \A b \in Batches : batch[b].codes = {} /\ batch[b].pc = "new"
    BY DEF Init
  <2>2. Cardinality({}) = 0
    BY FS_EmptySet
  <2>3. \A b \in Batches : Cardinality(batch[b].codes) = 0
    BY <2>1, <2>2
  <2> QED BY <2>1, <2>3, VouchersAssumption DEF BatchesOwn
<1> QED BY <1>1, <1>2, <1>3 DEF IInv

\* What a round inserts, and what the batch has then.
LEMMA RoundStep ==
  ASSUME IInv, NEW b \in Batches, GenerateRound(b)
  PROVE  IInv'
<1>1. PICK drawn \in SUBSET Codes :
        /\ Cardinality(drawn) \in 1..(Count - Cardinality(batch[b].codes))
        /\ vouchers' = [v \in Codes |->
             IF v \in drawn /\ vouchers[v] = Missing
               THEN [status |-> "unused", expires |-> batch[b].expires, batch |-> b]
               ELSE vouchers[v]]
        /\ batch' = [batch EXCEPT
             ![b].codes = batch[b].codes \cup Inserted(drawn),
             ![b].pc = IF Cardinality(batch[b].codes \cup Inserted(drawn)) < Count
                         THEN "filling" ELSE "done"]
  BY DEF GenerateRound
<1> DEFINE codes == batch[b].codes \cup Inserted(drawn)
<1>2. /\ batch[b] \in [codes : SUBSET Codes, expires : 0..Never,
                       pc : {"new", "filling", "done", "failed"}]
      /\ UNCHANGED <<clock, balance, redeem>> /\ batch[b].pc = "filling"
  BY DEF IInv, TypeOK, GenerateRound
<1>3. codes \in SUBSET Codes /\ Inserted(drawn) \subseteq drawn
  BY <1>2 DEF Inserted
<1>4. /\ batch'[b].codes = codes /\ batch'[b].expires = batch[b].expires
      /\ batch'[b].pc = IF Cardinality(codes) < Count THEN "filling" ELSE "done"
      /\ batch' \in [Batches -> [codes : SUBSET Codes, expires : 0..Never,
                                 pc : {"new", "filling", "done", "failed"}]]
      /\ \A a \in Batches : a # b => batch'[a] = batch[a]
  BY <1>1, <1>2, <1>3 DEF IInv, TypeOK
<1>5. Cardinality(codes) <= Count
  <2>1. /\ Cardinality(codes) \in Nat /\ Cardinality(drawn) \in Nat
        /\ Cardinality(batch[b].codes) \in Nat /\ Cardinality(Inserted(drawn)) \in Nat
        /\ IsFiniteSet(drawn) /\ IsFiniteSet(batch[b].codes)
        /\ IsFiniteSet(Inserted(drawn))
    BY <1>2, <1>3, CodesFinite
  <2>2. Cardinality(Inserted(drawn)) <= Cardinality(drawn)
    BY <1>3, <2>1, FS_Subset
  <2>3. Cardinality(codes)
          = Cardinality(batch[b].codes) + Cardinality(Inserted(drawn))
              - Cardinality(batch[b].codes \cap Inserted(drawn))
    BY <2>1, FS_Union
  <2>4. Cardinality(batch[b].codes \cap Inserted(drawn)) \in Nat
    BY <1>2, CodesFinite
  <2> QED BY <1>1, <2>1, <2>2, <2>3, <2>4, VouchersAssumption
<1>6. TypeOK'
  <2>1. vouchers' \in [Codes -> Voucher \cup {Missing}]
    BY <1>1, <1>2 DEF IInv, TypeOK, Voucher
  <2> QED BY <1>2, <1>4, <2>1 DEF IInv, TypeOK
<1>7. LocksHold'
  <2>1. \A v \in Codes : vouchers[v].status = "unused" => vouchers'[v] = vouchers[v]
    BY <1>1 DEF Missing
  <2>2. \A c \in Calls : redeem[c].pc = "locked" => redeem[c].code \in Codes
    BY InFlight DEF IInv, Idle
  <2> QED BY <1>2, <2>1, <2>2 DEF IInv, LocksHold
<1>8. BatchesOwn'
  <2>1. \A v \in Codes : vouchers[v] # Missing => vouchers'[v] = vouchers[v]
    BY <1>1
  <2>2. \A a \in Batches : batch[a].codes \subseteq Codes
    BY DEF IInv, TypeOK
  <2>3. \A v \in Inserted(drawn) : vouchers'[v] # Missing /\ vouchers'[v].batch = b
    BY <1>1 DEF Inserted, Missing
  <2>4. \A v \in codes : vouchers'[v] # Missing /\ vouchers'[v].batch = b
    BY <2>1, <2>2, <2>3 DEF IInv, BatchesOwn
  <2>5. Cardinality(codes) \in Nat
    BY <1>3, CodesFinite
  <2> HIDE DEF codes
  <2>6. /\ Cardinality(codes) <= Count
        /\ batch'[b].pc = "filling" => Cardinality(codes) < Count
        /\ batch'[b].pc # "new"
        /\ batch'[b].pc = "done" => Cardinality(codes) = Count
    BY <1>4, <1>5, <2>5, VouchersAssumption
  <2>7. ASSUME NEW a \in Batches, a # b
        PROVE  \A v \in batch'[a].codes : vouchers'[v] # Missing /\ vouchers'[v].batch = a
    BY <1>4, <2>1, <2>2, <2>7 DEF IInv, BatchesOwn
  <2> QED BY <1>4, <2>4, <2>6, <2>7 DEF IInv, BatchesOwn
<1> QED BY <1>6, <1>7, <1>8 DEF IInv

\* The UPDATEs of a redemption leave every other voucher, and the batch of its
\* own, as they are.
LEMMA CommitStep ==
  ASSUME IInv, NEW c \in Calls, RedeemCommit(c)
  PROVE  IInv'
<1> DEFINE v == redeem[c].code
           u == redeem[c].user
<1>1. /\ redeem[c].pc = "locked" /\ UNCHANGED <<clock, batch>>
      /\ vouchers' = [vouchers EXCEPT ![v] = Taken(vouchers[v])]
      /\ balance' = [balance EXCEPT ![u] = balance[u] + Worth]
      /\ redeem' = [redeem EXCEPT ![c] = Idle]
  BY DEF RedeemCommit
<1>2. v \in Codes /\ u \in Users
  BY <1>1, InFlight DEF IInv, Idle
<1>3. vouchers[v].status = "unused" /\ vouchers[v] \in Voucher
  BY <1>1, <1>2, RowStatus DEF IInv, LocksHold
<1>4. /\ Taken(vouchers[v]) \in Voucher /\ Taken(vouchers[v]) # Missing
      /\ Taken(vouchers[v]).batch = vouchers[v].batch
  BY <1>3 DEF Taken, Voucher, Missing
<1>5. TypeOK'
  <2>1. balance[u] + Worth \in Nat
    BY <1>2, VouchersAssumption DEF IInv, TypeOK
  <2> QED BY <1>1, <1>2, <1>4, <2>1 DEF IInv, TypeOK
<1>6. LocksHold'
  <2> SUFFICES ASSUME NEW d \in Calls, redeem'[d].pc = "locked"
               PROVE  /\ vouchers'[redeem'[d].code].status = "unused"
                      /\ \A e \in Calls : redeem'[e].pc = "locked"
                           /\ redeem'[e].code = redeem'[d].code => e = d
    BY DEF LocksHold
  <2>1. \A e \in Calls : redeem'[e].pc = "locked" => e # c /\ redeem'[e] = redeem[e]
    BY <1>1 DEF IInv, TypeOK, Idle
  <2>2. redeem[d].code # v
    BY <1>1, <2>1 DEF IInv, LocksHold
  <2>3. redeem[d].code \in Codes
    BY <2>1, InFlight DEF IInv, Idle
  <2>4. vouchers'[redeem[d].code] = vouchers[redeem[d].code]
    BY <1>1, <2>2, <2>3 DEF IInv, TypeOK
  <2> QED BY <2>1, <2>4 DEF IInv, LocksHold
<1>7. BatchesOwn'
  <2>1. \A w \in Codes : vouchers[w] # Missing =>
          vouchers'[w] # Missing /\ vouchers'[w].batch = vouchers[w].batch
    BY <1>1, <1>4 DEF IInv, TypeOK
  <2>2. \A a \in Batches : batch[a].codes \subseteq Codes
    BY DEF IInv, TypeOK
  <2> QED BY <1>1, <2>1, <2>2 DEF IInv, BatchesOwn
<1> QED BY <1>5, <1>6, <1>7 DEF IInv

\* Every step keeps the invariant.
LEMMA InductiveStep == IInv /\ [Next]_vars => IInv'
<1> SUFFICES ASSUME IInv, [Next]_vars
             PROVE  IInv'
  OBVIOUS
<1>1. CASE UNCHANGED vars
  BY <1>1 DEF vars, IInv, TypeOK, LocksHold, BatchesOwn
<1>2. CASE Advance
  <2>1. clock' \in 0..MaxClock
    BY <1>2, VouchersAssumption DEF Advance, IInv, TypeOK
  <2> QED BY <1>2, <2>1 DEF Advance, IInv, TypeOK, LocksHold, BatchesOwn
<1>3. ASSUME NEW b \in Batches, GenerateStart(b) \/ GenerateAbort(b)
      PROVE  IInv'
  <2>1. /\ UNCHANGED <<clock, vouchers, balance, redeem>>
        /\ batch' \in [Batches -> [codes : SUBSET Codes, expires : 0..Never,
                                   pc : {"new", "filling", "done", "failed"}]]
        /\ \A a \in Batches : a # b => batch'[a] = batch[a]
        /\ batch'[b].codes = batch[b].codes
        /\ \/ batch[b].pc = "new" /\ batch'[b].pc = "filling"
           \/ batch'[b].pc = "failed"
    <3>1. batch[b] \in [codes : SUBSET Codes, expires : 0..Never,
                         pc : {"new", "filling", "done", "failed"}]
      BY DEF IInv, TypeOK
    <3>2. CASE GenerateStart(b)
      <4>1. PICK e \in 0..Never :
              batch' = [batch EXCEPT ![b].expires = e, ![b].pc = "filling"]
        BY <3>2 DEF GenerateStart
      <4> QED BY <3>1, <3>2, <4>1 DEF GenerateStart, IInv, TypeOK
    <3>3. CASE GenerateAbort(b)
      BY <3>1, <3>3 DEF GenerateAbort, IInv, TypeOK
    <3> QED BY <1>3, <3>2, <3>3
  <2>2. TypeOK' /\ LocksHold'
    BY <2>1 DEF IInv, TypeOK, LocksHold
  <2>3. batch[b].pc = "new" => Cardinality(batch[b].codes) = 0
    BY FS_EmptySet DEF IInv, BatchesOwn
  <2>4. BatchesOwn'
    BY <2>1, <2>3, VouchersAssumption DEF IInv, BatchesOwn
  <2> QED BY <2>2, <2>4 DEF IInv
<1>4. ASSUME NEW b \in Batches, GenerateRound(b)
      PROVE  IInv'
  BY <1>4, RoundStep
<1>5. ASSUME NEW c \in Calls, NEW u \in Users, NEW v \in Codes, RedeemStart(c, u, v)
      PROVE  IInv'
  <2>1. /\ UNCHANGED <<clock, vouchers, balance, batch>>
        /\ redeem' \in [Calls -> Redeem \cup {Idle}]
        /\ \A d \in Calls : d # c => redeem'[d] = redeem[d]
        /\ redeem'[c].pc = "sent"
    BY <1>5 DEF RedeemStart, IInv, TypeOK, Redeem
  <2> QED BY <2>1 DEF IInv, TypeOK, LocksHold, BatchesOwn
<1>6. ASSUME NEW c \in Calls, RedeemLock(c)
      PROVE  IInv'
  <2>1. /\ UNCHANGED <<clock, vouchers, balance, batch>>
        /\ redeem' = [redeem EXCEPT ![c].pc = "locked"]
        /\ redeem[c].pc = "sent" /\ Unlocked(redeem[c].code)
        /\ vouchers[redeem[c].code].status = "unused"
    BY <1>6 DEF RedeemLock, RedeemMayLock
  <2>2. redeem[c] \in Redeem
    BY <2>1, InFlight DEF IInv, Idle
  <2>3. /\ redeem' \in [Calls -> Redeem \cup {Idle}]
        /\ redeem'[c].code = redeem[c].code
        /\ \A d \in Calls : d # c => redeem'[d] = redeem[d]
    BY <2>1, <2>2 DEF IInv, TypeOK, Redeem
  <2>4. LocksHold'
    BY <2>1, <2>3 DEF IInv, LocksHold, Unlocked
  <2> QED BY <2>1, <2>3, <2>4 DEF IInv, TypeOK, BatchesOwn
<1>7. ASSUME NEW c \in Calls, RedeemRefuse(c) \/ RedeemOverdue(c) \/ RedeemAbort(c)
      PROVE  IInv'
  <2>1. /\ UNCHANGED <<clock, vouchers, balance, batch>>
        /\ redeem' = [redeem EXCEPT ![c] = Idle]
    BY <1>7 DEF RedeemRefuse, RedeemOverdue, RedeemAbort
  <2>2. \A d \in Calls : redeem'[d].pc = "locked" => redeem'[d] = redeem[d]
    BY <2>1 DEF IInv, TypeOK, Idle
  <2> QED BY <2>1, <2>2 DEF IInv, TypeOK, LocksHold, BatchesOwn
<1>8. ASSUME NEW c \in Calls, RedeemCommit(c)
      PROVE  IInv'
  BY <1>8, CommitStep
<1> QED BY <1>1, <1>2, <1>3, <1>4, <1>5, <1>6, <1>7, <1>8 DEF Next

-----------------------------------------------------------------------------
\* The invariant holds of every behaviour of the voucher service.
THEOREM Invariance == Spec => []IInv
BY InitStep, InductiveStep, PTL DEF Spec

\* Every variable keeps its type.
THEOREM TypeCorrect == Spec => []TypeOK
<1>1. IInv => TypeOK
  BY DEF IInv
<1> QED BY <1>1, Invariance, PTL

\* Batches that draw the same codes never sell one twice, and a finished batch
\* is complete.
THEOREM BatchesAreCompleteHolds == Spec => []BatchesAreComplete
<1>1. IInv => BatchesAreComplete
  BY DEF IInv, BatchesOwn, BatchesAreComplete
<1> QED BY <1>1, Invariance, PTL

\* A redemption that commits is the payment of its voucher.
LEMMA CommitPays ==
  ASSUME IInv, NEW c \in Calls, RedeemCommit(c)
  PROVE  Payout!Pay(redeem[c].code, redeem[c].user)
<1> DEFINE v == redeem[c].code
           u == redeem[c].user
<1>1. /\ redeem[c].pc = "locked"
      /\ vouchers' = [vouchers EXCEPT ![v] = Taken(vouchers[v])]
      /\ balance' = [balance EXCEPT ![u] = balance[u] + Worth]
  BY DEF RedeemCommit
<1>2. v \in Codes /\ u \in Users
  BY <1>1, InFlight DEF IInv, Idle
<1>3. vouchers[v].status = "unused" /\ vouchers[v] \in Voucher
  BY <1>1, <1>2, RowStatus DEF IInv, LocksHold
<1>4. Taken(vouchers[v]).status = "redeemed"
  BY <1>3 DEF Taken, Voucher
<1>5. v \notin Redeemed /\ Redeemed' = Redeemed \cup {v}
  BY <1>1, <1>2, <1>3, <1>4 DEF Redeemed, IInv, TypeOK
<1>6. balance'[u] = balance[u] + Worth /\ balance[u] \in Nat
  BY <1>1, <1>2 DEF IInv, TypeOK
<1>7. balance'[u] >= balance[u] + Worth
  BY <1>6, VouchersAssumption
<1>8. balance' = [balance EXCEPT ![u] = balance'[u]]
  BY <1>1, <1>6
<1> QED BY <1>5, <1>7, <1>8 DEF Payout!Pay

\* Any other step pays nothing: no voucher becomes redeemed, and none stops
\* being so.
LEMMA StepImplements ==
  ASSUME IInv, [Next]_vars
  PROVE  [Payout!Next]_<<balance, Redeemed>>
<1>1. ASSUME NEW c \in Calls, RedeemCommit(c)
      PROVE  Payout!Next
  <2>1. redeem[c].code \in Codes /\ redeem[c].user \in Users
    BY <1>1, InFlight DEF RedeemCommit, IInv, Idle
  <2> QED BY <1>1, <2>1, CommitPays DEF Payout!Next
<1>2. CASE UNCHANGED <<vouchers, balance>>
  BY <1>2 DEF Redeemed
<1>3. ASSUME NEW b \in Batches, GenerateRound(b)
      PROVE  UNCHANGED <<balance, Redeemed>>
  <2>1. \A v \in Codes :
          vouchers'[v].status = "redeemed" <=> vouchers[v].status = "redeemed"
    BY <1>3 DEF GenerateRound, Missing
  <2> QED BY <1>3, <2>1 DEF GenerateRound, Redeemed
<1>4. \/ UNCHANGED <<vouchers, balance>>
      \/ \E c \in Calls : RedeemCommit(c)
      \/ \E b \in Batches : GenerateRound(b)
  BY DEF Next, vars, Advance, GenerateStart, GenerateAbort, RedeemStart,
         RedeemLock, RedeemRefuse, RedeemOverdue, RedeemAbort
<1> QED BY <1>1, <1>2, <1>3, <1>4

\* Two devices racing on one code never both credit: the voucher service
\* implements PayOnce.
THEOREM VouchersPayOnce == Spec => PaysOnce
<1>1. Init => Payout!Init
  BY DEF Init, Payout!Init, Redeemed, Missing
<1>2. IInv /\ [Next]_vars => [Payout!Next]_<<balance, Redeemed>>
  BY StepImplements
<1> QED BY <1>1, <1>2, Invariance, PTL DEF Spec, PaysOnce, Payout!Spec
=============================================================================
