--------------------------- MODULE RequestProofs ----------------------------
(***************************************************************************)
(* Theorems about PlanRequests, for every set of customers, plans, creates *)
(* and decides.                                                            *)
(***************************************************************************)
EXTENDS PlanRequests, TLAPS

\* A decide that has its lock holds a pending request, and holds it alone.
LocksHold ==
  \A d \in Decides : decide[d].pc = "locked" =>
    /\ requests[decide[d].id].status = "pending"
    /\ \A e \in Decides : LockedBy(e, decide[d].id) => e = d

\* The pending request a create has found stays in the table.
FoundStays ==
  \A c \in Creates : create[c].pc = "found" /\ create[c].pending # 0
    => requests[create[c].pending] # NoRequest

IInv == TypeOK /\ LocksHold /\ FoundStays /\ RequestedPlansExist

-----------------------------------------------------------------------------
\* A row of the table is a request; a free one has no status of a request.
LEMMA RowStatus ==
  ASSUME TypeOK, NEW r \in Ids
  PROVE  /\ requests[r] = NoRequest <=> requests[r].status = "free"
         /\ requests[r] # NoRequest => /\ requests[r] \in Request
                                       /\ requests[r].user \in Users
                                       /\ requests[r].ask \in Asks
BY DEF TypeOK, NoRequest, Request

\* A create in flight is about a customer and something to ask for.
LEMMA CreateInFlight ==
  ASSUME TypeOK, NEW c \in Creates, create[c] # Idle
  PROVE  create[c] \in Create /\ create[c].user \in Users /\ create[c].ask \in Asks
BY DEF TypeOK, Create

\* A decide in flight is about a row of the table.
LEMMA DecideInFlight ==
  ASSUME TypeOK, NEW d \in Decides, decide[d] # Idle
  PROVE  decide[d] \in Decide /\ decide[d].id \in Ids /\ decide[d].minutes \in Nat
BY DEF TypeOK, Decide

\* What a request is worth is a number of minutes.
LEMMA MinutesType ==
  ASSUME TypeOK, NEW a \in Asks
  PROVE  Minutes(a) \in Nat
<1>1. a \in Plans => plans[a].minutes \in Nat
  BY DEF TypeOK
<1> QED BY <1>1, RequestsAssumption DEF Minutes, Asks

\* The invariant holds initially.
LEMMA InitStep == Init => IInv
<1> SUFFICES ASSUME Init
             PROVE  IInv
  OBVIOUS
<1>1. TypeOK
  BY DEF Init, TypeOK, NoPlan
<1>2. LocksHold /\ FoundStays
  BY DEF Init, LocksHold, FoundStays, Idle
<1>3. RequestedPlansExist
  BY DEF Init, RequestedPlansExist
<1> QED BY <1>1, <1>2, <1>3 DEF IInv

\* What an admin does to the plans: those that requests name stay.
LEMMA PlanStep ==
  ASSUME IInv, NEW p \in Plans,
         \/ PlanCreate(p) \/ PlanUpdate(p) \/ PlanDeactivate(p)
         \/ PlanRemove(p) \/ PlanDelete(p) \/ PlanRemoveAbort(p)
  PROVE  IInv'
<1>1. UNCHANGED <<requests, balance, create, decide>>
  BY DEF PlanCreate, PlanUpdate, PlanDeactivate, PlanRemove, PlanDelete,
         PlanRemoveAbort
<1>2. /\ plans \in [Plans -> [state : {"free", "kept", "deleted"},
                              active : BOOLEAN, minutes : Nat]]
      /\ removal \in [Plans -> BOOLEAN]
  BY DEF IInv, TypeOK
<1>3. removal' \in [Plans -> BOOLEAN]
  BY <1>2 DEF PlanCreate, PlanUpdate, PlanDeactivate, PlanRemove, PlanDelete,
              PlanRemoveAbort
<1>4. /\ plans' \in [Plans -> [state : {"free", "kept", "deleted"},
                               active : BOOLEAN, minutes : Nat]]
      /\ \A q \in Plans : plans[q].state = "kept" /\ Referenced(q)
           => plans'[q].state = "kept"
  <2>1. CASE PlanCreate(p)
    <3>1. PICK n \in Lengths, a \in BOOLEAN :
            plans' = [plans EXCEPT ![p] = [state |-> "kept", active |-> a, minutes |-> n]]
      BY <2>1 DEF PlanCreate
    <3> QED BY <1>2, <3>1, RequestsAssumption
  <2>2. CASE PlanUpdate(p)
    <3>1. PICK n \in Lengths, a \in BOOLEAN :
            plans' = [plans EXCEPT ![p].minutes = n, ![p].active = a]
      BY <2>2 DEF PlanUpdate
    <3> QED BY <1>2, <3>1, RequestsAssumption
  <2>3. CASE PlanDeactivate(p)
    BY <1>2, <2>3 DEF PlanDeactivate
  <2>4. CASE PlanRemove(p) \/ PlanRemoveAbort(p)
    BY <1>2, <2>4 DEF PlanRemove, PlanRemoveAbort
  <2>5. CASE PlanDelete(p)
    BY <1>2, <2>5 DEF PlanDelete, MayDelete, Deleted
  <2> QED BY <2>1, <2>2, <2>3, <2>4, <2>5
<1>5. TypeOK' /\ LocksHold' /\ FoundStays'
  BY <1>1, <1>3, <1>4 DEF IInv, TypeOK, LocksHold, LockedBy, FoundStays
<1>6. RequestedPlansExist'
  <2> SUFFICES ASSUME NEW r \in Ids, requests[r] # NoRequest, requests[r].ask \in Plans
               PROVE  plans'[requests[r].ask].state = "kept"
    BY <1>1 DEF RequestedPlansExist, ValidAsk
  <2>1. Referenced(requests[r].ask)
    BY DEF Referenced
  <2>2. plans[requests[r].ask].state = "kept"
    BY DEF IInv, RequestedPlansExist, ValidAsk
  <2> QED BY <1>4, <2>1, <2>2
<1> QED BY <1>5, <1>6 DEF IInv

\* The steps of a create before its INSERT or UPDATE, and its failure.
LEMMA CreateQueryStep ==
  ASSUME IInv, NEW c \in Creates,
         \/ \E u \in Users, a \in Asks : CreateStart(c, u, a)
         \/ CreateFind(c) \/ CreateAbort(c)
  PROVE  IInv'
<1>1. UNCHANGED <<plans, requests, balance, decide, removal>>
  BY DEF CreateStart, CreateFind, CreateAbort
<1>2. /\ create' \in [Creates -> Create \cup {Idle}]
      /\ \A b \in Creates : b # c => create'[b] = create[b]
      /\ create'[c].pc = "found" /\ create'[c].pending # 0
           => create'[c].pending \in Ids /\ requests[create'[c].pending] # NoRequest
  <2>1. create \in [Creates -> Create \cup {Idle}]
    BY DEF IInv, TypeOK
  <2>2. ASSUME NEW u \in Users, NEW a \in Asks, CreateStart(c, u, a)
        PROVE  <1>2!:
    <3>1. create' = [create EXCEPT
            ![c] = [pc |-> "planned", user |-> u, ask |-> a, pending |-> 0]]
      BY <2>2 DEF CreateStart
    <3>2. 0 \in 0..MaxRequests
      BY RequestsAssumption
    <3> QED BY <2>1, <3>1, <3>2 DEF Create
  <2>3. CASE CreateFind(c)
    <3>1. create[c] \in Create /\ create[c].pc = "planned"
      BY <2>3, CreateInFlight DEF CreateFind, IInv, Idle
    <3>2. PICK r \in IF PendingOf(create[c].user) = {} THEN {0}
                       ELSE PendingOf(create[c].user) :
            create' = [create EXCEPT ![c].pc = "found", ![c].pending = r]
      BY <2>3 DEF CreateFind
    <3>3. r \in 0..MaxRequests
      BY <3>2, RequestsAssumption DEF PendingOf, Ids
    <3>4. r # 0 => r \in Ids /\ requests[r] # NoRequest
      BY <3>2 DEF PendingOf, NoRequest
    <3> QED BY <2>1, <3>1, <3>2, <3>3, <3>4 DEF Create
  <2>4. CASE CreateAbort(c)
    BY <2>1, <2>4 DEF CreateAbort, Idle
  <2> QED BY <2>2, <2>3, <2>4
<1>3. FoundStays'
  BY <1>1, <1>2 DEF IInv, FoundStays
<1> QED BY <1>1, <1>2, <1>3 DEF IInv, TypeOK, LocksHold, LockedBy,
                                RequestedPlansExist, ValidAsk

\* An INSERT takes a row that was free.
LEMMA InsertTakesFree ==
  ASSUME NEW c \in Creates, CreateInsert(c)
  PROVE  \E r \in Ids :
           /\ requests[r] = NoRequest
           /\ requests' = [requests EXCEPT ![r] =
                [status |-> "pending", user |-> create[c].user, ask |-> create[c].ask]]
<1>1. PICK r \in Ids :
        /\ \A i \in Ids : requests[i] = NoRequest <=> i >= r
        /\ requests' = [requests EXCEPT ![r] =
             [status |-> "pending", user |-> create[c].user, ask |-> create[c].ask]]
  BY DEF CreateInsert
<1>2. r >= r
  BY RequestsAssumption DEF Ids
<1>3. requests[r] = NoRequest
  BY <1>1, <1>2
<1> QED BY <1>1, <1>3

\* The INSERT or UPDATE of a create: rows keep their status and their owner.
LEMMA CreateWriteStep ==
  ASSUME IInv, NEW c \in Creates, CreateReplace(c) \/ CreateInsert(c)
  PROVE  IInv'
<1>1. /\ UNCHANGED <<plans, balance, decide, removal>>
      /\ create' = [create EXCEPT ![c] = Idle]
      /\ create[c].pc = "found" /\ ValidAsk(create[c].ask)
  BY DEF CreateReplace, CreateInsert
<1>2. create[c] \in Create /\ create[c].user \in Users /\ create[c].ask \in Asks
  BY <1>1, CreateInFlight DEF IInv, Idle
<1>3. PICK r \in Ids :
        /\ requests' = [requests EXCEPT ![r] = requests'[r]]
        /\ requests'[r] \in Request /\ requests'[r].ask = create[c].ask
        /\ requests[r] # NoRequest => requests'[r].status = requests[r].status
  <2>1. CASE CreateReplace(c)
    <3>1. /\ create[c].pending # 0
          /\ requests' = [requests EXCEPT ![create[c].pending].ask = create[c].ask]
      BY <2>1 DEF CreateReplace
    <3>2. create[c].pending \in Ids
      BY <1>2, <3>1, RequestsAssumption DEF Create, Ids
    <3>3. requests[create[c].pending] \in Request
      BY <1>1, <3>1, <3>2, RowStatus DEF IInv, FoundStays
    <3> QED BY <1>2, <3>1, <3>2, <3>3 DEF IInv, TypeOK, Request
  <2>2. CASE CreateInsert(c)
    <3>1. PICK r \in Ids :
            /\ requests[r] = NoRequest
            /\ requests' = [requests EXCEPT ![r] =
                 [status |-> "pending", user |-> create[c].user, ask |-> create[c].ask]]
      BY <2>2, InsertTakesFree
    <3>2. requests'[r]
            = [status |-> "pending", user |-> create[c].user, ask |-> create[c].ask]
      BY <3>1 DEF IInv, TypeOK
    <3>3. requests' = [requests EXCEPT ![r] = requests'[r]]
      BY <3>1, <3>2
    <3>4. requests'[r] \in Request /\ requests'[r].ask = create[c].ask
      BY <1>2, <3>2 DEF Request
    <3> QED BY <3>1, <3>3, <3>4
  <2> QED BY <2>1, <2>2
<1>4. /\ requests' \in [Ids -> Request \cup {NoRequest}]
      /\ \A i \in Ids : i # r => requests'[i] = requests[i]
      /\ requests'[r] # NoRequest
  BY <1>3 DEF IInv, TypeOK, Request, NoRequest
<1>5. TypeOK'
  BY <1>1, <1>4 DEF IInv, TypeOK
<1>6. LocksHold'
  <2>1. \A d \in Decides : decide[d].pc = "locked" => decide[d].id \in Ids
    BY DecideInFlight DEF IInv, Idle
  <2>2. \A i \in Ids : requests[i].status = "pending" => requests'[i].status = "pending"
    BY <1>3, <1>4, RowStatus DEF IInv
  <2> QED BY <1>1, <2>1, <2>2 DEF IInv, LocksHold, LockedBy
<1>7. FoundStays'
  <2>1. \A b \in Creates : create'[b].pc = "found" => create'[b] = create[b]
    BY <1>1 DEF IInv, TypeOK, Idle
  <2>2. \A b \in Creates : create[b].pc = "found" /\ create[b].pending # 0
                             => create[b].pending \in Ids
    BY CreateInFlight, RequestsAssumption DEF IInv, Idle, Create, Ids
  <2> QED BY <1>4, <2>1, <2>2 DEF IInv, FoundStays
<1>8. RequestedPlansExist'
  BY <1>1, <1>3, <1>4 DEF IInv, RequestedPlansExist, ValidAsk
<1> QED BY <1>5, <1>6, <1>7, <1>8 DEF IInv

\* The steps of a decide before its COMMIT, and its failure.
LEMMA DecideQueryStep ==
  ASSUME IInv, NEW d \in Decides,
         \/ \E r \in Ids, approve \in BOOLEAN : DecideStart(d, r, approve)
         \/ DecideLock(d) \/ DecideRefuse(d) \/ DecideAbort(d)
  PROVE  IInv'
<1>1. UNCHANGED <<plans, requests, balance, create, removal>>
  BY DEF DecideStart, DecideLock, DecideRefuse, DecideAbort
<1>2. decide \in [Decides -> Decide \cup {Idle}]
  BY DEF IInv, TypeOK
<1>3. /\ decide' \in [Decides -> Decide \cup {Idle}]
      /\ \A e \in Decides : e # d => decide'[e] = decide[e]
      /\ decide'[d].pc = "locked" =>
           /\ requests[decide'[d].id].status = "pending"
           /\ Unlocked(decide'[d].id)
  <2>1. ASSUME NEW r \in Ids, NEW approve \in BOOLEAN, DecideStart(d, r, approve)
        PROVE  <1>3!:
    <3>1. requests[r].ask \in Asks
      BY <2>1, RowStatus DEF DecideStart, IInv
    <3>2. Minutes(requests[r].ask) \in Nat
      BY <3>1, MinutesType DEF IInv
    <3>3. decide' = [decide EXCEPT ![d] =
            [pc |-> "sent", id |-> r, approve |-> approve, ask |-> requests[r].ask,
             minutes |-> Minutes(requests[r].ask)]]
      BY <2>1 DEF DecideStart
    <3> QED BY <1>2, <3>1, <3>2, <3>3 DEF Decide
  <2>2. CASE DecideLock(d)
    <3>1. /\ decide[d].pc = "sent" /\ Unlocked(decide[d].id)
          /\ requests[decide[d].id].status = "pending"
          /\ decide' = [decide EXCEPT ![d].pc = "locked", ![d].minutes = Worth(d)]
      BY <2>2 DEF DecideLock, DecideMayLock
    <3>2. decide[d] \in Decide /\ decide[d].id \in Ids /\ decide[d].minutes \in Nat
      BY <3>1, DecideInFlight DEF IInv, Idle
    <3>3. requests[decide[d].id].ask \in Asks
      BY <3>1, <3>2, RowStatus DEF IInv
    <3>4. Worth(d) \in Nat
      BY <3>2, <3>3, RequestsAssumption DEF Worth, Asks
    <3> QED BY <1>2, <3>1, <3>2, <3>4 DEF Decide
  <2>3. CASE DecideRefuse(d) \/ DecideAbort(d)
    BY <1>2, <2>3 DEF DecideRefuse, DecideAbort, Idle
  <2> QED BY <2>1, <2>2, <2>3
<1>4. LocksHold'
  BY <1>1, <1>3 DEF IInv, LocksHold, Unlocked, LockedBy
<1> QED BY <1>1, <1>3, <1>4 DEF IInv, TypeOK, FoundStays, RequestedPlansExist,
                                ValidAsk

\* What a decide that commits does.
LEMMA Decided ==
  ASSUME IInv, NEW d \in Decides, DecideCommit(d)
  PROVE  LET r == decide[d].id IN
         /\ r \in Ids /\ requests[r] \in Request /\ requests[r].user \in Users
         /\ requests[r].status = "pending" /\ decide[d].minutes \in Nat
         /\ requests' = [requests EXCEPT ![r] = requests'[r]]
         /\ requests'[r] = [requests[r] EXCEPT !.status = Verdict(decide[d].approve)]
         /\ requests'[r] \in Request
<1>1. /\ decide[d].pc = "locked"
      /\ requests' = [requests EXCEPT
           ![decide[d].id].status = Verdict(decide[d].approve)]
  BY DEF DecideCommit
<1>2. decide[d].id \in Ids /\ decide[d].minutes \in Nat
  BY <1>1, DecideInFlight DEF IInv, Idle
<1>3. requests[decide[d].id].status = "pending"
  BY <1>1 DEF IInv, LocksHold
<1>4. requests[decide[d].id] \in Request /\ requests[decide[d].id].user \in Users
  BY <1>2, <1>3, RowStatus DEF IInv
<1>5. Verdict(decide[d].approve) \in {"approved", "rejected"}
  BY DEF Verdict
<1>6. requests'[decide[d].id]
        = [requests[decide[d].id] EXCEPT !.status = Verdict(decide[d].approve)]
  BY <1>1, <1>2 DEF IInv, TypeOK
<1>7. requests'[decide[d].id] \in Request
  BY <1>4, <1>5, <1>6 DEF Request
<1>8. requests' = [requests EXCEPT ![decide[d].id] = requests'[decide[d].id]]
  BY <1>1, <1>6
<1> QED BY <1>2, <1>3, <1>4, <1>6, <1>7, <1>8

\* It leaves the other decides their locks, and asks as they are.
LEMMA CommitStep ==
  ASSUME IInv, NEW d \in Decides, DecideCommit(d)
  PROVE  IInv'
<1> DEFINE r == decide[d].id
<1>1. /\ decide[d].pc = "locked" /\ UNCHANGED <<plans, create, removal>>
      /\ balance' = IF decide[d].approve
                      THEN [balance EXCEPT
                        ![requests[r].user] = balance[requests[r].user] + decide[d].minutes]
                      ELSE balance
      /\ decide' = [decide EXCEPT ![d] = Idle]
  BY DEF DecideCommit
<1>2. /\ r \in Ids /\ requests[r] \in Request /\ requests[r].user \in Users
      /\ requests[r].status = "pending" /\ decide[d].minutes \in Nat
      /\ requests' = [requests EXCEPT ![r] = requests'[r]]
      /\ requests'[r] = [requests[r] EXCEPT !.status = Verdict(decide[d].approve)]
      /\ requests'[r] \in Request
  BY Decided
<1>3. \A i \in Ids : /\ i # r => requests'[i] = requests[i]
                     /\ requests[i] # NoRequest => /\ requests'[i] # NoRequest
                                                   /\ requests'[i].ask = requests[i].ask
                     /\ requests'[i] # NoRequest => requests[i] # NoRequest
  BY <1>2 DEF IInv, TypeOK, Request, NoRequest
<1>4. TypeOK'
  <2>1. balance[requests[r].user] + decide[d].minutes \in Nat
    BY <1>2 DEF IInv, TypeOK
  <2>2. balance' \in [Users -> Nat]
    BY <1>1, <2>1 DEF IInv, TypeOK
  <2>3. requests' \in [Ids -> Request \cup {NoRequest}]
    BY <1>2 DEF IInv, TypeOK
  <2> QED BY <1>1, <2>2, <2>3 DEF IInv, TypeOK
<1>5. LocksHold'
  <2>1. \A e \in Decides : decide'[e].pc = "locked" => e # d /\ decide'[e] = decide[e]
    BY <1>1 DEF IInv, TypeOK, Idle
  <2>2. \A e \in Decides : decide'[e].pc = "locked" => decide[e].id \in Ids
    BY <2>1, DecideInFlight DEF IInv, Idle
  <2>3. \A e \in Decides : decide'[e].pc = "locked" => decide[e].id # r
    BY <1>1, <2>1 DEF IInv, LocksHold, LockedBy
  <2> QED BY <1>3, <2>1, <2>2, <2>3 DEF IInv, LocksHold, LockedBy
<1>6. FoundStays'
  <2>1. \A b \in Creates : create[b].pc = "found" /\ create[b].pending # 0
                             => create[b].pending \in Ids
    BY CreateInFlight, RequestsAssumption DEF IInv, Idle, Create, Ids
  <2> QED BY <1>1, <1>3, <2>1 DEF IInv, FoundStays
<1>7. RequestedPlansExist'
  BY <1>1, <1>3 DEF IInv, RequestedPlansExist, ValidAsk
<1> QED BY <1>4, <1>5, <1>6, <1>7 DEF IInv

\* Every step keeps the invariant.
LEMMA InductiveStep == IInv /\ [Next]_vars => IInv'
<1> SUFFICES ASSUME IInv, [Next]_vars
             PROVE  IInv'
  OBVIOUS
<1>1. CASE UNCHANGED vars
  BY <1>1 DEF vars, IInv, TypeOK, LocksHold, LockedBy, FoundStays,
              RequestedPlansExist, ValidAsk
<1>2. CASE Next
  BY <1>2, PlanStep, CreateQueryStep, CreateWriteStep, DecideQueryStep, CommitStep
     DEF Next
<1> QED BY <1>1, <1>2

-----------------------------------------------------------------------------
\* The invariant holds of every behaviour of requests and plans.
THEOREM Invariance == Spec => []IInv
BY InitStep, InductiveStep, PTL DEF Spec

\* Every variable keeps its type.
THEOREM TypeCorrect == Spec => []TypeOK
<1>1. IInv => TypeOK
  BY DEF IInv
<1> QED BY <1>1, Invariance, PTL

\* Whatever admins and customers do at once, a plan somebody asked for is there.
THEOREM RequestedPlansExistHolds == Spec => []RequestedPlansExist
<1>1. IInv => RequestedPlansExist
  BY DEF IInv
<1> QED BY <1>1, Invariance, PTL

\* How a step changes the status of a request: a pending one is decided by the
\* decide that has its lock, any other keeps it.
LEMMA StatusStep ==
  ASSUME IInv, [Next]_vars
  PROVE  \/ \E d \in Decides : DecideCommit(d)
         \/ /\ UNCHANGED balance
            /\ \A r \in Ids : \/ requests'[r].status = requests[r].status
                              \/ /\ requests[r].status = "free"
                                 /\ requests'[r].status = "pending"
<1>1. CASE UNCHANGED <<requests, balance>>
  BY <1>1
<1>2. ASSUME NEW c \in Creates, CreateReplace(c)
      PROVE  UNCHANGED balance
             /\ \A r \in Ids : requests'[r].status = requests[r].status
  BY <1>2 DEF CreateReplace, IInv, TypeOK
<1>3. ASSUME NEW c \in Creates, CreateInsert(c)
      PROVE  /\ UNCHANGED balance
             /\ \A r \in Ids : \/ requests'[r].status = requests[r].status
                               \/ /\ requests[r].status = "free"
                                  /\ requests'[r].status = "pending"
  <2>1. PICK i \in Ids :
          /\ requests[i] = NoRequest
          /\ requests' = [requests EXCEPT ![i] =
               [status |-> "pending", user |-> create[c].user, ask |-> create[c].ask]]
    BY <1>3, InsertTakesFree
  <2>2. requests[i].status = "free"
    BY <2>1 DEF NoRequest
  <2>3. requests'[i].status = "pending"
    BY <2>1 DEF IInv, TypeOK
  <2>4. \A r \in Ids : r # i => requests'[r] = requests[r]
    BY <2>1 DEF IInv, TypeOK
  <2> QED BY <1>3, <2>2, <2>3, <2>4 DEF CreateInsert
<1>4. \/ UNCHANGED <<requests, balance>>
      \/ \E c \in Creates : CreateReplace(c) \/ CreateInsert(c)
      \/ \E d \in Decides : DecideCommit(d)
  BY DEF Next, vars, PlanCreate, PlanUpdate, PlanDeactivate, PlanRemove,
         PlanDelete, PlanRemoveAbort, CreateStart, CreateFind, CreateAbort,
         DecideStart, DecideLock, DecideRefuse, DecideAbort
<1> QED BY <1>1, <1>2, <1>3, <1>4

\* A decision stands, whoever decides or replaces the request afterwards.
THEOREM DecisionsStand == Spec => DecisionStands
<1>1. ASSUME IInv, [Next]_vars, NEW r \in Ids,
             requests[r].status \in {"approved", "rejected"}
      PROVE  requests'[r].status = requests[r].status
  <2>1. ASSUME NEW d \in Decides, DecideCommit(d)
        PROVE  requests'[r] = requests[r]
    <3>1. decide[d].id # r /\ requests' =
            [requests EXCEPT ![decide[d].id] = requests'[decide[d].id]]
      BY <1>1, <2>1, Decided
    <3> QED BY <1>1, <3>1 DEF IInv, TypeOK
  <2> QED BY <1>1, <2>1, StatusStep
<1>2. IInv /\ [Next]_vars =>
        [\A r \in Ids : requests[r].status \in {"approved", "rejected"}
           => requests'[r].status = requests[r].status]_vars
  BY <1>1
<1> QED BY <1>2, Invariance, PTL DEF Spec, DecisionStands

\* A decide that commits an approval is the payment of the request; one that
\* commits a rejection pays nothing.
LEMMA CommitPays ==
  ASSUME IInv, NEW d \in Decides, DecideCommit(d)
  PROVE  [Payout!Next]_<<balance, Approved>>
<1> DEFINE r == decide[d].id
           u == requests[r].user
<1>1. /\ r \in Ids /\ requests[r] \in Request /\ u \in Users
      /\ requests[r].status = "pending" /\ decide[d].minutes \in Nat
      /\ requests' = [requests EXCEPT ![r] = requests'[r]]
      /\ requests'[r] = [requests[r] EXCEPT !.status = Verdict(decide[d].approve)]
  BY Decided
<1>2. balance' = IF decide[d].approve
                   THEN [balance EXCEPT ![u] = balance[u] + decide[d].minutes]
                   ELSE balance
  BY DEF DecideCommit
<1>3. requests'[r].status = Verdict(decide[d].approve)
  BY <1>1 DEF Request
<1>4. \A i \in Ids : i # r => requests'[i] = requests[i]
  BY <1>1 DEF IInv, TypeOK
<1>5. r \notin Approved
  BY <1>1 DEF Approved
<1>6. CASE decide[d].approve
  <2>1. Approved' = Approved \cup {r}
    BY <1>1, <1>3, <1>4, <1>6 DEF Approved, Verdict
  <2>2. balance[u] \in Nat /\ balance'[u] = balance[u] + decide[d].minutes
    BY <1>1, <1>2, <1>6 DEF IInv, TypeOK
  <2>3. balance'[u] >= balance[u] + 0
    BY <1>1, <2>2
  <2>4. balance' = [balance EXCEPT ![u] = balance'[u]]
    BY <1>2, <1>6, <2>2
  <2>5. Payout!Pay(r, u)
    BY <1>5, <2>1, <2>3, <2>4 DEF Payout!Pay
  <2> QED BY <1>1, <2>5 DEF Payout!Next
<1>7. CASE ~decide[d].approve
  <2>1. Approved' = Approved
    BY <1>1, <1>3, <1>4, <1>7 DEF Approved, Verdict
  <2> QED BY <1>2, <1>7, <2>1
<1> QED BY <1>6, <1>7

\* A double click never credits twice: requests implement PayOnce.
THEOREM RequestsPayOnce == Spec => PaysOnce
<1>1. Init => Payout!Init
  BY DEF Init, Payout!Init, Approved, NoRequest
<1>2. ASSUME IInv, [Next]_vars
      PROVE  [Payout!Next]_<<balance, Approved>>
  <2>1. CASE \E d \in Decides : DecideCommit(d)
    BY <1>2, <2>1, CommitPays
  <2>2. CASE /\ UNCHANGED balance
             /\ \A r \in Ids : \/ requests'[r].status = requests[r].status
                               \/ /\ requests[r].status = "free"
                                  /\ requests'[r].status = "pending"
    BY <2>2 DEF Approved
  <2> QED BY <1>2, <2>1, <2>2, StatusStep
<1> QED BY <1>1, <1>2, Invariance, PTL DEF Spec, PaysOnce, Payout!Spec
=============================================================================
