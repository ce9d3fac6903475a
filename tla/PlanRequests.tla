---------------------------- MODULE PlanRequests ----------------------------
(***************************************************************************)
(* RequestsService and PlansService: customers ask for a plan or for a     *)
(* number of minutes, admins approve or reject, and edit the plans         *)
(* meanwhile.  create and remove are several statements without a          *)
(* transaction; decide is one transaction that locks the request's row.    *)
(***************************************************************************)
EXTENDS Naturals, FiniteSets

CONSTANTS
  Users,
  Plans,        \* plan ids
  Custom,       \* the minutes a customer may ask for without a plan
  Lengths,      \* the durations an admin gives plans
  Creates,      \* create requests that can be in flight
  Decides,      \* decide requests that can be in flight
  MaxRequests   \* bound: rows the plan_requests table may hold

ASSUME RequestsAssumption ==
  /\ Custom \subseteq Nat \ {0} /\ Lengths \subseteq Nat \ {0}
  /\ MaxRequests \in Nat

VARIABLES
  plans,      \* the plans table
  requests,   \* the plan_requests table, by primary key
  balance,    \* users.remaining_seconds, as far as approvals credit it
  create,     \* each create in flight
  decide,     \* each decide in flight
  removal     \* for each plan, whether a remove has seen it unreferenced

vars == <<plans, requests, balance, create, decide, removal>>

Ids == 1..MaxRequests

\* A key not used yet, and one of a deleted plan, which is never used again.
NoPlan == [state |-> "free", active |-> FALSE, minutes |-> 0]
Deleted == [state |-> "deleted", active |-> FALSE, minutes |-> 0]

NoRequest == [status |-> "free"]
Idle == [pc |-> "idle"]

\* A request names a plan or a number of minutes.
Asks == Plans \cup Custom

Request ==
  [status : {"pending", "approved", "rejected"}, user : Users, ask : Asks]

Create ==
  [pc : {"planned", "found"}, user : Users, ask : Asks, pending : 0..MaxRequests]

Decide ==
  [pc : {"sent", "locked"}, id : Ids, approve : BOOLEAN, ask : Asks,
   minutes : Nat]

TypeOK ==
  /\ plans \in [Plans -> [state : {"free", "kept", "deleted"},
                        active : BOOLEAN, minutes : Nat]]
  /\ requests \in [Ids -> Request \cup {NoRequest}]
  /\ balance \in [Users -> Nat]
  /\ create \in [Creates -> Create \cup {Idle}]
  /\ decide \in [Decides -> Decide \cup {Idle}]
  /\ removal \in [Plans -> BOOLEAN]

Init ==
  /\ plans = [p \in Plans |-> NoPlan]
  /\ requests = [r \in Ids |-> NoRequest]
  /\ balance = [u \in Users |-> 0]
  /\ create = [c \in Creates |-> Idle]
  /\ decide = [d \in Decides |-> Idle]
  /\ removal = [p \in Plans |-> FALSE]

Referenced(p) ==
  \E r \in Ids : requests[r] # NoRequest /\ requests[r].ask = p

LockedBy(d, r) == decide[d].pc = "locked" /\ decide[d].id = r
Unlocked(r) == \A d \in Decides : ~LockedBy(d, r)

\* Foreign key: a plan_id names a plan, whatever else has happened to it.
ValidAsk(a) == a \in Plans => plans[a].state = "kept"

-----------------------------------------------------------------------------
\* POST and PATCH /admin/plans
PlanCreate(p) ==
  /\ plans[p] = NoPlan
  /\ \E n \in Lengths, a \in BOOLEAN :
       plans' = [plans EXCEPT ![p] = [state |-> "kept", active |-> a, minutes |-> n]]
  /\ UNCHANGED <<requests, balance, create, decide, removal>>

PlanUpdate(p) ==
  /\ plans[p].state = "kept"
  /\ \E n \in Lengths, a \in BOOLEAN :
       plans' = [plans EXCEPT ![p].minutes = n, ![p].active = a]
  /\ UNCHANGED <<requests, balance, create, decide, removal>>

\* DELETE /admin/plans: a referenced plan is deactivated ...
PlanDeactivate(p) ==
  /\ plans[p].state = "kept"
  /\ Referenced(p)
  /\ plans' = [plans EXCEPT ![p].active = FALSE]
  /\ UNCHANGED <<requests, balance, create, decide, removal>>

\* ... and one found unreferenced is to be deleted,
PlanRemove(p) ==
  /\ plans[p].state = "kept" /\ ~removal[p]
  /\ ~Referenced(p)
  /\ removal' = [removal EXCEPT ![p] = TRUE]
  /\ UNCHANGED <<plans, requests, balance, create, decide>>

\* Mutant: no foreign key.
MayDelete_Mutant(p) == TRUE

\* unless a request has come to reference it: then the foreign key makes the
\* DELETE fail.
MayDelete(p) == ~Referenced(p)

PlanDelete(p) ==
  /\ removal[p]
  /\ removal' = [removal EXCEPT ![p] = FALSE]
  /\ plans' = IF MayDelete(p) THEN [plans EXCEPT ![p] = Deleted] ELSE plans
  /\ UNCHANGED <<requests, balance, create, decide>>

\* The backend dies before the DELETE.
PlanRemoveAbort(p) ==
  /\ removal[p]
  /\ removal' = [removal EXCEPT ![p] = FALSE]
  /\ UNCHANGED <<plans, requests, balance, create, decide>>

-----------------------------------------------------------------------------
\* A request for an active plan, or for some minutes.
CreateStart(c, u, a) ==
  /\ create[c] = Idle
  /\ a \in Plans => plans[a].active
  /\ create' = [create EXCEPT
       ![c] = [pc |-> "planned", user |-> u, ask |-> a, pending |-> 0]]
  /\ UNCHANGED <<plans, requests, balance, decide, removal>>

PendingOf(u) ==
  {r \in Ids : requests[r].status = "pending" /\ requests[r].user = u}

\* The customer's pending request, if there is one.
CreateFind(c) ==
  LET mine == PendingOf(create[c].user) IN
  /\ create[c].pc = "planned"
  /\ \E r \in IF mine = {} THEN {0} ELSE mine :
       create' = [create EXCEPT ![c].pc = "found", ![c].pending = r]
  /\ UNCHANGED <<plans, requests, balance, decide, removal>>

\* The pending request gets the new ask, by key and whatever its status is by
\* now ...
CreateReplace(c) ==
  LET r == create[c].pending IN
  /\ create[c].pc = "found"
  /\ r # 0 /\ Unlocked(r)
  /\ ValidAsk(create[c].ask)
  /\ requests' = [requests EXCEPT ![r].ask = create[c].ask]
  /\ create' = [create EXCEPT ![c] = Idle]
  /\ UNCHANGED <<plans, balance, decide, removal>>

\* ... or a new row is inserted.
CreateInsert(c) ==
  /\ create[c].pc = "found"
  /\ create[c].pending = 0
  /\ ValidAsk(create[c].ask)
  /\ \E r \in Ids :
       /\ \A i \in Ids : requests[i] = NoRequest <=> i >= r
       /\ requests' = [requests EXCEPT ![r] =
            [status |-> "pending", user |-> create[c].user, ask |-> create[c].ask]]
  /\ create' = [create EXCEPT ![c] = Idle]
  /\ UNCHANGED <<plans, balance, decide, removal>>

\* The statement fails (the plan is gone), or the backend dies.
CreateAbort(c) ==
  /\ create[c] # Idle
  /\ create' = [create EXCEPT ![c] = Idle]
  /\ UNCHANGED <<plans, requests, balance, decide, removal>>

-----------------------------------------------------------------------------
\* plan_minutes ?? requested_minutes
Minutes(a) == IF a \in Plans THEN plans[a].minutes ELSE a

\* An admin presses approve or reject: the snapshot of the SELECT joins the
\* request to its plan.
DecideStart(d, r, approve) ==
  /\ decide[d] = Idle
  /\ requests[r] # NoRequest
  /\ decide' = [decide EXCEPT ![d] =
       [pc |-> "sent", id |-> r, approve |-> approve, ask |-> requests[r].ask,
        minutes |-> Minutes(requests[r].ask)]]
  /\ UNCHANGED <<plans, requests, balance, create, removal>>

\* Mutant: the row is read without FOR UPDATE OF r.
DecideMayLock_Mutant(d) == decide[d].pc = "sent"
DecideMayLock(d) == decide[d].pc = "sent" /\ Unlocked(decide[d].id)

\* FOR UPDATE OF r returns the latest version of the request, joined with the
\* plan row of the snapshot: a plan asked for since then reads as NULL, and
\* null * 60 is 0.
Worth(d) ==
  LET ask == requests[decide[d].id].ask
  IN IF ask = decide[d].ask THEN decide[d].minutes
     ELSE IF ask \in Plans THEN 0 ELSE ask

\* The row is locked and still pending.
DecideLock(d) ==
  LET r == decide[d].id IN
  /\ DecideMayLock(d)
  /\ requests[r].status = "pending"
  /\ decide' = [decide EXCEPT ![d].pc = "locked",
                              ![d].minutes = Worth(d)]
  /\ UNCHANGED <<plans, requests, balance, create, removal>>

\* "Request already ...": the handler throws.
DecideRefuse(d) ==
  /\ DecideMayLock(d)
  /\ requests[decide[d].id].status # "pending"
  /\ decide' = [decide EXCEPT ![d] = Idle]
  /\ UNCHANGED <<plans, requests, balance, create, removal>>

\* Mutant: a status the table's CHECK does not know.
Verdict_Mutant(approve) == IF approve THEN "accepted" ELSE "rejected"
Verdict(approve) == IF approve THEN "approved" ELSE "rejected"

\* The status, the credit and COMMIT.
DecideCommit(d) ==
  LET r == decide[d].id IN
  /\ decide[d].pc = "locked"
  /\ requests' = [requests EXCEPT ![r].status = Verdict(decide[d].approve)]
  /\ balance' = IF decide[d].approve
                  THEN [balance EXCEPT ![requests[r].user] = @ + decide[d].minutes]
                  ELSE balance
  /\ decide' = [decide EXCEPT ![d] = Idle]
  /\ UNCHANGED <<plans, create, removal>>

\* A statement fails or the backend dies: ROLLBACK.
DecideAbort(d) ==
  /\ decide[d] # Idle
  /\ decide' = [decide EXCEPT ![d] = Idle]
  /\ UNCHANGED <<plans, requests, balance, create, removal>>

Next ==
  \/ \E p \in Plans : \/ PlanCreate(p) \/ PlanUpdate(p) \/ PlanDeactivate(p)
                      \/ PlanRemove(p) \/ PlanDelete(p) \/ PlanRemoveAbort(p)
  \/ \E c \in Creates :
       \/ \E u \in Users, a \in Asks : CreateStart(c, u, a)
       \/ CreateFind(c) \/ CreateReplace(c) \/ CreateInsert(c) \/ CreateAbort(c)
  \/ \E d \in Decides :
       \/ \E r \in Ids, approve \in BOOLEAN : DecideStart(d, r, approve)
       \/ DecideLock(d) \/ DecideRefuse(d) \/ DecideCommit(d) \/ DecideAbort(d)

Spec == Init /\ [][Next]_vars

-----------------------------------------------------------------------------
Approved == {r \in Ids : requests[r].status = "approved"}

Payout ==
  INSTANCE PayOnce WITH Entitlements <- Ids, paid <- Approved, Least <- 0

\* "a double-click can't credit twice": decisions in every interleaving, with
\* each other, with edits of the request and of its plan, pay a request once,
\* and exactly the approved ones.
PaysOnce == Payout!Spec

\* A decision stands: no later step makes a decided request pending or decides
\* it the other way, the customer's replacing it included.
DecisionStands ==
  [][\A r \in Ids : requests[r].status \in {"approved", "rejected"}
       => requests'[r].status = requests[r].status]_vars

\* A removal that saw a plan unreferenced does not take it from a request that
\* came in meanwhile: what was asked for can still be approved and paid.
RequestedPlansExist ==
  \A r \in Ids : requests[r] # NoRequest => ValidAsk(requests[r].ask)

\* "Approval credits the minutes to the shared balance": with every approval a
\* balance grows.
ApprovalCredits ==
  [][\A r \in Ids :
       requests[r].status = "pending" /\ requests'[r].status = "approved"
         => balance'[requests[r].user] > balance[requests[r].user]]_vars

\* "A client has at most one pending request".
OnePendingRequest == \A u \in Users : Cardinality(PendingOf(u)) <= 1
=============================================================================
