------------------------------ MODULE Counter -------------------------------
(***************************************************************************)
(* A customer asks for time on his page (TimeRequest.tsx), an admin at the *)
(* counter sees the request in a table (AdminOverview.tsx) and decides it. *)
(* Every fetch of the two pages is a step when it is sent, when the        *)
(* backend answers and when the answer is used.  The backend's handlers    *)
(* are one step each here; PlanRequests takes them apart.                  *)
(***************************************************************************)
EXTENDS Naturals, FiniteSets

CONSTANTS
  Customers,   \* each with one page
  Posts,       \* bound: POSTs a page may have in flight
  Refreshes,   \* bound: refreshes of the overview in flight
  Decides,     \* bound: decisions of the overview in flight
  MaxRequests  \* bound: rows of plan_requests

ASSUME CounterAssumption == MaxRequests \in Nat

VARIABLES
  requests,   \* the plan_requests table
  page,       \* TimeRequest's state on each customer's page
  post,       \* POSTs of the pages in flight, an unmounted TimeRequest's too
  overview,   \* AdminOverview: whether it is mounted, and the rows it lists
  refresh,    \* its refreshes in flight
  decide      \* its decisions in flight

vars == <<requests, page, post, overview, refresh, decide>>

Ids == 1..MaxRequests
Free == [status |-> "free"]
Idle == [pc |-> "idle"]
Unmounted == [mounted |-> FALSE]
Closed == [mounted |-> FALSE, listed |-> {}]

\* Mutant: a state that starts undefined.
Mounted_Mutant == [mounted |-> TRUE, pending |-> FALSE, busy |-> FALSE]

\* `asked' is what has become of GET /requests: sent, answered (with or without
\* a pending request among the rows), or over.
Mounted == [mounted |-> TRUE, pending |-> FALSE, busy |-> FALSE, asked |-> "sent"]

Page ==
  [mounted : {TRUE}, pending : BOOLEAN, busy : BOOLEAN,
   asked : {"sent", "some", "none", "over"}]

\* `mine' is whether the component that sent a POST is still mounted; otherwise
\* nobody hears the answer.
Post ==
  [pc : {"sent"}, voucher : BOOLEAN, mine : BOOLEAN]
    \cup [pc : {"done", "failed"}, voucher : BOOLEAN]
Decide ==
  [pc : {"sent"}, id : Ids, mine : BOOLEAN] \cup [pc : {"done", "failed"}]

TypeOK ==
  /\ requests \in
       [Ids -> [status : {"pending", "decided"}, user : Customers]
                 \cup {Free}]
  /\ page \in [Customers -> Page \cup {Unmounted}]
  /\ post \in [Customers -> [Posts -> Post \cup {Idle}]]
  /\ overview \in [mounted : BOOLEAN, listed : SUBSET Ids]
  /\ refresh \in
       [Refreshes -> {Idle, [pc |-> "sent"]} \cup [pc : {"done"}, rows : SUBSET Ids]]
  /\ decide \in [Decides -> Decide \cup {Idle}]

Init ==
  /\ requests = [r \in Ids |-> Free]
  /\ page = [u \in Customers |-> Unmounted]
  /\ post = [u \in Customers |-> [p \in Posts |-> Idle]]
  /\ overview = Closed
  /\ refresh = [f \in Refreshes |-> Idle]
  /\ decide = [d \in Decides |-> Idle]

\* A POST in flight whose component is unmounted.
Unheard(a) == IF a.pc = "sent" THEN [a EXCEPT !.mine = FALSE] ELSE Idle

PendingOf(u) ==
  {r \in Ids : requests[r].status = "pending" /\ requests[r].user = u}

-----------------------------------------------------------------------------
(***************************************************************************)
(* The customer's page.  ClientPortal mounts TimeRequest when a balance    *)
(* poll finds no time left, and unmounts it when one finds time, fails, or *)
(* nobody is logged in any more: at any moment, as far as TimeRequest can  *)
(* tell (see Portal).                                                      *)
(***************************************************************************)
Mount(u) ==
  /\ page[u] = Unmounted
  /\ page' = [page EXCEPT ![u] = Mounted]
  /\ UNCHANGED <<requests, post, overview, refresh, decide>>

Unmount(u) ==
  /\ page[u] # Unmounted
  /\ page' = [page EXCEPT ![u] = Unmounted]
  /\ post' = [post EXCEPT ![u] = [p \in Posts |-> Unheard(@[p])]]
  /\ UNCHANGED <<requests, overview, refresh, decide>>

\* GET /requests: the customer's rows.
ListMine(u) ==
  /\ page[u].mounted /\ page[u].asked = "sent"
  /\ page' = [page EXCEPT ![u].asked = IF PendingOf(u) = {} THEN "none" ELSE "some"]
  /\ UNCHANGED <<requests, post, overview, refresh, decide>>

\* .catch(() => undefined)
ListMineFail(u) ==
  /\ page[u].mounted /\ page[u].asked = "sent"
  /\ page' = [page EXCEPT ![u].asked = "over"]
  /\ UNCHANGED <<requests, post, overview, refresh, decide>>

ListMineDone(u) ==
  /\ page[u].mounted /\ page[u].asked \in {"some", "none"}
  /\ page' = [page EXCEPT ![u].asked = "over", ![u].pending = page[u].asked = "some"]
  /\ UNCHANGED <<requests, post, overview, refresh, decide>>

\* Mutant: the buttons stay enabled.
MaySubmit_Mutant(u) == page[u].mounted

\* The chips and both buttons are disabled while a POST of this TimeRequest is
\* under way.
MaySubmit(u) == page[u].mounted /\ ~page[u].busy

FreePosts(u) == {p \in Posts : post[u][p] = Idle}

\* A plan, a number of minutes that is not too small, or a voucher.
Submit(u, voucher) ==
  /\ MaySubmit(u)
  /\ FreePosts(u) # {}
  /\ page' = [page EXCEPT ![u].busy = TRUE]
  /\ post' = [post EXCEPT ![u][CHOOSE p \in FreePosts(u) : TRUE] =
       [pc |-> "sent", voucher |-> voucher, mine |-> TRUE]]
  /\ UNCHANGED <<requests, overview, refresh, decide>>

\* The answer of a handler that has done its work arrives, or is lost.
Answered(u, p) ==
  \E pc \in {"done", "failed"} :
    post' = [post EXCEPT ![u][p] =
      IF @.mine THEN [pc |-> pc, voucher |-> @.voucher] ELSE Idle]

\* The pending row is replaced, which leaves its status alone ...
CreateReplaces(u, p) ==
  /\ post[u][p].pc = "sent" /\ ~post[u][p].voucher
  /\ PendingOf(u) # {}
  /\ Answered(u, p)
  /\ UNCHANGED <<requests, page, overview, refresh, decide>>

\* ... or a new one inserted.
CreateInserts(u, p) ==
  /\ post[u][p].pc = "sent" /\ ~post[u][p].voucher
  /\ PendingOf(u) = {}
  /\ \E r \in Ids :
       /\ \A i \in Ids : requests[i] = Free <=> i >= r
       /\ requests' = [requests EXCEPT ![r] = [status |-> "pending", user |-> u]]
  /\ Answered(u, p)
  /\ UNCHANGED <<page, overview, refresh, decide>>

\* A voucher is paid into the balance, which the next poll shows.
Redeems(u, p) ==
  /\ post[u][p].pc = "sent" /\ post[u][p].voucher
  /\ Answered(u, p)
  /\ UNCHANGED <<requests, page, overview, refresh, decide>>

\* Refused, or the request itself is lost.
PostFails(u, p) ==
  /\ post[u][p].pc = "sent"
  /\ post' = [post EXCEPT ![u][p] =
       IF @.mine THEN [pc |-> "failed", voucher |-> @.voucher] ELSE Idle]
  /\ UNCHANGED <<requests, page, overview, refresh, decide>>

\* Mutant: setPending(true) before the answer is looked at.
Announces_Mutant(a) == ~a.voucher

\* Whether an answer puts up the banner.
Announces(a) == a.pc = "done" /\ ~a.voucher

\* setPending(true) or the error; then busy is taken back.
PostDone(u, p) ==
  LET a == post[u][p] IN
  /\ a.pc \in {"done", "failed"}
  /\ post' = [post EXCEPT ![u][p] = Idle]
  /\ page' = [page EXCEPT ![u].busy = FALSE, ![u].pending = @ \/ Announces(a)]
  /\ UNCHANGED <<requests, overview, refresh, decide>>

-----------------------------------------------------------------------------
(***************************************************************************)
(* The overview of the admin dashboard.                                    *)
(***************************************************************************)

\* refresh() beyond the bound is left out, and the interval makes up for it.
FreeRefreshes == {f \in Refreshes : refresh[f] = Idle}

Refresh ==
  refresh' = [f \in Refreshes |->
    IF f \in FreeRefreshes /\ f = CHOOSE g \in FreeRefreshes : TRUE
    THEN [pc |-> "sent"] ELSE refresh[f]]

\* The tab is opened: a refresh at once, then one every ten seconds.
OverviewOpen ==
  /\ ~overview.mounted
  /\ overview' = [mounted |-> TRUE, listed |-> {}]
  /\ Refresh
  /\ UNCHANGED <<requests, page, post, decide>>

\* Another tab: nobody hears the answers still under way.
OverviewClose ==
  /\ overview.mounted
  /\ overview' = Closed
  /\ refresh' = [f \in Refreshes |-> Idle]
  /\ decide' = [d \in Decides |-> Unheard(decide[d])]
  /\ UNCHANGED <<requests, page, post>>

\* Mutant: without the interval the overview refreshes after its own actions.
Interval_Mutant == overview.mounted /\ overview.listed # {}
Interval == overview.mounted

RefreshSend ==
  /\ Interval
  /\ FreeRefreshes # {}
  /\ Refresh
  /\ UNCHANGED <<requests, page, post, overview, decide>>

\* Mutant: the list is not restricted to pending requests.
Listing_Mutant == {r \in Ids : requests[r] # Free}

\* listPending
Listing == {r \in Ids : requests[r].status = "pending"}

RefreshAnswer(f) ==
  /\ refresh[f].pc = "sent"
  /\ refresh' = [refresh EXCEPT ![f] = [pc |-> "done", rows |-> Listing]]
  /\ UNCHANGED <<requests, page, post, overview, decide>>

\* One of the two GETs fails: an error, and the rows stay.
RefreshFail(f) ==
  /\ refresh[f].pc = "sent"
  /\ refresh' = [refresh EXCEPT ![f] = Idle]
  /\ UNCHANGED <<requests, page, post, overview, decide>>

RefreshDone(f) ==
  /\ refresh[f].pc = "done"
  /\ overview' = [overview EXCEPT !.listed = refresh[f].rows]
  /\ refresh' = [refresh EXCEPT ![f] = Idle]
  /\ UNCHANGED <<requests, page, post, decide>>

\* Approve or Reject beside a row; the buttons are never disabled.
DecideClick(d, r) ==
  /\ r \in overview.listed
  /\ decide[d] = Idle
  /\ decide' = [decide EXCEPT ![d] = [pc |-> "sent", id |-> r, mine |-> TRUE]]
  /\ UNCHANGED <<requests, page, post, overview, refresh>>

\* The handler decides, and its answer arrives or is lost.
DecideAnswer(d) ==
  LET r == decide[d].id IN
  /\ decide[d].pc = "sent"
  /\ requests[r].status = "pending"
  /\ requests' = [requests EXCEPT ![r].status = "decided"]
  /\ \E pc \in {"done", "failed"} :
       decide' = [decide EXCEPT ![d] = IF @.mine THEN [pc |-> pc] ELSE Idle]
  /\ UNCHANGED <<page, post, overview, refresh>>

\* Decided already, or no answer.
DecideFail(d) ==
  /\ decide[d].pc = "sent"
  /\ decide' = [decide EXCEPT ![d] = IF @.mine THEN [pc |-> "failed"] ELSE Idle]
  /\ UNCHANGED <<requests, page, post, overview, refresh>>

\* refresh() or the error.
DecideDone(d) ==
  /\ decide[d].pc \in {"done", "failed"}
  /\ IF decide[d].pc = "done" THEN Refresh ELSE UNCHANGED refresh
  /\ decide' = [decide EXCEPT ![d] = Idle]
  /\ UNCHANGED <<requests, page, post, overview>>

\* A decision at another dashboard.
DecideElsewhere(r) ==
  /\ requests[r].status = "pending"
  /\ requests' = [requests EXCEPT ![r].status = "decided"]
  /\ UNCHANGED <<page, post, overview, refresh, decide>>

-----------------------------------------------------------------------------
Asking ==
  \E u \in Customers :
    \/ Mount(u) \/ Unmount(u)
    \/ ListMine(u) \/ ListMineFail(u) \/ ListMineDone(u)
    \/ \E voucher \in BOOLEAN : Submit(u, voucher)
    \/ \E p \in Posts :
         \/ CreateReplaces(u, p) \/ CreateInserts(u, p) \/ Redeems(u, p)
         \/ PostFails(u, p) \/ PostDone(u, p)

Deciding ==
  \/ OverviewOpen \/ OverviewClose \/ RefreshSend
  \/ \E f \in Refreshes : RefreshAnswer(f) \/ RefreshFail(f) \/ RefreshDone(f)
  \/ \E d \in Decides :
       \/ \E r \in Ids : DecideClick(d, r)
       \/ DecideAnswer(d) \/ DecideFail(d) \/ DecideDone(d)
  \/ \E r \in Ids : DecideElsewhere(r)

Next == Asking \/ Deciding

(***************************************************************************)
(* Fairness.  The interval fires for ever, every refresh is answered or    *)
(* fails, its answer is used, and the network does not fail for ever.      *)
(* Nothing is assumed of customers and admins.                             *)
(***************************************************************************)
Fairness ==
  /\ WF_vars(RefreshSend)
  /\ \A f \in Refreshes :
       /\ WF_vars(RefreshAnswer(f) \/ RefreshFail(f))
       /\ WF_vars(RefreshDone(f))
  /\ <>[][\A f \in Refreshes : ~RefreshFail(f)]_vars

Spec == Init /\ [][Next]_vars /\ Fairness

-----------------------------------------------------------------------------
Decided(r) == requests[r].status = "decided"

\* The banner is never up for a customer who has not asked: whatever posts fail
\* and whatever unmounted pages are still answered, "Pay at the counter" stands
\* for a row the admin has or had in the table.
BannerIsEarned ==
  \A u \in Customers :
    page[u].mounted /\ page[u].pending
      => \E r \in Ids : requests[r] # Free /\ requests[r].user = u

\* A double tap sends one request: the two creates that could both insert a row
\* (PlanRequests) are never two of one TimeRequest.
OneAtATime ==
  \A u \in Customers :
    Cardinality({p \in Posts : post[u][p].pc = "sent" /\ post[u][p].mine}) <= 1

\* An overview that stays open comes to list every pending request, however
\* stale the answers that arrive in between.
CounterSeesRequests ==
  \A r \in Ids :
    (requests[r].status = "pending")
      ~> (~overview.mounted \/ r \in overview.listed \/ Decided(r))

\* A decided request leaves the table for good: stale answers may bring it back
\* for a while, but only finitely often.
DecidedLeaveTheTable ==
  \A r \in Ids : Decided(r) ~> [](r \notin overview.listed)
=============================================================================
