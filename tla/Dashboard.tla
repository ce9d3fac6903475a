------------------------------ MODULE Dashboard -----------------------------
(***************************************************************************)
(* The admin's dashboard: AdminLayout.tsx with the pages that change       *)
(* accounts, plans and vouchers (AdminUsers, AdminPlans, AdminVouchers)    *)
(* and the one that lists the audit trail, over the endpoints of           *)
(* AdminController.  The overview is Counter's.                            *)
(*                                                                         *)
(* What a click does in the backend and what the browser hears of it are   *)
(* two things: a handler whose answer is lost goes on, a page that was     *)
(* left is answered all the same, and a backend that dies leaves a change  *)
(* without its entry in the trail.                                         *)
(***************************************************************************)
EXTENDS Naturals, FiniteSets

CONSTANTS
  Users,      \* accounts the admin may grant time to
  Plans,      \* ids of plans, the future ones included
  MaxClicks,  \* bound: clicks that send a change
  Refreshes,  \* bound: listings in flight
  BatchSize,  \* vouchers of a batch
  NoUser      \* not an account

ASSUME DashboardAssumption ==
  /\ MaxClicks \in Nat
  /\ BatchSize \in Nat \ {0}
  /\ NoUser \notin Users

VARIABLES
  granted,   \* how often each account was granted time
  plans,     \* the plans table
  made,      \* how many vouchers of each click's batch are in the table
  trail,     \* audit_log: the clicks it tells of
  done,      \* history: the clicks whose change is committed
  click,     \* the clicks, in the backend and in the browser
  page,      \* the page that is mounted
  refresh    \* its listings in flight

vars == <<granted, plans, made, trail, done, click, page, refresh>>
tables == <<granted, plans, made, done>>

Clicks == 1..MaxClicks
Ops == {"grant", "create", "switch", "remove", "generate"}
Tabs == {"plans", "vouchers", "users", "audit"}

PlanRow == [plan : Plans, active : BOOLEAN]
Vouchers == Clicks \X (1..BatchSize)
Unused == [op |-> "none", row |-> NoUser, srv |-> "over", ui |-> "over"]
Idle == [pc |-> "idle", rows |-> {}]

\* The overview, the login form, or no browser at all.
NoPage == [tab |-> "none", rows |-> {}, dialog |-> NoUser, batch |-> {}]

\* `row' is what the click was made on, as the table showed it.
Click ==
  [op : Ops, row : Users \cup PlanRow \cup {NoUser},
   srv : {"sent", "done", "logged", "over"}, ui : {"waiting", "over"}]

\* The rows each page lists.
RowsOf(tab) ==
  CASE tab = "users" -> Users
    [] tab = "plans" -> PlanRow
    [] tab = "vouchers" -> Vouchers
    [] tab = "audit" -> Clicks
    [] OTHER -> {}

TypeOK ==
  /\ granted \in [Users -> 0..MaxClicks]
  /\ plans \in [Plans -> {"new", "on", "off", "gone"}]
  /\ made \in [Clicks -> 0..BatchSize]
  /\ trail \subseteq Clicks /\ done \subseteq Clicks
  /\ \A n \in Clicks : click[n] \in Click \cup {Unused}
  /\ page.tab \in Tabs \cup {"none"}
  /\ page.rows \subseteq RowsOf(page.tab)
  /\ page.dialog \in Users \cup {NoUser}
  /\ page.batch \subseteq Vouchers
  /\ \A f \in Refreshes : /\ refresh[f].pc \in {"idle", "sent", "done"}
                          /\ refresh[f].rows \subseteq RowsOf(page.tab)

Init ==
  /\ granted = [u \in Users |-> 0]
  /\ plans \in [Plans -> {"new", "on"}]
  /\ made = [n \in Clicks |-> 0]
  /\ trail = {} /\ done = {}
  /\ click = [n \in Clicks |-> Unused]
  /\ page = NoPage
  /\ refresh = [f \in Refreshes |-> Idle]

-----------------------------------------------------------------------------
(***************************************************************************)
(* Pages and listings.                                                     *)
(***************************************************************************)
FreeRefreshes == {f \in Refreshes : refresh[f] = Idle}

\* refresh(); beyond the bound it counts as failed.
Refresh ==
  refresh' = [f \in Refreshes |->
    IF f \in FreeRefreshes /\ f = CHOOSE g \in FreeRefreshes : TRUE
    THEN [pc |-> "sent", rows |-> {}] ELSE refresh[f]]

\* Nobody waits for the answer of a click any more; the handler goes on.
Deaf(c) ==
  [c EXCEPT !.ui = "over", !.srv = IF @ = "logged" THEN "over" ELSE @]

\* A page is left.
Unheard == click' = [n \in Clicks |-> Deaf(click[n])]

\* Mutant: a listing is shown by whichever page is mounted when it arrives.
Unlisted_Mutant == refresh

\* The listings of a page that is left are shown nowhere.
Unlisted == [f \in Refreshes |-> Idle]

\* A tab is opened: its page is mounted with empty state and sends its first
\* listing.
Open(tab) ==
  /\ page.tab # tab
  /\ page' = [NoPage EXCEPT !.tab = tab]
  /\ Unheard
  /\ refresh' = [f \in Refreshes |->
       IF f = CHOOSE g \in Refreshes : TRUE
       THEN [pc |-> "sent", rows |-> {}] ELSE Unlisted[f]]
  /\ UNCHANGED <<tables, trail>>

\* Back to the overview, or logout, after which App shows the login form instead
\* of the layout.
Leave ==
  /\ page.tab # "none"
  /\ page' = NoPage
  /\ Unheard
  /\ refresh' = Unlisted
  /\ UNCHANGED <<tables, trail>>

\* A letter more or less in the search field lists the accounts anew.
Search ==
  /\ page.tab = "users" /\ page.dialog = NoUser /\ FreeRefreshes # {}
  /\ Refresh
  /\ UNCHANGED <<tables, trail, click, page>>

\* What the listing of a page returns: the accounts are those the search text
\* matches.
Listings ==
  CASE page.tab = "users" -> SUBSET Users
    [] page.tab = "plans" ->
         {{[plan |-> p, active |-> plans[p] = "on"] :
             p \in {q \in Plans : plans[q] \in {"on", "off"}}}}
    [] page.tab = "vouchers" -> {{v \in Vouchers : v[2] <= made[v[1]]}}
    [] page.tab = "audit" -> {trail}
    [] OTHER -> {}

RefreshAnswer(f) ==
  /\ refresh[f].pc = "sent"
  /\ \E rows \in Listings :
       refresh' = [refresh EXCEPT ![f] = [pc |-> "done", rows |-> rows]]
  /\ UNCHANGED <<tables, trail, click, page>>

\* An error, and the rows stay.
RefreshFail(f) ==
  /\ refresh[f].pc = "sent"
  /\ refresh' = [refresh EXCEPT ![f] = Idle]
  /\ UNCHANGED <<tables, trail, click, page>>

\* Whichever listing arrives last is shown.
RefreshDone(f) ==
  /\ refresh[f].pc = "done"
  /\ page' = [page EXCEPT !.rows = refresh[f].rows]
  /\ refresh' = [refresh EXCEPT ![f] = Idle]
  /\ UNCHANGED <<tables, trail, click>>

-----------------------------------------------------------------------------
(***************************************************************************)
(* Clicks.  No button is disabled while a click is under way.              *)
(***************************************************************************)
Send(op, row) ==
  /\ \E n \in Clicks :
       /\ \A i \in Clicks : click[i] = Unused <=> i >= n
       /\ click' = [click EXCEPT ![n] =
            [op |-> op, row |-> row, srv |-> "sent", ui |-> "waiting"]]
  /\ UNCHANGED <<tables, trail, page, refresh>>

\* "Grant time" beside a row opens the dialog, which covers the table.
OpenDialog(u) ==
  /\ page.tab = "users" /\ page.dialog = NoUser /\ u \in page.rows
  /\ page' = [page EXCEPT !.dialog = u]
  /\ UNCHANGED <<tables, trail, click, refresh>>

CancelDialog ==
  /\ page.dialog # NoUser
  /\ page' = [page EXCEPT !.dialog = NoUser]
  /\ UNCHANGED <<tables, trail, click, refresh>>

\* What the pages show to be clicked on.
PlanForm == page.tab = "plans"
PlanTable(r) == page.tab = "plans" /\ r \in page.rows
VoucherForm == page.tab = "vouchers"

Grant == page.dialog # NoUser /\ Send("grant", page.dialog)
CreatePlan == PlanForm /\ Send("create", NoUser)
TogglePlan(r) == PlanTable(r) /\ Send("switch", r)
RemovePlan(r) == PlanTable(r) /\ Send("remove", r)
Generate == VoucherForm /\ Send("generate", NoUser)

\* The CSV has the last batch, or else all that is listed.
Exported == IF page.batch # {} THEN page.batch ELSE page.rows

-----------------------------------------------------------------------------
(***************************************************************************)
(* The backend: a handler executes its statements, logs, and answers.      *)
(***************************************************************************)
InBackend(n, pc) == click[n].srv = pc
To(n, pc) == click' = [click EXCEPT ![n].srv = pc]

Commit(n) == To(n, "done") /\ done' = done \cup {n}

ExecuteGrant(n) ==
  /\ InBackend(n, "sent") /\ click[n].op = "grant"
  /\ granted' = [granted EXCEPT ![click[n].row] = @ + 1]
  /\ Commit(n)
  /\ UNCHANGED <<plans, made, trail, page, refresh>>

ExecuteCreate(n) ==
  /\ InBackend(n, "sent") /\ click[n].op = "create"
  /\ \E p \in Plans : plans[p] = "new" /\ plans' = [plans EXCEPT ![p] = "on"]
  /\ Commit(n)
  /\ UNCHANGED <<granted, made, trail, page, refresh>>

\* PATCH { active: !plan.active }, of the plan as the table showed it.
Switched(r) == IF r.active THEN "off" ELSE "on"

ExecuteSwitch(n) ==
  LET r == click[n].row IN
  /\ InBackend(n, "sent") /\ click[n].op = "switch"
  /\ plans[r.plan] \in {"on", "off"}
  /\ plans' = [plans EXCEPT ![r.plan] = Switched(r)]
  /\ Commit(n)
  /\ UNCHANGED <<granted, made, trail, page, refresh>>

\* A plan that was requested is switched off, another one deleted; deleting
\* what is gone succeeds.
ExecuteRemove(n) ==
  LET p == click[n].row.plan IN
  /\ InBackend(n, "sent") /\ click[n].op = "remove"
  /\ \E to \in IF plans[p] = "gone" THEN {"gone"} ELSE {"off", "gone"} :
       plans' = [plans EXCEPT ![p] = to]
  /\ Commit(n)
  /\ UNCHANGED <<granted, made, trail, page, refresh>>

\* Mutant: an INSERT too few.
Complete_Mutant(n) == made[n] >= BatchSize - 1

\* while (codes.length < dto.count)
Complete(n) == made[n] >= BatchSize

\* One INSERT of the loop; how many codes it adds is up to the collisions.
ExecuteInsert(n) ==
  /\ InBackend(n, "sent") /\ click[n].op = "generate" /\ ~Complete(n)
  /\ \E k \in (made[n] + 1)..BatchSize : made' = [made EXCEPT ![n] = k]
  /\ UNCHANGED <<granted, plans, done, trail, click, page, refresh>>

ExecuteGenerate(n) ==
  /\ InBackend(n, "sent") /\ click[n].op = "generate" /\ Complete(n)
  /\ Commit(n)
  /\ UNCHANGED <<granted, plans, made, trail, page, refresh>>

\* 400, 404 or 500: a field that is no number, a plan that is gone, a statement
\* that fails; or the click never gets to the backend.
Refuse(n) ==
  /\ InBackend(n, "sent")
  /\ click' = [click EXCEPT ![n].srv = "over", ![n].ui = "over"]
  /\ UNCHANGED <<tables, trail, page, refresh>>

\* Mutant: the entry is written before the change.
MayLog_Mutant(n) == InBackend(n, "sent") /\ n \notin trail
MayLog(n) == InBackend(n, "done")

\* audit.log; an INSERT that fails is swallowed.
Log(n) ==
  /\ MayLog(n)
  /\ trail' \in {trail \cup {n}, trail}
  /\ IF n \in done THEN To(n, IF click[n].ui = "waiting" THEN "logged" ELSE "over")
     ELSE UNCHANGED click
  /\ UNCHANGED <<tables, page, refresh>>

\* Mutant: the browser sends the click again.
Unanswered_Mutant(n) == click' = [click EXCEPT ![n].srv = "sent"]

\* The fetch throws: an error is shown, and nothing is sent again.
Unanswered(n) == click' = [click EXCEPT ![n] = Deaf(@)]

\* The connection is lost; the handler goes on.
Lose(n) ==
  /\ click[n].ui = "waiting"
  /\ Unanswered(n)
  /\ UNCHANGED <<tables, trail, page, refresh>>

\* The backend dies with every handler in it.
Crash ==
  /\ click' = [n \in Clicks |->
       IF InBackend(n, "over") THEN click[n]
       ELSE [click[n] EXCEPT !.srv = "over", !.ui = "over"]]
  /\ click' # click
  /\ UNCHANGED <<tables, trail, page, refresh>>

\* Mutant: a failed entry takes the answer down.
MayAnswer_Mutant(n) == InBackend(n, "logged") /\ n \in trail
MayAnswer(n) == InBackend(n, "logged")

\* The answer, and what the page does with it: it closes the dialog, whosever it
\* is by now, or shows the batch, and lists its rows again.
Answer(n) ==
  /\ MayAnswer(n)
  /\ click' = [click EXCEPT ![n].srv = "over", ![n].ui = "over"]
  /\ page' = CASE click[n].op = "grant" -> [page EXCEPT !.dialog = NoUser]
               [] click[n].op = "generate" ->
                    [page EXCEPT !.batch = {v \in Vouchers : v[1] = n /\ v[2] <= made[n]}]
               [] OTHER -> page
  /\ Refresh
  /\ UNCHANGED <<tables, trail>>

\* Another dashboard changes a plan.
PlansElsewhere(p) ==
  /\ plans[p] # "gone"
  /\ \E to \in {"on", "off", "gone"} :
       plans' = [plans EXCEPT ![p] = IF plans[p] = "new" THEN "on" ELSE to]
  /\ UNCHANGED <<granted, made, done, trail, click, page, refresh>>

-----------------------------------------------------------------------------
Browsing ==
  \/ \E tab \in Tabs : Open(tab)
  \/ Leave \/ Search \/ CancelDialog \/ Grant \/ CreatePlan \/ Generate
  \/ \E u \in Users : OpenDialog(u)
  \/ \E r \in PlanRow : TogglePlan(r) \/ RemovePlan(r)
  \/ \E f \in Refreshes : RefreshAnswer(f) \/ RefreshFail(f) \/ RefreshDone(f)

Execute(n) ==
  \/ ExecuteGrant(n) \/ ExecuteCreate(n) \/ ExecuteSwitch(n) \/ ExecuteRemove(n)
  \/ ExecuteInsert(n) \/ ExecuteGenerate(n) \/ Refuse(n)

Next ==
  \/ Browsing
  \/ \E n \in Clicks : Execute(n) \/ Log(n) \/ Answer(n) \/ Lose(n)
  \/ Crash
  \/ \E p \in Plans : PlansElsewhere(p)

(***************************************************************************)
(* Fairness.  Express runs a handler to its answer, and the answer reaches *)
(* a browser that still waits.  Nothing is assumed of the admin, of        *)
(* listings or of faults.                                                  *)
(***************************************************************************)
Fairness ==
  \A n \in Clicks : WF_vars(Execute(n)) /\ WF_vars(Log(n)) /\ WF_vars(Answer(n))

Spec == Init /\ [][Next]_vars /\ Fairness

-----------------------------------------------------------------------------
\* One click grants once: a lost answer, a crash or a page that was left never
\* grants a second time, and no grant is without its click.
GrantedOncePerClick ==
  \A u \in Users :
    granted[u] = Cardinality({n \in done : click[n].op = "grant" /\ click[n].row = u})

\* What the trail tells of is committed: a crash or a failing statement leaves a
\* change without its entry, never an entry without its change.
TrailIsTrue == trail \subseteq done

\* The change, the click and the entry in the trail agree, whatever is lost.
ClicksAreAccounted == GrantedOncePerClick /\ TrailIsTrue

\* The batch a page announces and exports is whole, all that its click has
\* inserted, however many others were under way and whatever became of them.
BatchIsWhole ==
  page.batch # {} =>
    \E n \in Clicks : Exported = {v \in Vouchers : v[1] = n}

\* Every click ends, with an answer, an error or its page left: a failing audit
\* INSERT takes down no request.
EveryClickEnds ==
  \A n \in Clicks : (click[n].ui = "waiting") ~> (click[n].ui = "over")
=============================================================================
