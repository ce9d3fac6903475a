---------------------------- MODULE CounterProofs ----------------------------
(***************************************************************************)
(* Theorems about Counter, for every number of customers, of POSTs, of     *)
(* refreshes and decisions in flight, and of requests.                     *)
(***************************************************************************)
EXTENDS Counter, FiniteSetTheorems, TLAPS

\* A row of the customer exists.
HasAsked(u) == \E r \in Ids : requests[r] # Free /\ requests[r].user = u

\* A POST whose answer the mounted component still waits for or is to use.
Awaited(a) == (a.pc = "sent" /\ a.mine) \/ a.pc \in {"done", "failed"}

\* What the answers under way will say is so already.
AnswersAreEarned ==
  /\ \A u \in Customers : page[u].mounted /\ page[u].asked = "some" => HasAsked(u)
  /\ \A u \in Customers, p \in Posts : Announces(post[u][p]) => HasAsked(u)

\* While a page awaits a POST its buttons are disabled, so there is one only.
BusyForOne ==
  /\ \A u \in Customers, p \in Posts :
       Awaited(post[u][p]) => page[u].mounted /\ page[u].busy
  /\ \A u \in Customers : \A p, q \in Posts :
       Awaited(post[u][p]) /\ Awaited(post[u][q]) => p = q

IInv == TypeOK /\ AnswersAreEarned /\ BannerIsEarned /\ BusyForOne

-----------------------------------------------------------------------------
\* Rows are never freed and never change hands.
Grow ==
  \A r \in Ids : requests[r] # Free =>
    requests'[r] # Free /\ requests'[r].user = requests[r].user

\* Under such a step, who has asked has asked.
LEMMA AskedStays ==
  ASSUME Grow, NEW u \in Customers, HasAsked(u)
  PROVE  HasAsked(u)'
BY DEF Grow, HasAsked

\* The record of a page and of a POST.
LEMMA PageFields ==
  ASSUME TypeOK, NEW u \in Customers, page[u].mounted
  PROVE  page[u] \in Page
BY DEF TypeOK, Unmounted

\* A POST that is not idle is one.
LEMMA PostFields ==
  ASSUME TypeOK, NEW u \in Customers, NEW p \in Posts, post[u][p].pc # "idle"
  PROVE  post[u][p] \in Post
BY DEF TypeOK, Idle

\* The pending rows of a customer are rows of his.
LEMMA PendingIsAsked ==
  ASSUME TypeOK, NEW u \in Customers, PendingOf(u) # {}
  PROVE  HasAsked(u)
BY DEF TypeOK, PendingOf, HasAsked, Free

\* What is under way when its component goes away is no longer awaited.
LEMMA UnheardPost ==
  ASSUME NEW a \in Post \cup {Idle}
  PROVE  /\ Unheard(a) \in Post \cup {Idle}
         /\ ~Awaited(Unheard(a)) /\ ~Announces(Unheard(a))
<1>1. CASE a.pc = "sent"
  <2>1. a \in [pc : {"sent"}, voucher : BOOLEAN, mine : BOOLEAN]
    BY <1>1 DEF Post, Idle
  <2>2. Unheard(a) = [pc |-> "sent", voucher |-> a.voucher, mine |-> FALSE]
    BY <1>1, <2>1 DEF Unheard
  <2> QED BY <2>1, <2>2 DEF Post, Awaited, Announces
<1>2. CASE a.pc # "sent"
  BY <1>2 DEF Unheard, Idle, Awaited, Announces
<1> QED BY <1>1, <1>2

\* The same of a decision.
LEMMA UnheardDecide ==
  ASSUME NEW a \in Decide \cup {Idle}
  PROVE  Unheard(a) \in Decide \cup {Idle}
<1>1. CASE a.pc = "sent"
  <2>1. a \in [pc : {"sent"}, id : Ids, mine : BOOLEAN]
    BY <1>1 DEF Decide, Idle
  <2>2. Unheard(a) = [pc |-> "sent", id |-> a.id, mine |-> FALSE]
    BY <1>1, <2>1 DEF Unheard
  <2> QED BY <2>1, <2>2 DEF Decide
<1>2. CASE a.pc # "sent"
  BY <1>2 DEF Unheard
<1> QED BY <1>1, <1>2

\* The invariant holds initially.
LEMMA InitStep == Init => IInv
<1> SUFFICES ASSUME Init
             PROVE  IInv
  OBVIOUS
<1>1. TypeOK
  BY DEF Init, TypeOK, Closed, Idle, Free, Unmounted
<1>2. AnswersAreEarned /\ BannerIsEarned /\ BusyForOne
  BY DEF Init, AnswersAreEarned, BannerIsEarned, BusyForOne, Announces,
         Awaited, Idle, Unmounted
<1> QED BY <1>1, <1>2 DEF IInv

-----------------------------------------------------------------------------
(***************************************************************************)
(* One lemma per kind of step.                                             *)
(***************************************************************************)

\* Steps that leave POSTs alone and change at most one page, whose banner and
\* whose answered listing are then earned.
LEMMA PageStep ==
  ASSUME IInv, NEW u \in Customers, NEW g,
         g \in Page \cup {Unmounted},
         page' = [page EXCEPT ![u] = g],
         UNCHANGED <<requests, post, overview, refresh, decide>>,
         g.mounted /\ (g.pending \/ g.asked = "some") => HasAsked(u),
         \A p \in Posts : Awaited(post[u][p]) => g.mounted /\ g.busy
  PROVE  IInv'
<1>1. TypeOK'
  BY DEF IInv, TypeOK
<1>2. \A v \in Customers : page'[v] = IF v = u THEN g ELSE page[v]
  BY DEF IInv, TypeOK
<1>3. AnswersAreEarned' /\ BannerIsEarned'
  BY <1>2 DEF IInv, AnswersAreEarned, BannerIsEarned, HasAsked, Announces
<1>4. BusyForOne'
  BY <1>2 DEF IInv, BusyForOne, Awaited
<1> QED BY <1>1, <1>3, <1>4 DEF IInv

\* Mounting the component and its GET.
LEMMA ListingStep ==
  ASSUME IInv, NEW u \in Customers,
         Mount(u) \/ ListMine(u) \/ ListMineFail(u) \/ ListMineDone(u)
  PROVE  IInv'
<1>1. CASE Mount(u)
  <2>1. \A p \in Posts : ~Awaited(post[u][p])
    BY <1>1 DEF Mount, Unmounted, IInv, BusyForOne
  <2>2. Mounted \in Page
    BY DEF Mounted, Page
  <2> QED BY <1>1, <2>1, <2>2, PageStep DEF Mount, Mounted
<1>2. CASE ListMine(u)
  <2>1. page[u] \in Page
    BY <1>2, PageFields DEF ListMine, IInv
  <2>2. PICK a \in {"some", "none"} :
          /\ page' = [page EXCEPT ![u] = [page[u] EXCEPT !.asked = a]]
          /\ a = "some" => PendingOf(u) # {}
    BY <1>2 DEF ListMine
  <2> DEFINE g == [page[u] EXCEPT !.asked = a]
  <2>3. /\ g \in Page /\ g.asked = a /\ g.mounted
        /\ g.pending = page[u].pending /\ g.busy = page[u].busy
    BY <2>1 DEF Page
  <2>4. g.pending \/ g.asked = "some" => HasAsked(u)
    BY <1>2, <2>2, <2>3, PendingIsAsked DEF ListMine, IInv, BannerIsEarned, HasAsked
  <2>5. \A p \in Posts : Awaited(post[u][p]) => g.mounted /\ g.busy
    BY <2>3 DEF IInv, BusyForOne
  <2> HIDE DEF g
  <2> QED BY <1>2, <2>2, <2>3, <2>4, <2>5, PageStep DEF ListMine, g
<1>3. CASE ListMineFail(u)
  <2>1. page[u] \in Page
    BY <1>3, PageFields DEF ListMineFail, IInv
  <2> DEFINE g == [page[u] EXCEPT !.asked = "over"]
  <2>2. /\ g \in Page /\ g.asked = "over" /\ g.mounted
        /\ g.pending = page[u].pending /\ g.busy = page[u].busy
    BY <2>1 DEF Page
  <2>3. g.pending \/ g.asked = "some" => HasAsked(u)
    BY <1>3, <2>2 DEF ListMineFail, IInv, BannerIsEarned, HasAsked
  <2>4. \A p \in Posts : Awaited(post[u][p]) => g.mounted /\ g.busy
    BY <2>2 DEF IInv, BusyForOne
  <2>5. page' = [page EXCEPT ![u] = g]
    BY <1>3 DEF ListMineFail
  <2> HIDE DEF g
  <2> QED BY <1>3, <2>2, <2>3, <2>4, <2>5, PageStep DEF ListMineFail
<1>4. CASE ListMineDone(u)
  <2>1. page[u] \in Page
    BY <1>4, PageFields DEF ListMineDone, IInv
  <2> DEFINE g == [page[u] EXCEPT !.asked = "over", !.pending = page[u].asked = "some"]
  <2>2. /\ g \in Page /\ g.asked = "over" /\ g.mounted
        /\ g.pending => page[u].asked = "some"
        /\ g.busy = page[u].busy
    BY <2>1 DEF Page
  <2>3. g.pending \/ g.asked = "some" => HasAsked(u)
    BY <1>4, <2>2 DEF ListMineDone, IInv, AnswersAreEarned
  <2>4. \A p \in Posts : Awaited(post[u][p]) => g.mounted /\ g.busy
    BY <2>2 DEF IInv, BusyForOne
  <2>5. page' = [page EXCEPT ![u] = g]
    BY <1>4 DEF ListMineDone
  <2> HIDE DEF g
  <2> QED BY <1>4, <2>2, <2>3, <2>4, <2>5, PageStep DEF ListMineDone
<1> QED BY <1>1, <1>2, <1>3, <1>4

\* Unmounting: what is under way is no longer awaited.
LEMMA UnmountStep ==
  ASSUME IInv, NEW u \in Customers, Unmount(u)
  PROVE  IInv'
<1>1. \A p \in Posts : Unheard(post[u][p]) \in Post \cup {Idle}
  BY UnheardPost DEF IInv, TypeOK
<1>2. \A p \in Posts :
        ~Awaited(Unheard(post[u][p])) /\ ~Announces(Unheard(post[u][p]))
  BY UnheardPost DEF IInv, TypeOK
<1>3. /\ page' = [page EXCEPT ![u] = Unmounted]
      /\ post' = [post EXCEPT ![u] = [p \in Posts |-> Unheard(post[u][p])]]
      /\ UNCHANGED <<requests, overview, refresh, decide>>
  BY DEF Unmount
<1>4. /\ \A v \in Customers : page'[v] = IF v = u THEN Unmounted ELSE page[v]
      /\ \A v \in Customers, p \in Posts :
           post'[v][p] = IF v = u THEN Unheard(post[u][p]) ELSE post[v][p]
  BY <1>3 DEF IInv, TypeOK
<1>5. TypeOK'
  BY <1>1, <1>3 DEF IInv, TypeOK
<1>6. AnswersAreEarned' /\ BannerIsEarned'
  BY <1>2, <1>3, <1>4
     DEF IInv, AnswersAreEarned, BannerIsEarned, HasAsked, Announces, Unmounted
<1>7. BusyForOne'
  BY <1>2, <1>4 DEF IInv, BusyForOne, Awaited
<1> QED BY <1>5, <1>6, <1>7 DEF IInv

\* A POST is sent when the buttons are enabled, so when none is awaited.
LEMMA SubmitStep ==
  ASSUME IInv, NEW u \in Customers, NEW voucher \in BOOLEAN, Submit(u, voucher)
  PROVE  IInv'
<1> DEFINE a == [pc |-> "sent", voucher |-> voucher, mine |-> TRUE]
<1>1. PICK p \in Posts : post' = [post EXCEPT ![u][p] = a]
  BY DEF Submit, FreePosts
<1>2. page[u] \in Page /\ ~page[u].busy
  BY PageFields DEF Submit, MaySubmit, IInv
<1> DEFINE g == [page[u] EXCEPT !.busy = TRUE]
<1>3. /\ g \in Page /\ g.mounted /\ g.busy
      /\ g.pending = page[u].pending /\ g.asked = page[u].asked
  BY <1>2 DEF Page
<1>4. a \in Post /\ ~Announces(a)
  BY DEF Post, Announces
<1>5. /\ page' = [page EXCEPT ![u] = g]
      /\ UNCHANGED <<requests, overview, refresh, decide>>
  BY DEF Submit
<1> HIDE DEF a, g
<1>6. /\ \A v \in Customers : page'[v] = IF v = u THEN g ELSE page[v]
      /\ \A v \in Customers, q \in Posts :
           post'[v][q] = IF v = u /\ q = p THEN a ELSE post[v][q]
  BY <1>1, <1>5 DEF IInv, TypeOK
<1>7. TypeOK'
  BY <1>1, <1>3, <1>4, <1>5 DEF IInv, TypeOK
<1>8. page[u].mounted
  BY DEF Submit, MaySubmit
<1>9. AnswersAreEarned' /\ BannerIsEarned'
  BY <1>3, <1>4, <1>5, <1>6, <1>8
     DEF IInv, AnswersAreEarned, BannerIsEarned, HasAsked, Announces
<1>10. \A q \in Posts : ~Awaited(post[u][q])
  BY <1>2 DEF IInv, BusyForOne
<1>11. BusyForOne'
  BY <1>3, <1>6, <1>10 DEF IInv, BusyForOne, Awaited
<1> QED BY <1>7, <1>9, <1>11 DEF IInv

\* A POST in flight becomes b, a successful answer to a request only once the
\* row is there; the page may be told nothing but what b allows.
LEMMA AnswerStep ==
  ASSUME IInv, NEW u \in Customers, NEW p \in Posts, NEW b \in Post \cup {Idle},
         post' = [post EXCEPT ![u][p] = b],
         requests' \in
           [Ids -> [status : {"pending", "decided"}, user : Customers] \cup {Free}],
         Grow,
         UNCHANGED <<page, overview, refresh, decide>>,
         Announces(b) => HasAsked(u)',
         Awaited(b) => Awaited(post[u][p])
  PROVE  IInv'
<1>1. TypeOK'
  BY DEF IInv, TypeOK
<1>2. \A v \in Customers, q \in Posts :
        post'[v][q] = IF v = u /\ q = p THEN b ELSE post[v][q]
  BY DEF IInv, TypeOK
<1>3. \A v \in Customers : HasAsked(v) => HasAsked(v)'
  BY AskedStays
<1>4. AnswersAreEarned'
  BY <1>2, <1>3 DEF IInv, AnswersAreEarned, Announces
<1>5. BannerIsEarned'
  BY <1>3 DEF IInv, BannerIsEarned, HasAsked
<1>6. BusyForOne'
  BY <1>2 DEF IInv, BusyForOne, Awaited
<1> QED BY <1>1, <1>4, <1>5, <1>6 DEF IInv

\* What an answered or failed POST becomes.
LEMMA AnswerFits ==
  ASSUME TypeOK, NEW u \in Customers, NEW p \in Posts, post[u][p].pc = "sent",
         NEW pc \in {"done", "failed"}, NEW b,
         b = IF post[u][p].mine THEN [pc |-> pc, voucher |-> post[u][p].voucher]
             ELSE Idle
  PROVE  /\ b \in Post \cup {Idle}
         /\ Awaited(b) => Awaited(post[u][p])
         /\ Announces(b) => pc = "done" /\ ~post[u][p].voucher
BY PostFields DEF Post, Idle, Awaited, Announces

\* The backend answers, refuses, or is not reached.
LEMMA PostStep ==
  ASSUME IInv, NEW u \in Customers, NEW p \in Posts,
         \/ CreateReplaces(u, p) \/ CreateInserts(u, p)
         \/ Redeems(u, p) \/ PostFails(u, p)
  PROVE  IInv'
<1> DEFINE Answer(pc) ==
      IF post[u][p].mine THEN [pc |-> pc, voucher |-> post[u][p].voucher] ELSE Idle
<1>1. /\ post[u][p].pc = "sent"
      /\ UNCHANGED <<page, overview, refresh, decide>>
  BY DEF CreateReplaces, CreateInserts, Redeems, PostFails
<1>2. PICK pc \in {"done", "failed"} :
        /\ post' = [post EXCEPT ![u][p] = Answer(pc)]
        /\ PostFails(u, p) => pc = "failed"
  <2>1. CASE PostFails(u, p)
    BY <2>1 DEF PostFails
  <2>2. CASE ~PostFails(u, p)
    BY <2>2 DEF CreateReplaces, CreateInserts, Redeems, Answered
  <2> QED BY <2>1, <2>2
<1>3. PICK b : b = Answer(pc)
  OBVIOUS
<1>4. /\ b \in Post \cup {Idle}
      /\ Awaited(b) => Awaited(post[u][p])
      /\ Announces(b) => pc = "done" /\ ~post[u][p].voucher
  BY <1>1, <1>3, AnswerFits DEF IInv
<1>5. post' = [post EXCEPT ![u][p] = b]
  BY <1>2, <1>3
<1>6. CASE CreateInserts(u, p)
  <2>1. PICK r \in Ids :
          /\ \A i \in Ids : requests[i] = Free <=> i >= r
          /\ requests' = [requests EXCEPT ![r] = [status |-> "pending", user |-> u]]
    BY <1>6 DEF CreateInserts
  <2>2. requests[r] = Free
    BY <2>1 DEF Ids
  <2>3. [status |-> "pending", user |-> u] # Free
    BY DEF Free
  <2>4. /\ Grow /\ HasAsked(u)'
        /\ requests' \in
             [Ids -> [status : {"pending", "decided"}, user : Customers] \cup {Free}]
    BY <2>1, <2>2, <2>3 DEF IInv, TypeOK, Grow, HasAsked
  <2> QED BY <1>1, <1>4, <1>5, <2>4, AnswerStep
<1>7. CASE ~CreateInserts(u, p)
  <2>1. requests' = requests
    BY <1>7 DEF CreateReplaces, Redeems, PostFails
  <2>2. /\ Grow
        /\ requests' \in
             [Ids -> [status : {"pending", "decided"}, user : Customers] \cup {Free}]
    BY <2>1 DEF Grow, IInv, TypeOK
  <2>3. Announces(b) => HasAsked(u)
    BY <1>2, <1>4, <1>7, PendingIsAsked DEF CreateReplaces, Redeems, IInv
  <2>4. Announces(b) => HasAsked(u)'
    BY <2>2, <2>3, AskedStays
  <2> QED BY <1>1, <1>4, <1>5, <2>2, <2>4, AnswerStep
<1> QED BY <1>6, <1>7

\* An answer is used: the banner goes up if it announces a row, and the buttons
\* are enabled again, as no other POST is awaited.
LEMMA PostDoneStep ==
  ASSUME IInv, NEW u \in Customers, NEW p \in Posts, PostDone(u, p)
  PROVE  IInv'
<1>1. Awaited(post[u][p])
  BY DEF PostDone, Awaited
<1>2. page[u].mounted /\ page[u] \in Page
  BY <1>1, PageFields DEF IInv, BusyForOne
<1> DEFINE g == [page[u] EXCEPT !.busy = FALSE,
                                !.pending = page[u].pending \/ Announces(post[u][p])]
<1>3. /\ g \in Page /\ g.mounted /\ g.asked = page[u].asked
      /\ g.pending => page[u].pending \/ Announces(post[u][p])
  BY <1>2 DEF Page
<1>4. /\ page' = [page EXCEPT ![u] = g]
      /\ post' = [post EXCEPT ![u][p] = Idle]
      /\ UNCHANGED <<requests, overview, refresh, decide>>
  BY DEF PostDone
<1> HIDE DEF g
<1>5. /\ \A v \in Customers : page'[v] = IF v = u THEN g ELSE page[v]
      /\ \A v \in Customers, q \in Posts :
           post'[v][q] = IF v = u /\ q = p THEN Idle ELSE post[v][q]
  BY <1>4 DEF IInv, TypeOK
<1>6. TypeOK'
  BY <1>3, <1>4 DEF IInv, TypeOK
<1>7. AnswersAreEarned' /\ BannerIsEarned'
  BY <1>2, <1>3, <1>4, <1>5
     DEF IInv, AnswersAreEarned, BannerIsEarned, HasAsked, Announces, Idle
<1>8. \A q \in Posts : q # p => ~Awaited(post[u][q])
  BY <1>1 DEF IInv, BusyForOne
<1>9. BusyForOne'
  BY <1>5, <1>8 DEF IInv, BusyForOne, Awaited, Idle
<1> QED BY <1>6, <1>7, <1>9 DEF IInv

\* The dashboard's steps leave pages alone, and a decision keeps the row.
LEMMA DashboardFrame ==
  ASSUME IInv, TypeOK', Grow, UNCHANGED <<page, post>>
  PROVE  IInv'
<1>1. \A u \in Customers : HasAsked(u) => HasAsked(u)'
  BY AskedStays
<1> QED BY <1>1 DEF IInv, AnswersAreEarned, BannerIsEarned, HasAsked, BusyForOne,
                    Announces, Awaited

\* refresh() keeps the type of the refreshes.
LEMMA RefreshFits ==
  ASSUME TypeOK, Refresh
  PROVE  refresh' \in
           [Refreshes -> {Idle, [pc |-> "sent"]} \cup [pc : {"done"}, rows : SUBSET Ids]]
BY DEF TypeOK, Refresh

\* The overview comes, goes and refreshes.
LEMMA OverviewStep ==
  ASSUME IInv,
         \/ OverviewOpen \/ OverviewClose \/ RefreshSend
         \/ \E f \in Refreshes : RefreshAnswer(f) \/ RefreshFail(f) \/ RefreshDone(f)
  PROVE  IInv'
<1>1. UNCHANGED <<requests, page, post>>
  BY DEF OverviewOpen, OverviewClose, RefreshSend, RefreshAnswer, RefreshFail, RefreshDone
<1>2. overview' \in [mounted : BOOLEAN, listed : SUBSET Ids]
  <2>1. ASSUME NEW f \in Refreshes, RefreshDone(f)
        PROVE  refresh[f].rows \in SUBSET Ids
    BY <2>1 DEF RefreshDone, IInv, TypeOK, Idle
  <2>2. ASSUME NEW f \in Refreshes, RefreshDone(f)
        PROVE  overview' \in [mounted : BOOLEAN, listed : SUBSET Ids]
    <3>1. overview' = [overview EXCEPT !.listed = refresh[f].rows]
      BY <2>2 DEF RefreshDone
    <3>2. overview \in [mounted : BOOLEAN, listed : SUBSET Ids]
      BY DEF IInv, TypeOK
    <3>3. overview' = [mounted |-> overview.mounted, listed |-> refresh[f].rows]
      BY <3>1, <3>2
    <3>4. refresh[f].rows \in SUBSET Ids
      BY <2>1, <2>2
    <3> QED BY <3>2, <3>3, <3>4
  <2>3. CASE OverviewOpen \/ OverviewClose
    <3>1. \/ overview' = [mounted |-> TRUE, listed |-> {}]
          \/ overview' = [mounted |-> FALSE, listed |-> {}]
      BY <2>3 DEF OverviewOpen, OverviewClose, Closed
    <3>2. PICK m \in BOOLEAN : overview' = [mounted |-> m, listed |-> {}]
      BY <3>1
    <3> QED BY <3>2
  <2>4. CASE UNCHANGED overview
    BY <2>4 DEF IInv, TypeOK
  <2> QED BY <2>2, <2>3, <2>4 DEF RefreshSend, RefreshAnswer, RefreshFail
<1>3. refresh' \in
        [Refreshes -> {Idle, [pc |-> "sent"]} \cup [pc : {"done"}, rows : SUBSET Ids]]
  <2>1. CASE OverviewOpen \/ RefreshSend
    BY <2>1, RefreshFits DEF OverviewOpen, RefreshSend, IInv
  <2>2. Listing \in SUBSET Ids
    BY DEF Listing
  <2>3. [pc |-> "done", rows |-> Listing] \in [pc : {"done"}, rows : SUBSET Ids]
    BY <2>2
  <2> QED BY <2>1, <2>3 DEF OverviewClose, RefreshAnswer, RefreshFail, RefreshDone,
                            IInv, TypeOK
<1>4. decide' \in [Decides -> Decide \cup {Idle}]
  <2>1. \A d \in Decides : Unheard(decide[d]) \in Decide \cup {Idle}
    BY UnheardDecide DEF IInv, TypeOK
  <2> QED BY <2>1 DEF OverviewOpen, OverviewClose, RefreshSend, RefreshAnswer,
                      RefreshFail, RefreshDone, IInv, TypeOK
<1> QED BY <1>1, <1>2, <1>3, <1>4, DashboardFrame DEF IInv, TypeOK, Grow

\* Decisions.
LEMMA DecidingStep ==
  ASSUME IInv,
         \/ \E d \in Decides :
              \/ \E r \in Ids : DecideClick(d, r)
              \/ DecideAnswer(d) \/ DecideFail(d) \/ DecideDone(d)
         \/ \E r \in Ids : DecideElsewhere(r)
  PROVE  IInv'
<1>1. UNCHANGED <<page, post, overview>>
  BY DEF DecideClick, DecideAnswer, DecideFail, DecideDone, DecideElsewhere
<1>2. refresh' \in
        [Refreshes -> {Idle, [pc |-> "sent"]} \cup [pc : {"done"}, rows : SUBSET Ids]]
  BY RefreshFits
     DEF DecideClick, DecideAnswer, DecideFail, DecideDone, DecideElsewhere, IInv, TypeOK
<1>3. decide' \in [Decides -> Decide \cup {Idle}]
  <2>1. /\ \A r \in Ids : [pc |-> "sent", id |-> r, mine |-> TRUE] \in Decide
        /\ \A pc \in {"done", "failed"} : [pc |-> pc] \in Decide
    BY DEF Decide
  <2>2. ASSUME NEW d \in Decides, NEW c \in Decide \cup {Idle},
               decide' = [decide EXCEPT ![d] = c]
        PROVE  decide' \in [Decides -> Decide \cup {Idle}]
    BY <2>2 DEF IInv, TypeOK
  <2>3. ASSUME NEW d \in Decides, NEW r \in Ids, DecideClick(d, r)
        PROVE  decide' \in [Decides -> Decide \cup {Idle}]
    BY <2>1, <2>2, <2>3 DEF DecideClick
  <2>4. ASSUME NEW d \in Decides, DecideAnswer(d) \/ DecideFail(d) \/ DecideDone(d)
        PROVE  decide' \in [Decides -> Decide \cup {Idle}]
    BY <2>1, <2>2, <2>4 DEF DecideAnswer, DecideFail, DecideDone
  <2> QED BY <2>3, <2>4 DEF DecideElsewhere, IInv, TypeOK
<1>4. \/ requests' = requests
      \/ \E r \in Ids : /\ requests[r].status = "pending"
                        /\ requests' = [requests EXCEPT ![r].status = "decided"]
  <2>1. \A d \in Decides : decide[d].pc = "sent" => decide[d].id \in Ids
    BY DEF IInv, TypeOK, Decide, Idle
  <2> QED BY <2>1 DEF DecideClick, DecideAnswer, DecideFail, DecideDone, DecideElsewhere
<1>5. /\ Grow
      /\ requests' \in
           [Ids -> [status : {"pending", "decided"}, user : Customers] \cup {Free}]
  BY <1>4 DEF IInv, TypeOK, Grow, Free
<1>6. TypeOK'
  BY <1>1, <1>2, <1>3, <1>5 DEF IInv, TypeOK
<1> QED BY <1>1, <1>5, <1>6, DashboardFrame

-----------------------------------------------------------------------------
\* The whole invariant, on every behaviour.
THEOREM Invariance == Spec => []IInv
<1>1. IInv /\ [Next]_vars => IInv'
  <2> SUFFICES ASSUME IInv, [Next]_vars
               PROVE  IInv'
    OBVIOUS
  <2>1. CASE Asking
    BY <2>1, ListingStep, UnmountStep, SubmitStep, PostStep, PostDoneStep DEF Asking
  <2>2. CASE Deciding
    BY <2>2, OverviewStep, DecidingStep DEF Deciding
  <2>3. CASE UNCHANGED vars
    BY <2>3, DashboardFrame DEF vars, IInv, TypeOK, Grow
  <2> QED BY <2>1, <2>2, <2>3 DEF Next
<1> QED BY <1>1, InitStep, PTL DEF Spec

\* Every variable keeps its type.
THEOREM TypeCorrect == Spec => []TypeOK
BY Invariance, PTL DEF IInv

\* The banner that sends a customer to the counter is up only for customers who
\* have a row there.
THEOREM BannerIsEarnedHolds == Spec => []BannerIsEarned
BY Invariance, PTL DEF IInv

\* A mounted page never has two POSTs under way, however often it is tapped,
\* unmounted and mounted again.
THEOREM OnePostAtATime == Spec => []OneAtATime
<1>1. IInv => OneAtATime
  <2> SUFFICES ASSUME IInv, NEW u \in Customers
               PROVE  Cardinality({p \in Posts : post[u][p].pc = "sent" /\ post[u][p].mine}) <= 1
    BY DEF OneAtATime
  <2> DEFINE S == {p \in Posts : post[u][p].pc = "sent" /\ post[u][p].mine}
  <2>1. \A p, q \in S : p = q
    BY DEF IInv, BusyForOne, Awaited
  <2>2. S = {} \/ \E p : S = {p}
    BY <2>1
  <2>3. ASSUME S = {}
        PROVE  Cardinality(S) = 0
    BY <2>3, FS_EmptySet
  <2>4. ASSUME NEW p, S = {p}
        PROVE  Cardinality(S) = 1
    BY <2>4, FS_Singleton
  <2> HIDE DEF S
  <2>5. Cardinality(S) <= 1
    BY <2>2, <2>3, <2>4
  <2> QED BY <2>5 DEF S
<1> QED BY <1>1, Invariance, PTL
=============================================================================
