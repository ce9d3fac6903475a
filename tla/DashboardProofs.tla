--------------------------- MODULE DashboardProofs --------------------------
(***************************************************************************)
(* Theorems about Dashboard, for every set of accounts, plans and          *)
(* listings, any number of clicks and any size of a batch.                 *)
(***************************************************************************)
EXTENDS Dashboard, FiniteSetTheorems, TLAPS

AnyRow == Users \cup PlanRow \cup Vouchers \cup Clicks

\* A click has the row its operation needs.
RowsFit ==
  \A n \in Clicks :
    /\ click[n].op = "grant" => click[n].row \in Users
    /\ click[n].op \in {"switch", "remove"} => click[n].row \in PlanRow

\* What is committed and where the handler is.
Marks ==
  \A n \in Clicks :
    /\ n \in done => click[n] # Unused /\ click[n].srv # "sent"
    /\ click[n].srv \in {"done", "logged"} => n \in done
    /\ n \in done /\ click[n].op = "generate" => made[n] = BatchSize

\* The half of the invariant about tables and handlers.
Backend ==
  /\ granted \in [Users -> 0..MaxClicks]
  /\ plans \in [Plans -> {"new", "on", "off", "gone"}]
  /\ made \in [Clicks -> 0..BatchSize]
  /\ trail \subseteq done /\ done \subseteq Clicks
  /\ click \in [Clicks -> Click \cup {Unused}]
  /\ RowsFit /\ Marks /\ GrantedOncePerClick

\* The half about the page.
Browser ==
  /\ page \in [tab : Tabs \cup {"none"}, rows : SUBSET AnyRow,
               dialog : Users \cup {NoUser}, batch : SUBSET Vouchers]
  /\ refresh \in [Refreshes -> [pc : {"idle", "sent", "done"}, rows : SUBSET AnyRow]]
  /\ page.rows \subseteq RowsOf(page.tab)
  /\ \A f \in Refreshes : refresh[f].rows \subseteq RowsOf(page.tab)
  /\ page.batch # {} => \E n \in Clicks : page.batch = {v \in Vouchers : v[1] = n}

IInv == Backend /\ Browser

-----------------------------------------------------------------------------
GrantsOf(u) == {n \in done : click[n].op = "grant" /\ click[n].row = u}

\* A set of clicks is finite and not larger than their number.
LEMMA ClicksFinite ==
  ASSUME NEW S \in SUBSET Clicks
  PROVE  IsFiniteSet(S) /\ Cardinality(S) \in Nat /\ Cardinality(S) <= MaxClicks
<1>1. 1 \in Int /\ MaxClicks \in Int /\ MaxClicks \in Nat
  BY DashboardAssumption
<1>2. IsFiniteSet(Clicks) /\ Cardinality(Clicks) = IF 1 > MaxClicks THEN 0 ELSE MaxClicks - 1 + 1
  BY <1>1, FS_Interval DEF Clicks
<1>3. Cardinality(Clicks) = MaxClicks
  BY <1>1, <1>2
<1> QED BY <1>2, <1>3, FS_Subset, FS_CardinalityType

\* What is listed fits the page.
LEMMA RowsAreRows ==
  ASSUME NEW tab \in Tabs \cup {"none"}
  PROVE  RowsOf(tab) \subseteq AnyRow
BY DEF RowsOf, Tabs, AnyRow

\* A listing's rows are rows of the page it is for.
LEMMA ListingsFit ==
  ASSUME IInv, NEW rows \in Listings
  PROVE  rows \subseteq RowsOf(page.tab)
<1>1. page.tab \in Tabs \cup {"none"}
  BY DEF IInv, Browser
<1>2. CASE page.tab = "users"
  BY <1>2 DEF Listings, RowsOf
<1>3. CASE page.tab = "plans"
  <2>1. \A p \in Plans : [plan |-> p, active |-> plans[p] = "on"] \in PlanRow
    BY DEF PlanRow
  <2>2. rows = {[plan |-> p, active |-> plans[p] = "on"] :
                  p \in {q \in Plans : plans[q] \in {"on", "off"}}}
    BY <1>3 DEF Listings
  <2>3. rows \subseteq PlanRow
    BY <2>1, <2>2
  <2> QED BY <1>3, <2>3 DEF RowsOf
<1>4. CASE page.tab = "vouchers"
  BY <1>4 DEF Listings, RowsOf
<1>5. CASE page.tab = "audit"
  BY <1>5 DEF Listings, RowsOf, IInv, Backend
<1>6. CASE page.tab = "none"
  BY <1>6 DEF Listings
<1> QED BY <1>1, <1>2, <1>3, <1>4, <1>5, <1>6 DEF Tabs

\* The fields of a click, used or not.
LEMMA ClickFields ==
  ASSUME Backend, NEW n \in Clicks
  PROVE  /\ click[n] \in [op : Ops \cup {"none"},
                          row : Users \cup PlanRow \cup {NoUser},
                          srv : {"sent", "done", "logged", "over"},
                          ui : {"waiting", "over"}]
         /\ click[n].op # "none" => click[n] \in Click
         /\ click[n] # Unused => click[n] \in Click
         /\ click[n].srv # "over" => click[n] \in Click
BY DEF Backend, Click, Unused

\* The invariant holds initially.
LEMMA InitStep == Init => IInv
<1> SUFFICES ASSUME Init
             PROVE  IInv
  OBVIOUS
<1>1. GrantedOncePerClick
  <2>1. \A u \in Users : GrantsOf(u) = {}
    BY DEF Init, GrantsOf
  <2> QED BY <2>1, FS_EmptySet DEF Init, GrantedOncePerClick, GrantsOf
<1>2. Backend
  BY <1>1, DashboardAssumption DEF Init, Backend, RowsFit, Marks, Unused
<1>3. Browser
  BY DEF Init, Browser, NoPage, Idle
<1> QED BY <1>2, <1>3 DEF IInv

-----------------------------------------------------------------------------
(***************************************************************************)
(* Steps that leave the tables alone.                                      *)
(***************************************************************************)

\* Clicks go on and none is sent back to its beginning.
Calm ==
  \A n \in Clicks : click[n] # Unused =>
    /\ click'[n] # Unused
    /\ click'[n].op = click[n].op /\ click'[n].row = click[n].row
    /\ click'[n].srv = "sent" => click[n].srv = "sent"

\* The grants of an account are the same as long as the committed clicks are.
LEMMA GrantsStay ==
  ASSUME Backend, done' = done, Calm
  PROVE  \A u \in Users : GrantsOf(u)' = GrantsOf(u)
<1>1. \A n \in done : click'[n].op = click[n].op /\ click'[n].row = click[n].row
  BY DEF Backend, Marks, Calm
<1> QED BY <1>1 DEF GrantsOf

LEMMA CalmStep ==
  ASSUME Backend, Calm, UNCHANGED <<tables, trail>>,
         click' \in [Clicks -> Click \cup {Unused}],
         RowsFit',
         \A n \in Clicks : click'[n].srv \in {"done", "logged"} => n \in done
  PROVE  Backend'
<1>1. Marks'
  BY DEF Backend, Marks, Calm, tables
<1>2. GrantedOncePerClick'
  BY GrantsStay DEF Backend, GrantedOncePerClick, GrantsOf, tables
<1> QED BY <1>1, <1>2 DEF Backend, tables

\* A click that is over, for the browser or for both, is still that click.
LEMMA OverFits ==
  ASSUME NEW c \in Click \cup {Unused},
         NEW d \in {c, Deaf(c), [c EXCEPT !.srv = "over", !.ui = "over"]}
  PROVE  /\ d \in Click \cup {Unused}
         /\ d.op = c.op /\ d.row = c.row
         /\ c # Unused => d # Unused
         /\ d.srv \in {c.srv, "over"}
<1>1. CASE c \in Click
  <2>1. d \in Click /\ d.op = c.op /\ d.row = c.row /\ d.srv \in {c.srv, "over"}
    BY <1>1 DEF Click, Deaf
  <2>2. Unused \notin Click
    BY DEF Unused, Click, Ops
  <2> QED BY <2>1, <2>2
<1>2. CASE c = Unused
  <2> DEFINE Only == [op : {"none"}, row : {NoUser}, srv : {"over"}, ui : {"over"}]
  <2>1. c \in Only
    BY <1>2 DEF Unused
  <2>2. d \in Only
    BY <2>1 DEF Deaf
  <2>3. \A e \in Only : e = Unused
    BY DEF Unused
  <2> QED BY <1>2, <2>2, <2>3
<1> QED BY <1>1, <1>2

\* Answers that nobody waits for any more, on one click or on all.
LEMMA DeafStep ==
  ASSUME Backend, UNCHANGED <<tables, trail>>, NEW S \in SUBSET Clicks,
         click' = [n \in Clicks |-> IF n \in S THEN Deaf(click[n]) ELSE click[n]]
  PROVE  Backend'
<1>1. ASSUME NEW n \in Clicks
      PROVE  /\ click'[n] \in Click \cup {Unused}
             /\ click'[n].op = click[n].op /\ click'[n].row = click[n].row
             /\ click[n] # Unused => click'[n] # Unused
             /\ click'[n].srv \in {click[n].srv, "over"}
  <2>1. click[n] \in Click \cup {Unused}
    BY DEF Backend
  <2>2. click'[n] \in {click[n], Deaf(click[n]),
                       [click[n] EXCEPT !.srv = "over", !.ui = "over"]}
    OBVIOUS
  <2> QED BY <2>1, <2>2, OverFits
<1>2. RowsFit' /\ Calm
  BY <1>1 DEF Backend, RowsFit, Calm
<1> QED BY <1>1, <1>2, CalmStep DEF Backend, Marks

\* A handler that ends.
LEMMA EndStep ==
  ASSUME Backend, UNCHANGED <<tables, trail>>, NEW S \in SUBSET Clicks,
         click' = [n \in Clicks |-> IF n \in S
                     THEN [click[n] EXCEPT !.srv = "over", !.ui = "over"] ELSE click[n]]
  PROVE  Backend'
<1>1. ASSUME NEW n \in Clicks
      PROVE  /\ click'[n] \in Click \cup {Unused}
             /\ click'[n].op = click[n].op /\ click'[n].row = click[n].row
             /\ click[n] # Unused => click'[n] # Unused
             /\ click'[n].srv \in {click[n].srv, "over"}
  <2>1. click[n] \in Click \cup {Unused}
    BY DEF Backend
  <2>2. click'[n] \in {click[n], Deaf(click[n]),
                       [click[n] EXCEPT !.srv = "over", !.ui = "over"]}
    OBVIOUS
  <2> QED BY <2>1, <2>2, OverFits
<1>2. RowsFit' /\ Calm
  BY <1>1 DEF Backend, RowsFit, Calm
<1> QED BY <1>1, <1>2, CalmStep DEF Backend, Marks

\* A click that is sent.
LEMMA SendStep ==
  ASSUME IInv, NEW op \in Ops, NEW row \in Users \cup PlanRow \cup {NoUser},
         op = "grant" => row \in Users, op \in {"switch", "remove"} => row \in PlanRow,
         Send(op, row)
  PROVE  IInv'
<1> DEFINE c == [op |-> op, row |-> row, srv |-> "sent", ui |-> "waiting"]
<1>1. UNCHANGED <<tables, trail, page, refresh>>
  BY DEF Send
<1>2. PICK n \in Clicks : click[n] = Unused /\ click' = [click EXCEPT ![n] = c]
  <2>1. PICK n \in Clicks : /\ \A i \in Clicks : click[i] = Unused <=> i >= n
                            /\ click' = [click EXCEPT ![n] = c]
    BY DEF Send
  <2>2. n >= n
    BY DashboardAssumption DEF Clicks
  <2> QED BY <2>1, <2>2
<1>3. c \in Click /\ c.srv = "sent" /\ c.op = op /\ c.row = row
  BY DEF Click
<1> HIDE DEF c
<1>4. /\ click' \in [Clicks -> Click \cup {Unused}]
      /\ click'[n] = c /\ \A i \in Clicks : i # n => click'[i] = click[i]
  BY <1>2, <1>3 DEF IInv, Backend
<1>5. RowsFit' /\ Calm
  BY <1>2, <1>3, <1>4 DEF IInv, Backend, RowsFit, Calm
<1>6. \A i \in Clicks : click'[i].srv \in {"done", "logged"} => i \in done
  BY <1>3, <1>4 DEF IInv, Backend, Marks
<1>7. Backend'
  BY <1>1, <1>4, <1>5, <1>6, CalmStep DEF IInv
<1> QED BY <1>1, <1>7 DEF IInv, Browser

\* The listing that a refresh adds has no rows yet.
LEMMA RefreshFits ==
  ASSUME Browser, Refresh
  PROVE  /\ refresh' \in [Refreshes -> [pc : {"idle", "sent", "done"}, rows : SUBSET AnyRow]]
         /\ \A f \in Refreshes : refresh'[f].rows \subseteq RowsOf(page.tab)
BY DEF Browser, Refresh

\* Another page, or none: its state is empty and so are its listings.
LEMMA MountStep ==
  ASSUME IInv, (\E tab \in Tabs : Open(tab)) \/ Leave
  PROVE  IInv'
<1>1. UNCHANGED <<tables, trail>> /\ Unheard
  BY DEF Open, Leave
<1>2. Backend'
  <2>1. click' = [n \in Clicks |-> IF n \in Clicks THEN Deaf(click[n]) ELSE click[n]]
    BY <1>1 DEF Unheard
  <2> QED BY <1>1, <2>1, DeafStep DEF IInv
<1>3. /\ page' \in [tab : Tabs \cup {"none"}, rows : SUBSET AnyRow,
                    dialog : Users \cup {NoUser}, batch : SUBSET Vouchers]
      /\ page'.rows = {} /\ page'.batch = {}
  BY DEF Open, Leave, NoPage
<1>4. /\ refresh' \in [Refreshes -> [pc : {"idle", "sent", "done"}, rows : SUBSET AnyRow]]
      /\ \A f \in Refreshes : refresh'[f].rows = {}
  BY DEF Open, Leave, Unlisted, Idle
<1>5. Browser'
  BY <1>3, <1>4 DEF Browser
<1> QED BY <1>2, <1>5 DEF IInv

\* Listings, and the dialog.
LEMMA PageStep ==
  ASSUME IInv,
         \/ Search \/ CancelDialog
         \/ \E u \in Users : OpenDialog(u)
         \/ \E f \in Refreshes : RefreshAnswer(f) \/ RefreshFail(f) \/ RefreshDone(f)
  PROVE  IInv'
<1>1. Backend'
  BY DEF Search, CancelDialog, OpenDialog, RefreshAnswer, RefreshFail, RefreshDone,
         IInv, Backend, tables, RowsFit, Marks, GrantedOncePerClick
<1>2. CASE Search
  BY <1>1, <1>2, RefreshFits DEF Search, IInv, Browser
<1>3. CASE CancelDialog
  BY <1>1, <1>3 DEF CancelDialog, IInv, Browser
<1>4. ASSUME NEW u \in Users, OpenDialog(u)
      PROVE  Browser'
  BY <1>4 DEF OpenDialog, IInv, Browser
<1>5. ASSUME NEW f \in Refreshes, RefreshAnswer(f)
      PROVE  Browser'
  <2>1. PICK rows \in Listings :
          refresh' = [refresh EXCEPT ![f] = [pc |-> "done", rows |-> rows]]
    BY <1>5 DEF RefreshAnswer
  <2>2. rows \subseteq RowsOf(page.tab) /\ RowsOf(page.tab) \subseteq AnyRow
    BY ListingsFit, RowsAreRows DEF IInv, Browser
  <2>3. page' = page
    BY <1>5 DEF RefreshAnswer
  <2> QED BY <2>1, <2>2, <2>3 DEF IInv, Browser
<1>6. ASSUME NEW f \in Refreshes, RefreshFail(f)
      PROVE  Browser'
  BY <1>6 DEF RefreshFail, IInv, Browser, Idle
<1>7. ASSUME NEW f \in Refreshes, RefreshDone(f)
      PROVE  Browser'
  BY <1>7 DEF RefreshDone, IInv, Browser, Idle
<1> QED BY <1>1, <1>2, <1>3, <1>4, <1>5, <1>6, <1>7 DEF IInv, Browser

-----------------------------------------------------------------------------
(***************************************************************************)
(* Steps of the backend.                                                   *)
(***************************************************************************)

\* A statement that commits marks its click, which was not marked before.
LEMMA CommitStep ==
  ASSUME Backend, NEW n \in Clicks, InBackend(n, "sent"), Commit(n), trail' = trail,
         made' = made,
         plans' \in [Plans -> {"new", "on", "off", "gone"}],
         click[n].op = "generate" => made[n] = BatchSize,
         IF click[n].op = "grant"
           THEN granted' = [granted EXCEPT ![click[n].row] = @ + 1]
           ELSE granted' = granted
  PROVE  Backend'
<1>1. /\ click[n].srv = "sent" /\ done' = done \cup {n}
      /\ click' = [click EXCEPT ![n].srv = "done"]
      /\ n \notin done /\ click[n] \in Click
  BY ClickFields DEF Commit, To, InBackend, Backend, Marks
<1>2. ASSUME NEW i \in Clicks
      PROVE  /\ click'[i] \in Click \cup {Unused}
             /\ click'[i].op = click[i].op /\ click'[i].row = click[i].row
             /\ i # n => click'[i] = click[i]
             /\ i = n => click'[i].srv = "done" /\ click'[i] \in Click
  BY <1>1 DEF Backend, Click
<1>3. click' \in [Clicks -> Click \cup {Unused}]
  BY <1>1, <1>2 DEF Backend
<1>4. Unused \notin Click
  BY DEF Unused, Click, Ops
<1>5. RowsFit' /\ Marks' /\ trail' \subseteq done' /\ done' \subseteq Clicks
  <2>1. RowsFit'
    BY <1>2 DEF Backend, RowsFit
  <2>2. Marks'
    BY <1>1, <1>2, <1>4 DEF Backend, Marks
  <2> QED BY <1>1, <2>1, <2>2 DEF Backend
<1>6. GrantedOncePerClick' /\ granted' \in [Users -> 0..MaxClicks]
  <2>1. \A u \in Users : GrantsOf(u)' =
          IF click[n].op = "grant" /\ click[n].row = u THEN GrantsOf(u) \cup {n}
          ELSE GrantsOf(u)
    <3>1. \A i \in done' : click'[i].op = click[i].op /\ click'[i].row = click[i].row
      BY <1>2, <1>5
    <3> QED BY <1>1, <3>1 DEF GrantsOf
  <2>2. ASSUME NEW u \in Users
        PROVE  /\ granted'[u] = Cardinality(GrantsOf(u)')
               /\ granted'[u] \in 0..MaxClicks
    <3>1. GrantsOf(u) \subseteq Clicks /\ GrantsOf(u)' \subseteq Clicks /\ n \notin GrantsOf(u)
      BY <1>1, <1>5 DEF GrantsOf, Backend
    <3>2. granted[u] = Cardinality(GrantsOf(u))
      BY DEF Backend, GrantedOncePerClick, GrantsOf
    <3>3. /\ IsFiniteSet(GrantsOf(u)) /\ Cardinality(GrantsOf(u)) \in Nat
          /\ Cardinality(GrantsOf(u)') \in Nat /\ Cardinality(GrantsOf(u)') <= MaxClicks
      BY <3>1, ClicksFinite
    <3>4. Cardinality(GrantsOf(u) \cup {n}) = Cardinality(GrantsOf(u)) + 1
      BY <3>1, <3>3, FS_AddElement
    <3>5. CASE click[n].op = "grant" /\ click[n].row = u
      <4>1. granted'[u] = granted[u] + 1
        BY <3>5 DEF Backend
      <4>2. granted'[u] = Cardinality(GrantsOf(u)')
        BY <2>1, <3>2, <3>4, <3>5, <4>1
      <4> QED BY <3>3, <4>2, DashboardAssumption
    <3>6. CASE ~(click[n].op = "grant" /\ click[n].row = u)
      <4>1. granted'[u] = granted[u]
        BY <3>6 DEF Backend
      <4>2. granted'[u] = Cardinality(GrantsOf(u)')
        BY <2>1, <3>2, <3>6, <4>1
      <4> QED BY <3>3, <4>2, DashboardAssumption
    <3> QED BY <3>5, <3>6
  <2>3. DOMAIN granted' = Users /\ granted' = [u \in Users |-> granted'[u]]
    BY DEF Backend
  <2> QED BY <2>2, <2>3 DEF GrantedOncePerClick, GrantsOf
<1> QED BY <1>3, <1>5, <1>6 DEF Backend

\* Each handler's statements.
LEMMA ExecuteStep ==
  ASSUME IInv, NEW n \in Clicks, Execute(n)
  PROVE  IInv'
<1> USE DEF IInv
<1>1. Browser'
  <2>1. UNCHANGED <<page, refresh>>
    BY DEF Execute, ExecuteGrant, ExecuteCreate, ExecuteSwitch, ExecuteRemove,
           ExecuteInsert, ExecuteGenerate, Refuse
  <2> QED BY <2>1 DEF Browser
<1>2. CASE ExecuteGrant(n)
  <2>1. plans' = plans /\ click[n].op = "grant"
    BY <1>2 DEF ExecuteGrant
  <2>2. Backend'
    BY <1>2, <2>1, CommitStep DEF ExecuteGrant, Backend
  <2> QED BY <1>1, <2>2
<1>3. CASE ExecuteCreate(n)
  <2>1. plans' \in [Plans -> {"new", "on", "off", "gone"}]
    BY <1>3 DEF ExecuteCreate, Backend
  <2>2. Backend'
    BY <1>3, <2>1, CommitStep DEF ExecuteCreate
  <2> QED BY <1>1, <2>2
<1>4. CASE ExecuteSwitch(n)
  <2>1. plans' \in [Plans -> {"new", "on", "off", "gone"}]
    BY <1>4 DEF ExecuteSwitch, Switched, Backend
  <2>2. Backend'
    BY <1>4, <2>1, CommitStep DEF ExecuteSwitch
  <2> QED BY <1>1, <2>2
<1>5. CASE ExecuteRemove(n)
  <2>1. plans' \in [Plans -> {"new", "on", "off", "gone"}]
    BY <1>5 DEF ExecuteRemove, Backend
  <2>2. Backend'
    BY <1>5, <2>1, CommitStep DEF ExecuteRemove
  <2> QED BY <1>1, <2>2
<1>6. CASE ExecuteInsert(n)
  <2>1. PICK k \in (made[n] + 1)..BatchSize : made' = [made EXCEPT ![n] = k]
    BY <1>6 DEF ExecuteInsert
  <2>2. made' \in [Clicks -> 0..BatchSize]
    BY <2>1, DashboardAssumption DEF Backend
  <2>3. /\ UNCHANGED <<granted, plans, done, trail, click>>
        /\ click[n].srv = "sent"
    BY <1>6 DEF ExecuteInsert, InBackend
  <2>4. n \notin done
    BY <2>3 DEF Backend, Marks
  <2>5. \A i \in done : made'[i] = made[i]
    BY <2>1, <2>4 DEF Backend
  <2>6. Marks'
    BY <2>3, <2>5 DEF Backend, Marks
  <2>7. Backend'
    BY <2>2, <2>3, <2>6 DEF Backend, RowsFit, GrantedOncePerClick
  <2> QED BY <1>1, <2>7
<1>7. CASE ExecuteGenerate(n)
  <2>1. made[n] = BatchSize
    BY <1>7, DashboardAssumption DEF ExecuteGenerate, Complete, Backend
  <2>2. /\ plans' = plans /\ granted' = granted /\ made' = made /\ trail' = trail
        /\ click[n].op = "generate" /\ Commit(n) /\ InBackend(n, "sent")
    BY <1>7 DEF ExecuteGenerate
  <2>3. Backend'
    BY <2>1, <2>2, CommitStep DEF Backend
  <2> QED BY <1>1, <2>3
<1>8. CASE Refuse(n)
  <2>1. click' = [i \in Clicks |-> IF i \in {n}
                    THEN [click[i] EXCEPT !.srv = "over", !.ui = "over"] ELSE click[i]]
    BY <1>8 DEF Refuse, Backend
  <2>2. Backend'
    BY <1>8, <2>1, EndStep DEF Refuse
  <2> QED BY <1>1, <2>2
<1> QED BY <1>2, <1>3, <1>4, <1>5, <1>6, <1>7, <1>8 DEF Execute

\* The entry of a committed change.
LEMMA LogStep ==
  ASSUME IInv, NEW n \in Clicks, Log(n)
  PROVE  IInv'
<1>1. click[n].srv = "done" /\ n \in done /\ click[n] \in Click
  BY ClickFields DEF Log, MayLog, InBackend, IInv, Backend, Marks
<1>2. PICK pc \in {"logged", "over"} : click' = [click EXCEPT ![n].srv = pc]
  BY <1>1 DEF Log, To
<1>3. trail' \subseteq done /\ UNCHANGED <<tables, page, refresh>>
  BY <1>1 DEF Log, IInv, Backend
<1>4. ASSUME NEW i \in Clicks
      PROVE  /\ click'[i] \in Click \cup {Unused}
             /\ click'[i].op = click[i].op /\ click'[i].row = click[i].row
             /\ i # n => click'[i] = click[i]
             /\ i = n => click'[i].srv = pc /\ click'[i] \in Click
  BY <1>1, <1>2 DEF IInv, Backend, Click
<1>5. Unused \notin Click
  BY DEF Unused, Click, Ops
<1>6. Calm
  BY <1>4, <1>5 DEF Calm
<1>7. RowsFit' /\ Marks'
  BY <1>1, <1>3, <1>4, <1>5 DEF IInv, Backend, RowsFit, Marks, tables
<1>8. GrantedOncePerClick'
  BY <1>3, <1>6, GrantsStay DEF IInv, Backend, GrantedOncePerClick, GrantsOf, tables
<1>9. click' \in [Clicks -> Click \cup {Unused}]
  BY <1>2, <1>4 DEF IInv, Backend
<1> QED BY <1>3, <1>7, <1>8, <1>9 DEF IInv, Backend, Browser, tables

\* The answer: a batch that is shown is complete, since its click is committed.
LEMMA AnswerStep ==
  ASSUME IInv, NEW n \in Clicks, Answer(n)
  PROVE  IInv'
<1>1. click[n].srv = "logged" /\ n \in done
  BY DEF Answer, MayAnswer, InBackend, IInv, Backend, Marks
<1>2. Backend'
  <2>1. click' = [i \in Clicks |-> IF i \in {n}
                    THEN [click[i] EXCEPT !.srv = "over", !.ui = "over"] ELSE click[i]]
    BY DEF Answer, IInv, Backend
  <2> QED BY <2>1, EndStep DEF Answer, IInv
<1>3. /\ page' \in [tab : Tabs \cup {"none"}, rows : SUBSET AnyRow,
                    dialog : Users \cup {NoUser}, batch : SUBSET Vouchers]
      /\ page'.tab = page.tab /\ page'.rows = page.rows
      /\ \/ page'.batch = page.batch
         \/ page'.batch = {v \in Vouchers : v[1] = n}
  <2>1. CASE click[n].op = "grant"
    BY <2>1 DEF Answer, IInv, Browser
  <2>2. CASE click[n].op = "generate"
    <3>1. made[n] = BatchSize
      BY <1>1, <2>2 DEF IInv, Backend, Marks
    <3>2. \A v \in Vouchers : v[2] <= BatchSize
      BY DashboardAssumption DEF Vouchers
    <3>3. {v \in Vouchers : v[1] = n /\ v[2] <= made[n]} = {v \in Vouchers : v[1] = n}
      BY <3>1, <3>2
    <3>4. page' = [page EXCEPT !.batch = {v \in Vouchers : v[1] = n}]
      BY <2>2, <3>3 DEF Answer
    <3> QED BY <3>4 DEF IInv, Browser
  <2>3. CASE click[n].op \notin {"grant", "generate"}
    BY <2>3 DEF Answer, IInv, Browser
  <2> QED BY <2>1, <2>2, <2>3
<1>4. Browser'
  BY <1>3, RefreshFits DEF Answer, IInv, Browser
<1> QED BY <1>2, <1>4 DEF IInv

\* Lost answers, a crash and other dashboards.
LEMMA FaultStep ==
  ASSUME IInv,
         (\E n \in Clicks : Lose(n)) \/ Crash \/ (\E p \in Plans : PlansElsewhere(p))
  PROVE  IInv'
<1>1. Browser'
  BY DEF Lose, Crash, PlansElsewhere, IInv, Browser
<1>2. ASSUME NEW n \in Clicks, Lose(n)
      PROVE  Backend'
  <2>1. click' = [i \in Clicks |-> IF i \in {n} THEN Deaf(click[i]) ELSE click[i]]
    BY <1>2 DEF Lose, Unanswered, IInv, Backend
  <2> QED BY <1>2, <2>1, DeafStep DEF Lose, IInv
<1>3. CASE Crash
  <2>1. click' = [i \in Clicks |-> IF i \in {j \in Clicks : ~InBackend(j, "over")}
                    THEN [click[i] EXCEPT !.srv = "over", !.ui = "over"] ELSE click[i]]
    BY <1>3 DEF Crash
  <2> QED BY <1>1, <1>3, <2>1, EndStep DEF Crash, IInv
<1>4. ASSUME NEW p \in Plans, PlansElsewhere(p)
      PROVE  Backend'
  <2>1. plans' \in [Plans -> {"new", "on", "off", "gone"}]
    BY <1>4 DEF PlansElsewhere, IInv, Backend
  <2> QED BY <1>4, <2>1 DEF PlansElsewhere, IInv, Backend, RowsFit, Marks,
                            GrantedOncePerClick
<1> QED BY <1>1, <1>2, <1>3, <1>4 DEF IInv

\* The clicks of each page.
LEMMA ClickStep ==
  ASSUME IInv,
         \/ Grant \/ CreatePlan \/ Generate
         \/ \E r \in PlanRow : TogglePlan(r) \/ RemovePlan(r)
  PROVE  IInv'
<1>1. CASE Grant
  <2>1. page.dialog \in Users
    BY <1>1 DEF Grant, IInv, Browser
  <2> QED BY <1>1, <2>1, SendStep DEF Grant, Ops
<1>2. CASE CreatePlan
  BY <1>2, SendStep DEF CreatePlan, Ops
<1>3. CASE Generate
  BY <1>3, SendStep DEF Generate, Ops
<1>4. ASSUME NEW r \in PlanRow, TogglePlan(r) \/ RemovePlan(r)
      PROVE  IInv'
  BY <1>4, SendStep DEF TogglePlan, RemovePlan, Ops
<1> QED BY <1>1, <1>2, <1>3, <1>4

\* Every step preserves the invariant.
LEMMA InductiveStep == IInv /\ [Next]_vars => IInv'
<1> SUFFICES ASSUME IInv, [Next]_vars
             PROVE  IInv'
  OBVIOUS
<1>1. CASE Browsing
  BY <1>1, MountStep, PageStep, ClickStep DEF Browsing
<1>2. ASSUME NEW n \in Clicks, Execute(n) \/ Log(n) \/ Answer(n) \/ Lose(n)
      PROVE  IInv'
  BY <1>2, ExecuteStep, LogStep, AnswerStep, FaultStep
<1>3. CASE Crash \/ \E p \in Plans : PlansElsewhere(p)
  BY <1>3, FaultStep
<1>4. CASE UNCHANGED vars
  BY <1>4 DEF vars, IInv, Backend, Browser, RowsFit, Marks, GrantedOncePerClick
<1> QED BY <1>1, <1>2, <1>3, <1>4 DEF Next

\* The inductive invariant: marks agree with handlers, rows with operations, and
\* what a page holds with the page.
THEOREM Invariance == Spec => []IInv
<1> QED BY InitStep, InductiveStep, PTL DEF Spec

\* Every variable keeps its type.
THEOREM TypeCorrect == Spec => []TypeOK
<1>1. IInv => TypeOK
  BY DEF IInv, Backend, Browser, TypeOK
<1> QED BY <1>1, Invariance, PTL

\* One click is one change, and the trail tells of nothing that was not done.
THEOREM ClicksAreAccountedHolds == Spec => []ClicksAreAccounted
<1>1. IInv => ClicksAreAccounted
  BY DEF IInv, Backend, ClicksAreAccounted, TrailIsTrue
<1> QED BY <1>1, Invariance, PTL

\* The batch on the page is whole, as its click has made it.
THEOREM BatchesAreWhole == Spec => []BatchIsWhole
<1>1. IInv => BatchIsWhole
  BY DEF IInv, Browser, BatchIsWhole, Exported
<1> QED BY <1>1, Invariance, PTL
=============================================================================
