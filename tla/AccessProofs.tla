---------------------------- MODULE AccessProofs ----------------------------
(***************************************************************************)
(* Theorems about Access, for every set of accounts, devices and requests  *)
(* and every value of the delays and bounds.                               *)
(***************************************************************************)
EXTENDS Access, FiniteSetTheorems, TLAPS

-----------------------------------------------------------------------------
(***************************************************************************)
(* Lemmas about the operators of the model.                                *)
(***************************************************************************)

\* The subtraction of GREATEST(0, a - b) stays in the naturals and never grows.
LEMMA MonusType ==
  ASSUME NEW a \in Nat, NEW b \in Nat
  PROVE  Monus(a, b) \in Nat /\ Monus(a, b) <= a
BY DEF Monus

\* GREATEST of two naturals is one of them and at least both.
LEMMA LargerType ==
  ASSUME NEW a \in Nat, NEW b \in Nat
  PROVE  Larger(a, b) \in Nat /\ Larger(a, b) >= a
BY DEF Larger

\* Closing a row keeps its account, its device and what it consumed.
LEMMA ClosedType ==
  ASSUME NEW row \in Row, NEW status \in {"ended", "kicked"}, NEW time \in Nat
  PROVE  /\ Closed(row, status, time) \in Row
         /\ Closed(row, status, time).status = status
         /\ Closed(row, status, time).user = row.user
         /\ Closed(row, status, time).mac = row.mac
         /\ Closed(row, status, time).used = row.used
         /\ Closed(row, status, time) # NoRow
BY DEF Closed, Row, NoRow

\* Settling a row keeps its account and its device.
LEMMA SettledType ==
  ASSUME NEW row \in Row, mgr \in Pass
  PROVE  /\ Settled(row) \in Row
         /\ Settled(row).user = row.user
         /\ Settled(row).mac = row.mac
         /\ Charge(row) \in Nat
<1>1. Elapsed(row) \in Nat
  BY MonusType DEF Elapsed, Row, Pass
<1>2. Charge(row) \in Nat
  BY <1>1 DEF Charge
<1>3. CASE row.mac \notin mgr.online /\ Expired(row)
  <2>1. Settled(row) = Closed(row, "ended", 0)
    BY <1>3 DEF Settled
  <2>2. /\ Closed(row, "ended", 0) \in Row
        /\ Closed(row, "ended", 0).user = row.user
        /\ Closed(row, "ended", 0).mac = row.mac
    BY ClosedType
  <2> QED BY <2>1, <2>2, <1>2
<1>4. CASE row.mac \notin mgr.online /\ ~Expired(row)
  BY <1>2, <1>4 DEF Settled
<1>5. CASE row.mac \in mgr.online
  <2> DEFINE charged == [row EXCEPT !.used = @ + Elapsed(row),
                                    !.lastTick = mgr.begin]
  <2>1. Settled(row) \in {charged, row}
    BY <1>5 DEF Settled
  <2>2. charged \in Row /\ charged.user = row.user /\ charged.mac = row.mac
    <3>1. row.used + Elapsed(row) \in Nat /\ mgr.begin \in Nat
      BY <1>1 DEF Row, Pass
    <3> QED BY <3>1 DEF Row
  <2> HIDE DEF charged
  <2> QED BY <2>1, <2>2, <1>2
<1> QED BY <1>3, <1>4, <1>5

\* An active row is a row, of an account and a device.
LEMMA ActiveIsRow ==
  ASSUME TypeOK, NEW i \in Ids, sessions[i] # NoRow \/ IsActive(i)
  PROVE  sessions[i] \in Row /\ sessions[i].user \in Users /\ sessions[i].mac \in Macs
BY DEF TypeOK, IsActive, Row, NoRow

\* The active rows of an account are finitely many.
LEMMA ActiveFinite ==
  ASSUME NEW u
  PROVE  IsFiniteSet(Active(u)) /\ Cardinality(Active(u)) \in Nat
<1>1. IsFiniteSet(Ids)
  BY NumbersAssumption, FS_Interval DEF Ids
<1>2. Active(u) \subseteq Ids
  BY DEF Active
<1> QED BY <1>1, <1>2, FS_Subset, FS_CardinalityType

\* A larger set of active rows means a larger count.
LEMMA FewerActive ==
  ASSUME NEW u, NEW S, S \subseteq Active(u)
  PROVE  /\ Cardinality(S) \in Nat
         /\ Cardinality(S) <= Cardinality(Active(u))
BY ActiveFinite, FS_Subset, FS_CardinalityType

\* A locked row's account is locked too.
LEMMA LockedUsers ==
  ASSUME NEW i \in MgrRows
  PROVE  sessions[i].user \in MgrUsers
BY DEF MgrUsers

-----------------------------------------------------------------------------
(***************************************************************************)
(* Types.  Each action that writes a variable other than clock, authed and *)
(* kicking has its lemma.                                                  *)
(***************************************************************************)

\* The table's rows, as connect and kick write them.
LEMMA OpenType ==
  ASSUME IInv, NEW c \in Calls, ConnectOpen(c)
  PROVE  sessions' \in [Ids -> Row \cup {NoRow}] /\ conn' \in [Calls -> Call \cup {Idle}]
<1>1. conn[c] \in Call
  BY DEF IInv, TypeOK, ConnectOpen, Call, Idle
<1>2. PICK id \in FreeIds :
        /\ sessions' = [i \in Ids |->
             IF i = id THEN NewRow(conn[c].user, conn[c].mac, conn[c].at)
             ELSE IF i \in Displaced(c)
                    THEN Closed(sessions[i], "ended", 0)
                    ELSE sessions[i]]
        /\ conn' = [conn EXCEPT ![c].pc = "auth", ![c].session = id]
  BY DEF ConnectOpen
<1>3. NewRow(conn[c].user, conn[c].mac, conn[c].at) \in Row
  BY <1>1 DEF NewRow, Row, Call
<1>4. ASSUME NEW i \in Ids, i \in Displaced(c)
      PROVE  Closed(sessions[i], "ended", 0) \in Row
  <2>1. sessions[i] \in Row
    BY <1>4, ActiveIsRow DEF IInv, Displaced, ActiveOn
  <2> QED BY <2>1, ClosedType
<1>5. ASSUME NEW i \in Ids
      PROVE  sessions[i] \in Row \cup {NoRow}
  BY DEF IInv, TypeOK
<1>6. id \in Nat
  BY <1>2, NumbersAssumption DEF FreeIds, Ids
<1>7. conn' = [conn EXCEPT ![c] = [conn[c] EXCEPT !.pc = "auth", !.session = id]]
  BY <1>2
<1>8. [conn[c] EXCEPT !.pc = "auth", !.session = id] \in Call
  BY <1>1, <1>6 DEF Call
<1> QED BY <1>2, <1>3, <1>4, <1>5, <1>7, <1>8 DEF IInv, TypeOK

\* A refreshed session is still a row.
LEMMA RefreshType ==
  ASSUME IInv, NEW c \in Calls, ConnectRefresh(c)
  PROVE  sessions' \in [Ids -> Row \cup {NoRow}] /\ conn' \in [Calls -> Call \cup {Idle}]
<1> DEFINE s == conn[c].session
<1>1. conn[c] \in Call
  BY DEF IInv, TypeOK, ConnectRefresh, Call, Idle
<1>2. s \in Active(conn[c].user)
  BY DEF IInv, ConnectChecksHold, ConnectRefresh
<1>3. s \in Ids /\ sessions[s] \in Row
  BY <1>2, ActiveIsRow DEF IInv, Active
<1>4. [sessions[s] EXCEPT !.lastTick = conn[c].at] \in Row
  BY <1>1, <1>3 DEF Row, Call
<1>5. [conn[c] EXCEPT !.pc = "auth"] \in Call
  BY <1>1 DEF Call
<1> QED BY <1>3, <1>4, <1>5 DEF IInv, TypeOK, ConnectRefresh

\* A kicked session is still a row.
LEMMA MarkType ==
  ASSUME IInv, NEW m \in Macs, KickMark(m)
  PROVE  sessions' \in [Ids -> Row \cup {NoRow}]
<1>1. ASSUME NEW i \in Ids, i \in ActiveOn(m)
      PROVE  Closed(sessions[i], "kicked", clock) \in Row
  <2>1. sessions[i] \in Row /\ clock \in Nat
    BY <1>1, ActiveIsRow DEF IInv, ActiveOn, TypeOK
  <2> QED BY <2>1, ClosedType
<1> QED BY <1>1 DEF IInv, TypeOK, KickMark

\* What the requests in flight remember.
LEMMA CallType ==
  ASSUME IInv, NEW c \in Calls,
         \/ \E u \in Users, m \in Macs : ConnectStart(c, u, m)
         \/ ConnectLock(c) \/ ConnectRefuse(c) \/ ConnectAbort(c)
         \/ ConnectAuth(c) \/ ConnectAuthFail(c)
  PROVE  conn' \in [Calls -> Call \cup {Idle}]
<1>1. CASE \E u \in Users, m \in Macs : ConnectStart(c, u, m)
  BY <1>1 DEF IInv, TypeOK, ConnectStart, Call
<1>2. CASE ConnectLock(c)
  <2>0. conn[c].pc = "checked"
    BY <1>2 DEF ConnectLock, ConnectMayLock
  <2>1. conn[c] \in Call
    BY <2>0 DEF IInv, TypeOK, Call, Idle
  <2>2. OwnSession(conn[c].user, conn[c].mac) \in Nat
    BY NumbersAssumption DEF OwnSession, Active, Ids
  <2>3. PICK begin \in conn[c].at..clock :
          conn' = [conn EXCEPT
            ![c].pc = "locked", ![c].at = begin,
            ![c].session = OwnSession(conn[c].user, conn[c].mac)]
    BY <1>2 DEF ConnectLock
  <2>4. begin \in Nat
    BY <2>1 DEF IInv, TypeOK, Call
  <2>5. [conn[c] EXCEPT !.pc = "locked", !.at = begin,
           !.session = OwnSession(conn[c].user, conn[c].mac)] \in Call
    BY <2>1, <2>2, <2>4 DEF Call
  <2> QED BY <2>3, <2>5 DEF IInv, TypeOK
<1>3. CASE \/ ConnectRefuse(c) \/ ConnectAbort(c) \/ ConnectAuth(c)
           \/ ConnectAuthFail(c)
  BY <1>3 DEF IInv, TypeOK, ConnectRefuse, ConnectAbort, ConnectAuth,
              ConnectAuthFail
<1> QED BY <1>1, <1>2, <1>3

\* The pass and its draft.
LEMMA PassType ==
  ASSUME IInv, TickStep
  PROVE  /\ mgr' \in Pass
         /\ draftRows' \in [Ids -> Row \cup {NoRow}]
         /\ draftBalance' \in [Users -> Nat]
<1> USE DEF IInv, TypeOK
<1>1. CASE TickPoll \/ TickBegin \/ TickExhausted \/ TickReview \/ TickSleep
  <2>1. Orphans \subseteq Macs /\ Exhausted \subseteq Ids
    BY DEF Orphans, Exhausted, Pass
  <2>2. CASE TickPoll
    BY <2>2 DEF TickPoll, Pass, draftVars
  <2>3. CASE TickBegin
    BY <2>3 DEF TickBegin, Pass, draftVars
  <2>4. CASE TickExhausted
    BY <2>1, <2>4 DEF TickExhausted, Pass, draftVars
  <2>5. CASE TickReview
    BY <2>1, <2>5 DEF TickReview, Pass, draftVars
  <2>6. CASE TickSleep
    BY <2>6 DEF TickSleep, Pass, Asleep, draftVars
  <2> QED BY <1>1, <2>2, <2>3, <2>4, <2>5, <2>6
<1>2. CASE TickAbort
  BY <1>2 DEF TickAbort, DropDraft, Pass, Asleep
<1>3. CASE \E m \in Macs : TickCut(m) \/ TickOrphan(m)
  BY <1>3 DEF TickCut, TickOrphan, Pass, draftVars
<1>4. CASE TickLock
  <2> DEFINE rows == {i \in mgr.rows : IsActive(i)}
  <2>1. mgr' \in Pass
    BY <1>4 DEF TickLock, Pass
  <2> QED BY <1>4, <2>1 DEF TickLock, Pass
<1>5. CASE TickSettle
  <2>1. PICK i \in mgr.todo :
          /\ draftRows' = [draftRows EXCEPT ![i] = Settled(draftRows[i])]
          /\ draftBalance' = [draftBalance EXCEPT
               ![draftRows[i].user] = Monus(@, Charge(draftRows[i]))]
          /\ mgr' = [mgr EXCEPT !.todo = @ \ {i}]
    BY <1>5 DEF TickSettle
  <2>2. i \in Ids /\ draftRows[i] \in Row
    BY <1>5, <2>1 DEF DraftMatches, InTransaction, MgrRows, TickSettle, Pass
  <2>3. Settled(draftRows[i]) \in Row /\ Charge(draftRows[i]) \in Nat
    BY <2>2, SettledType
  <2>4. draftRows[i].user \in Users
    BY <2>2 DEF Row
  <2>5. Monus(draftBalance[draftRows[i].user], Charge(draftRows[i])) \in Nat
    BY <2>3, <2>4, MonusType
  <2>6. mgr' \in Pass
    BY <2>1 DEF Pass
  <2> QED BY <2>1, <2>2, <2>3, <2>4, <2>5, <2>6
<1>6. CASE TickCommit
  <2>1. \A i \in mgr.cut : Seen(i).mac \in Macs
    <3> SUFFICES ASSUME NEW i \in mgr.cut
                 PROVE  Seen(i).mac \in Macs
      OBVIOUS
    <3>1. CASE i \in mgr.rows
      BY <1>6, <3>1 DEF DraftMatches, InTransaction, MgrRows, TickCommit, Seen,
                        Row
    <3>2. CASE i \notin mgr.rows
      <4>1. i \in Ids /\ sessions[i] # NoRow
        BY <1>6 DEF CutIsComplete, TickCommit, Pass
      <4> QED BY <3>2, <4>1, ActiveIsRow DEF Seen
    <3> QED BY <3>1, <3>2
  <2>2. {Seen(i).mac : i \in mgr.cut} \subseteq Macs
    BY <2>1
  <2> QED BY <1>6, <2>2 DEF TickCommit, DropDraft, Pass
<1> QED BY <1>1, <1>2, <1>3, <1>4, <1>5, <1>6 DEF TickStep

\* What a pass commits.
LEMMA SeenType ==
  ASSUME IInv
  PROVE  /\ \A i \in Ids : InTransaction => Seen(i) \in Row \cup {NoRow}
         /\ \A u \in Users : SeenBalance(u) \in Nat
         /\ mgr.phase = "end" => \A i \in mgr.cut : Seen(i) \in Row
<1>1. ASSUME NEW i \in Ids, InTransaction
      PROVE  Seen(i) \in Row \cup {NoRow}
  BY <1>1 DEF IInv, TypeOK, DraftMatches, MgrRows, Seen
<1>2. ASSUME NEW u \in Users
      PROVE  SeenBalance(u) \in Nat
  BY DEF IInv, TypeOK, SeenBalance
<1>3. ASSUME mgr.phase = "end", NEW i \in mgr.cut
      PROVE  Seen(i) \in Row
  <2>1. i \in Ids /\ sessions[i] # NoRow
    BY <1>3 DEF IInv, TypeOK, CutIsComplete, Pass
  <2>2. sessions[i] \in Row
    BY <2>1, ActiveIsRow DEF IInv
  <2>3. i \in mgr.rows => draftRows[i] \in Row
    BY <1>3 DEF IInv, DraftMatches, MgrRows, InTransaction
  <2> QED BY <2>2, <2>3 DEF Seen
<1> QED BY <1>1, <1>2, <1>3

\* What TickCommit writes is rows and balances.
LEMMA CommitType ==
  ASSUME IInv, TickCommit
  PROVE  sessions' \in [Ids -> Row \cup {NoRow}] /\ balance' \in [Users -> Nat]
<1>1. mgr.phase = "end" /\ InTransaction
  BY DEF TickCommit, InTransaction
<1>2. \A i \in mgr.cut : Closed(Seen(i), "ended", 0) \in Row
  <2> SUFFICES ASSUME NEW i \in mgr.cut
               PROVE  Closed(Seen(i), "ended", 0) \in Row
    OBVIOUS
  <2>1. Seen(i) \in Row
    BY <1>1, SeenType
  <2> QED BY <2>1, ClosedType
<1>3. \A i \in Ids : Seen(i) \in Row \cup {NoRow}
  BY <1>1, SeenType
<1>4. \A u \in Users : SeenBalance(u) \in Nat
  BY SeenType
<1> QED BY <1>2, <1>3, <1>4 DEF TickCommit

\* Time bought leaves naturals.
LEMMA AddTimeType ==
  ASSUME IInv, NEW u \in Users, NEW g \in Grants, AddTime(u, g)
  PROVE  /\ balance' \in [Users -> Nat]
         /\ limit' \in [Users -> Nat]
         /\ credited' \in [Users -> Nat]
<1>1. g.seconds \in Nat /\ g.devices \in Nat
  BY GrantsAssumption
<1>2. balance[u] \in Nat /\ limit[u] \in Nat /\ credited[u] \in Nat
  BY DEF IInv, TypeOK
<1>3. Larger(limit[u], g.devices) \in Nat
  BY <1>1, <1>2, LargerType
<1> QED BY <1>1, <1>2, <1>3 DEF IInv, TypeOK, AddTime

\* Every step keeps the types.
LEMMA TypeStep ==
  ASSUME IInv, [Next]_vars
  PROVE  TypeOK'
<1>1. CASE \E c \in Calls : ConnectStep(c)
  <2> PICK c \in Calls : ConnectStep(c)
    BY <1>1
  <2>1. CASE ConnectOpen(c)
    BY <2>1, OpenType
       DEF IInv, TypeOK, ConnectOpen, accountVars, draftVars
  <2>2. CASE ConnectRefresh(c)
    BY <2>2, RefreshType
       DEF IInv, TypeOK, ConnectRefresh, accountVars, draftVars
  <2>3. CASE ConnectAuth(c)
    <3>1. conn[c].mac \in Macs
      BY <2>3 DEF IInv, TypeOK, ConnectAuth, Call, Idle
    <3> QED BY <2>3, <3>1, CallType
            DEF IInv, TypeOK, ConnectAuth, accountVars, draftVars
  <2>4. CASE \/ \E u \in Users, m \in Macs : ConnectStart(c, u, m)
             \/ ConnectLock(c) \/ ConnectRefuse(c) \/ ConnectAbort(c)
             \/ ConnectAuthFail(c)
    <3>1. conn' \in [Calls -> Call \cup {Idle}]
      BY <2>4, CallType
    <3>2. UNCHANGED <<clock, accountVars, sessions, authed, kicking, mgr,
                      draftVars>>
      BY <2>4 DEF ConnectStart, ConnectLock, ConnectRefuse, ConnectAbort,
                  ConnectAuthFail
    <3> QED BY <3>1, <3>2 DEF IInv, TypeOK, accountVars, draftVars
  <2> QED BY <2>1, <2>2, <2>3, <2>4 DEF ConnectStep
<1>2. CASE \E m \in Macs : KickStep(m)
  <2> PICK m \in Macs : KickStep(m)
    BY <1>2
  <2>1. CASE KickMark(m)
    BY <2>1, MarkType DEF IInv, TypeOK, KickMark, accountVars, draftVars
  <2>2. CASE KickDeauth(m) \/ KickMiss(m)
    BY <2>2 DEF IInv, TypeOK, KickDeauth, KickMiss, accountVars, draftVars
  <2> QED BY <2>1, <2>2 DEF KickStep
<1>3. CASE BackendCrash
  BY <1>3 DEF IInv, TypeOK, BackendCrash, accountVars, draftVars
<1>4. CASE TickStep
  <2>1. /\ UNCHANGED <<clock, limit, credited, conn, kicking>>
        /\ authed' \in SUBSET Macs
    BY <1>4
       DEF IInv, TypeOK, TickStep, Elsewhere, TickPoll, TickBegin, TickLock,
           TickSettle, TickExhausted, TickCommit, TickReview, TickSleep,
           TickAbort, TickCut, TickOrphan
  <2>2. /\ sessions' \in [Ids -> Row \cup {NoRow}]
        /\ balance' \in [Users -> Nat]
    BY <1>4, CommitType
       DEF IInv, TypeOK, TickStep, TickPoll, TickBegin, TickLock,
           TickSettle, TickExhausted, TickReview, TickSleep, TickAbort,
           TickCut, TickOrphan
  <2> QED BY <1>4, <2>1, <2>2, PassType DEF IInv, TypeOK
<1>5. CASE Environment
  <2>1. CASE Advance
    BY <2>1 DEF IInv, TypeOK, Advance, accountVars, draftVars
  <2>2. CASE \E m \in Macs : NdsDrop(m)
    BY <2>2 DEF IInv, TypeOK, NdsDrop, accountVars, draftVars
  <2>3. CASE \E u \in Users, g \in Grants : AddTime(u, g)
    <3> PICK u \in Users, g \in Grants : AddTime(u, g)
      BY <2>3
    <3> QED BY AddTimeType DEF IInv, TypeOK, AddTime, draftVars
  <2> QED BY <1>5, <2>1, <2>2, <2>3 DEF Environment
<1>6. CASE UNCHANGED vars
  BY <1>6 DEF IInv, TypeOK, vars, accountVars, draftVars
<1> QED BY <1>1, <1>2, <1>3, <1>4, <1>5, <1>6 DEF Next

-----------------------------------------------------------------------------
(***************************************************************************)
(* The inductive invariant, one lemma for each action that can disturb it. *)
(***************************************************************************)

\* Steps that at most let requests finish their transaction without effect.
LEMMA CallsOnlyStep ==
  ASSUME IInv, TypeOK',
         UNCHANGED <<balance, limit, sessions, mgr, draftVars>>,
         \A c \in Calls : conn'[c].pc = "locked" => conn'[c] = conn[c]
  PROVE  IInv'
<1>1. ConnectChecksHold'
  BY DEF IInv, ConnectChecksHold, LockedBy, Active, IsActive, MgrUsers, MgrRows,
         InTransaction
<1>2. DraftMatches' /\ CutIsComplete'
  BY DEF IInv, DraftMatches, CutIsComplete, Exhausted, Seen, SeenBalance,
         IsActive, MgrUsers, MgrRows, InTransaction, draftVars
<1>3. MacsDiffer' /\ DeviceLimit' /\ ZeroBalanceHasNoSession'
  BY DEF IInv, MacsDiffer, DeviceLimit, ZeroBalanceHasNoSession, Active, IsActive
<1> QED BY <1>1, <1>2, <1>3 DEF IInv

\* Steps of a pass outside its transaction, or that leave it.
LEMMA OutsideStep ==
  ASSUME IInv, TypeOK', UNCHANGED <<balance, limit, sessions, conn>>,
         mgr'.phase \notin {"settle", "end"}
  PROVE  IInv'
<1>1. MgrRows' = {} /\ MgrUsers' = {} /\ ~InTransaction'
  BY DEF MgrRows, MgrUsers, InTransaction
<1>2. ConnectChecksHold'
  BY <1>1 DEF IInv, ConnectChecksHold, LockedBy, Active, IsActive
<1>3. DraftMatches' /\ CutIsComplete'
  BY <1>1 DEF DraftMatches, CutIsComplete
<1>4. MacsDiffer' /\ DeviceLimit' /\ ZeroBalanceHasNoSession'
  BY DEF IInv, MacsDiffer, DeviceLimit, ZeroBalanceHasNoSession, Active, IsActive
<1> QED BY <1>2, <1>3, <1>4 DEF IInv

\* connect takes its locks and makes its checks.
LEMMA LockStep ==
  ASSUME IInv, TypeOK', NEW c \in Calls, ConnectLock(c)
  PROVE  IInv'
<1> DEFINE u == conn[c].user
           m == conn[c].mac
           s == OwnSession(u, m)
<1>1. conn[c].pc = "checked" /\ conn[c] \in Call
  <2>1. conn[c].pc = "checked"
    BY DEF ConnectLock, ConnectMayLock
  <2> QED BY <2>1 DEF IInv, TypeOK, Call, Idle
<1>2. /\ UNCHANGED <<balance, limit, sessions, mgr, draftVars>>
      /\ \A d \in Calls : d # c => conn'[d] = conn[d]
      /\ conn'[c].user = u /\ conn'[c].mac = m /\ conn'[c].session = s
      /\ conn'[c].pc = "locked"
  BY <1>1 DEF ConnectLock, accountVars, IInv, TypeOK, Call
<1>3. /\ balance[u] > 0 /\ u \notin MgrUsers
      /\ \A d \in Calls : ~LockedBy(d, u)
      /\ s = 0 => Cardinality(Active(u)) < limit[u]
  BY DEF ConnectLock, ConnectMayLock, ConnectAllowed, UserFree, IInv, TypeOK
<1>4. /\ s = 0 => \A i \in Active(u) : sessions[i].mac # m
      /\ s # 0 => s \in Active(u)
  <2>1. 0 \notin Active(u)
    BY NumbersAssumption DEF Active, Ids
  <2> QED BY <2>1 DEF OwnSession, Active, ActiveOn
<1>5. UNCHANGED <<Active(u), MgrUsers>> /\ \A w : Active(w)' = Active(w)
  BY <1>2 DEF Active, IsActive, MgrUsers, MgrRows, InTransaction
<1>6. ConnectChecksHold'
  <2> SUFFICES ASSUME NEW d \in Calls, conn'[d].pc = "locked"
               PROVE  /\ balance'[conn'[d].user] > 0
                      /\ conn'[d].user \notin MgrUsers'
                      /\ \A e \in Calls : LockedBy(e, conn[d].user)' => e = d
                      /\ conn'[d].session = 0 =>
                           /\ Cardinality(Active(conn[d].user)') < limit'[conn'[d].user]
                           /\ \A i \in Active(conn[d].user)' :
                                sessions'[i].mac # conn'[d].mac
                      /\ conn'[d].session # 0 => conn'[d].session \in Active(conn[d].user)'
    BY <1>2 DEF ConnectChecksHold, LockedBy, Active
  <2>1. CASE d = c
    BY <1>2, <1>3, <1>4, <1>5, <2>1 DEF LockedBy
  <2>2. CASE d # c
    BY <1>2, <1>3, <1>5, <2>2 DEF LockedBy, IInv, ConnectChecksHold
  <2> QED BY <2>1, <2>2
<1>7. DraftMatches' /\ CutIsComplete'
  BY <1>2 DEF IInv, DraftMatches, CutIsComplete, Exhausted, Seen, SeenBalance,
         IsActive, MgrUsers, MgrRows, InTransaction, draftVars
<1>8. MacsDiffer' /\ DeviceLimit' /\ ZeroBalanceHasNoSession'
  BY <1>2 DEF IInv, MacsDiffer, DeviceLimit, ZeroBalanceHasNoSession, Active,
         IsActive
<1> QED BY <1>6, <1>7, <1>8 DEF IInv

\* No session is opened: limits and uniqueness can only get easier.
LEMMA NoneOpened ==
  ASSUME IInv, UNCHANGED limit,
         \A i \in Ids : sessions'[i].status = "active" =>
           /\ IsActive(i)
           /\ sessions'[i].user = sessions[i].user
           /\ sessions'[i].mac = sessions[i].mac
  PROVE  MacsDiffer' /\ DeviceLimit' /\ \A u \in Users : Active(u)' \subseteq Active(u)
<1>1. MacsDiffer'
  BY DEF IInv, MacsDiffer, IsActive
<1>2. \A u \in Users : Active(u)' \subseteq Active(u)
  BY DEF Active, IsActive
<1>3. DeviceLimit'
  <2> SUFFICES ASSUME NEW u \in Users
               PROVE  Cardinality(Active(u)') <= limit[u]
    BY DEF DeviceLimit
  <2>1. /\ Cardinality(Active(u)') \in Nat
        /\ Cardinality(Active(u)') <= Cardinality(Active(u))
    BY <1>2, FewerActive
  <2>2. Cardinality(Active(u)) <= limit[u] /\ limit[u] \in Nat
    BY DEF IInv, DeviceLimit, TypeOK
  <2>3. Cardinality(Active(u)) \in Nat
    BY ActiveFinite
  <2> QED BY <2>1, <2>2, <2>3
<1> QED BY <1>1, <1>2, <1>3

\* connect refreshes the device's own session.
LEMMA RefreshStep ==
  ASSUME IInv, TypeOK', NEW c \in Calls, ConnectRefresh(c)
  PROVE  IInv'
<1>1. /\ UNCHANGED <<balance, limit, mgr, draftRows, draftBalance>>
      /\ \A d \in Calls : conn'[d].pc = "locked" => conn'[d] = conn[d]
  BY DEF ConnectRefresh, accountVars, draftVars, IInv, TypeOK, Call, Idle
<1>2. conn[c].session \in Ids /\ sessions[conn[c].session] \in Row
  <2>1. conn[c].session \in Active(conn[c].user)
    BY DEF IInv, ConnectChecksHold, ConnectRefresh
  <2> QED BY <2>1, ActiveIsRow DEF IInv, Active
<1>3. ASSUME NEW i \in Ids
      PROVE  /\ sessions'[i].status = sessions[i].status
             /\ sessions'[i].user = sessions[i].user
             /\ sessions'[i].mac = sessions[i].mac
             /\ sessions[i] # NoRow => sessions'[i] # NoRow
  <2>1. CASE i # conn[c].session
    BY <2>1 DEF ConnectRefresh, IInv, TypeOK
  <2>2. CASE i = conn[c].session
    <3>1. sessions'[i] = [sessions[i] EXCEPT !.lastTick = conn[c].at]
      BY <2>2 DEF ConnectRefresh, IInv, TypeOK
    <3> QED BY <1>2, <2>2, <3>1 DEF Row, NoRow
  <2> QED BY <2>1, <2>2
<1>4. /\ \A i \in Ids : IsActive(i)' = IsActive(i)
      /\ \A u : Active(u)' = Active(u)
  BY <1>3 DEF Active, IsActive
<1>5. MgrRows' = MgrRows /\ MgrUsers' = MgrUsers /\ MgrRows \subseteq Ids
  BY <1>1, <1>3 DEF MgrUsers, MgrRows, InTransaction, IInv, TypeOK, Pass
<1>6. ConnectChecksHold'
  <2>1. ASSUME NEW d \in Calls, conn'[d].pc = "locked"
        PROVE  /\ conn'[d] = conn[d]
               /\ Active(conn[d].user)' = Active(conn[d].user)
               /\ \A i \in Active(conn[d].user) : sessions'[i].mac = sessions[i].mac
    <3>1. conn'[d] = conn[d]
      BY <1>1, <2>1
    <3>2. Active(conn[d].user) \subseteq Ids
      BY DEF Active
    <3>3. Active(conn[d].user)' = Active(conn[d].user)
      BY <3>1, <1>3 DEF Active, IsActive
    <3> QED BY <3>1, <3>2, <3>3, <1>3
  <2> QED BY <2>1, <1>1, <1>5 DEF IInv, ConnectChecksHold, LockedBy
<1>7. DraftMatches'
  BY <1>1, <1>3, <1>4, <1>5 DEF IInv, DraftMatches, InTransaction
<1>8. CutIsComplete'
  <2>1. ASSUME NEW i \in Ids
        PROVE  /\ Seen(i)'.status = Seen(i).status
               /\ Seen(i)'.user = Seen(i).user
    BY <1>1, <1>3 DEF Seen
  <2>2. \A u : SeenBalance(u)' = SeenBalance(u)
    BY <1>1, <1>5 DEF SeenBalance
  <2>3. Exhausted' = Exhausted
    BY <2>1, <2>2 DEF Exhausted
  <2> QED BY <1>1, <1>3, <2>3 DEF IInv, CutIsComplete, TypeOK, Pass
<1>9. MacsDiffer' /\ DeviceLimit'
  BY <1>1, <1>3, NoneOpened DEF IsActive
<1>10. ZeroBalanceHasNoSession'
  BY <1>1, <1>4 DEF IInv, ZeroBalanceHasNoSession
<1> QED BY <1>6, <1>7, <1>8, <1>9, <1>10 DEF IInv

\* A kick marks the session of its MAC.
LEMMA MarkStep ==
  ASSUME IInv, TypeOK', NEW m \in Macs, KickMark(m)
  PROVE  IInv'
<1>1. UNCHANGED <<balance, limit, conn, mgr, draftRows, draftBalance>>
  BY DEF KickMark, accountVars, draftVars
<1>2. ASSUME NEW i \in Ids, i \in ActiveOn(m)
      PROVE  /\ sessions'[i].status = "kicked"
             /\ sessions'[i] # NoRow /\ RowFree(i)
             /\ sessions'[i].user = sessions[i].user
             /\ sessions'[i].mac = sessions[i].mac
  <2>1. sessions[i] \in Row /\ clock \in Nat
    BY <1>2, ActiveIsRow DEF IInv, ActiveOn, TypeOK
  <2>2. sessions'[i] = Closed(sessions[i], "kicked", clock) /\ RowFree(i)
    BY <1>2 DEF KickMark
  <2> QED BY <2>1, <2>2, ClosedType
<1>3. ASSUME NEW i \in Ids, i \notin ActiveOn(m)
      PROVE  sessions'[i] = sessions[i]
  BY <1>3 DEF KickMark
<1>4. ASSUME NEW i \in Ids, sessions'[i].status = "active"
      PROVE  sessions'[i] = sessions[i] /\ IsActive(i)
  BY <1>2, <1>3, <1>4 DEF IsActive
<1>5. ASSUME NEW i \in MgrRows
      PROVE  i \in Ids /\ sessions'[i] = sessions[i]
  <2>1. i \in Ids /\ ~RowFree(i)
    BY DEF MgrRows, RowFree, IInv, TypeOK, Pass
  <2> QED BY <2>1, <1>2, <1>3
<1>6. MgrRows' = MgrRows /\ MgrUsers' = MgrUsers
  BY <1>1, <1>5 DEF MgrUsers, MgrRows, InTransaction
<1>7. ASSUME NEW c \in Calls, conn[c].pc = "locked"
      PROVE  /\ Active(conn[c].user)' = Active(conn[c].user)
             /\ \A i \in Active(conn[c].user) : sessions'[i] = sessions[i]
  <2>1. ASSUME NEW i \in Active(conn[c].user)
        PROVE  i \in Ids /\ ~RowFree(i) /\ sessions'[i] = sessions[i]
    <3>1. i \in Ids /\ ~RowFree(i)
      BY <1>7 DEF Active, RowFree, LockedBy
    <3> QED BY <3>1, <1>2, <1>3
  <2>2. Active(conn[c].user) \subseteq Active(conn[c].user)'
    BY <1>1, <2>1 DEF Active, IsActive
  <2>3. Active(conn[c].user)' \subseteq Active(conn[c].user)
    BY <1>1, <1>4 DEF Active, IsActive
  <2> QED BY <2>1, <2>2, <2>3
<1>8. ConnectChecksHold'
  BY <1>1, <1>6, <1>7 DEF IInv, ConnectChecksHold, LockedBy
<1>9. DraftMatches'
  BY <1>1, <1>5, <1>6 DEF IInv, DraftMatches, InTransaction, IsActive
<1>10. CutIsComplete'
  <2>1. ASSUME NEW i \in Ids, Seen(i)'.status = "active"
        PROVE  Seen(i)' = Seen(i)
    BY <1>1, <1>4, <2>1 DEF Seen
  <2>2. \A u : SeenBalance(u)' = SeenBalance(u)
    BY <1>1, <1>6 DEF SeenBalance
  <2>3. Exhausted' \subseteq Exhausted
    BY <2>1, <2>2 DEF Exhausted
  <2>4. \A i \in Ids : sessions[i] # NoRow => sessions'[i] # NoRow
    BY <1>2, <1>3
  <2> QED BY <1>1, <2>3, <2>4 DEF IInv, CutIsComplete, TypeOK, Pass
<1>11. /\ MacsDiffer' /\ DeviceLimit'
       /\ \A u \in Users : Active(u)' \subseteq Active(u)
  BY <1>1, <1>4, NoneOpened
<1>12. ZeroBalanceHasNoSession'
  BY <1>1, <1>11 DEF IInv, ZeroBalanceHasNoSession
<1> QED BY <1>8, <1>9, <1>10, <1>11, <1>12 DEF IInv

\* connect opens a session, ending the one its MAC had elsewhere.
LEMMA OpenStep ==
  ASSUME IInv, TypeOK', NEW c \in Calls, ConnectOpen(c)
  PROVE  IInv'
<1>1. /\ conn[c].pc = "locked" /\ conn[c] \in Call /\ conn[c].session = 0
      /\ UNCHANGED <<balance, limit, mgr, draftRows, draftBalance>>
      /\ conn'[c].pc = "auth"
      /\ \A d \in Calls : d # c => conn'[d] = conn[d]
  BY DEF ConnectOpen, accountVars, draftVars, IInv, TypeOK, Call, Idle
<1>2. PICK u \in Users, m \in Macs : conn[c].user = u /\ conn[c].mac = m
  BY <1>1 DEF Call
<1>3. /\ balance[u] > 0 /\ u \notin MgrUsers
      /\ \A d \in Calls : LockedBy(d, u) => d = c
      /\ Cardinality(Active(u)) < limit[u]
  BY <1>1, <1>2 DEF IInv, ConnectChecksHold
<1>4. PICK id \in FreeIds :
        sessions' = [i \in Ids |->
          IF i = id THEN NewRow(u, m, conn[c].at)
          ELSE IF i \in ActiveOn(m)
                 THEN Closed(sessions[i], "ended", 0)
                 ELSE sessions[i]]
  BY <1>2 DEF ConnectOpen, Displaced
<1>5. /\ id \in Ids /\ sessions[id] = NoRow /\ ~IsActive(id)
      /\ sessions'[id].status = "active" /\ sessions'[id] # NoRow
      /\ sessions'[id].user = u /\ sessions'[id].mac = m
  BY <1>4 DEF FreeIds, NoRow, IsActive, NewRow
<1>6. ASSUME NEW i \in Ids, i \in ActiveOn(m)
      PROVE  /\ sessions'[i].status = "ended"
             /\ sessions'[i] # NoRow /\ RowFree(i)
  <2>1. sessions[i] \in Row
    BY <1>6, ActiveIsRow DEF IInv, ActiveOn
  <2>2. i # id
    BY <1>5, <1>6 DEF ActiveOn
  <2>3. sessions'[i] = Closed(sessions[i], "ended", 0)
    BY <1>4, <1>6, <2>2
  <2>4. RowFree(i)
    BY <1>2, <1>6 DEF ConnectOpen, Displaced
  <2>5. /\ Closed(sessions[i], "ended", 0).status = "ended"
        /\ Closed(sessions[i], "ended", 0) # NoRow
    BY <2>1, ClosedType
  <2> QED BY <2>3, <2>4, <2>5
<1>7. ASSUME NEW i \in Ids, i # id, i \notin ActiveOn(m)
      PROVE  sessions'[i] = sessions[i]
  BY <1>4, <1>7
<1>8. ASSUME NEW i \in Ids, i # id, sessions'[i].status = "active"
      PROVE  sessions'[i] = sessions[i] /\ IsActive(i) /\ i \notin ActiveOn(m)
  BY <1>6, <1>7, <1>8 DEF IsActive
<1>9. ASSUME NEW i \in Ids, IsActive(i), ~RowFree(i)
      PROVE  i # id /\ sessions'[i] = sessions[i]
  BY <1>5, <1>6, <1>7, <1>9
<1>10. ASSUME NEW i \in MgrRows
       PROVE  i \in Ids /\ i # id /\ sessions'[i] = sessions[i]
  <2>1. i \in Ids /\ ~RowFree(i) /\ IsActive(i)
    BY DEF MgrRows, RowFree, IInv, TypeOK, Pass, DraftMatches
  <2> QED BY <2>1, <1>9
<1>11. MgrRows' = MgrRows /\ MgrUsers' = MgrUsers
  BY <1>1, <1>10 DEF MgrUsers, MgrRows, InTransaction
<1>12. ASSUME NEW w \in Users, NEW i \in Active(w)'
       PROVE  i \in Active(w) \/ (w = u /\ i = id)
  <2>1. i \in Ids /\ sessions'[i].status = "active" /\ sessions'[i].user = w
    BY DEF Active, IsActive
  <2> QED BY <2>1, <1>5, <1>8 DEF Active, IsActive
<1>13. DeviceLimit'
  <2> SUFFICES ASSUME NEW w \in Users
               PROVE  Cardinality(Active(w)') <= limit[w]
    BY <1>1 DEF DeviceLimit
  <2>1. limit[w] \in Nat /\ limit[u] \in Nat
    BY DEF IInv, TypeOK
  <2>2. CASE w # u
    <3>1. Active(w)' \subseteq Active(w)
      BY <1>12, <2>2
    <3> QED BY <3>1, <2>1, FewerActive, ActiveFinite DEF IInv, DeviceLimit
  <2>3. CASE w = u
    <3>1. id \notin Active(u) /\ IsFiniteSet(Active(u))
      BY <1>5, ActiveFinite DEF Active
    <3>2. /\ IsFiniteSet(Active(u) \cup {id})
          /\ Cardinality(Active(u) \cup {id}) = Cardinality(Active(u)) + 1
      BY <3>1, FS_AddElement
    <3>3. Active(w)' \subseteq Active(u) \cup {id}
      BY <1>12, <2>3
    <3>4. /\ IsFiniteSet(Active(w)')
          /\ Cardinality(Active(w)') <= Cardinality(Active(u) \cup {id})
      BY <3>2, <3>3, FS_Subset
    <3>5. Cardinality(Active(w)') \in Nat /\ Cardinality(Active(u)) \in Nat
      BY <3>1, <3>4, FS_CardinalityType
    <3> QED BY <1>3, <2>1, <2>3, <3>2, <3>4, <3>5
  <2> QED BY <2>2, <2>3
<1>14. MacsDiffer'
  <2> SUFFICES ASSUME NEW i \in Ids, NEW j \in Ids,
                      sessions'[i].status = "active",
                      sessions'[j].status = "active",
                      sessions'[i].mac = sessions'[j].mac
               PROVE  i = j
    BY DEF MacsDiffer, IsActive
  <2>1. CASE i = id /\ j # id
    BY <1>5, <1>8, <2>1 DEF ActiveOn
  <2>2. CASE i # id /\ j = id
    BY <1>5, <1>8, <2>2 DEF ActiveOn
  <2>3. CASE i # id /\ j # id
    BY <1>8, <2>3 DEF IInv, MacsDiffer
  <2> QED BY <2>1, <2>2, <2>3
<1>15. ZeroBalanceHasNoSession'
  <2> SUFFICES ASSUME NEW w \in Users, balance[w] = 0
               PROVE  Active(w)' = {}
    BY <1>1 DEF ZeroBalanceHasNoSession
  <2>1. w # u
    BY <1>3
  <2> QED BY <2>1, <1>12 DEF IInv, ZeroBalanceHasNoSession
<1>16. ASSUME NEW d \in Calls, conn'[d].pc = "locked"
       PROVE  /\ d # c /\ conn'[d] = conn[d]
              /\ \A w : w = conn[d].user =>
                   /\ Active(w)' = Active(w)
                   /\ \A i \in Active(w) : sessions'[i] = sessions[i]
  <2>1. d # c /\ conn'[d] = conn[d]
    BY <1>1, <1>16
  <2>2. PICK w \in Users : w = conn[d].user
    BY <1>16, <2>1 DEF IInv, TypeOK, Call, Idle
  <2>3. w # u
    BY <1>3, <1>16, <2>1, <2>2 DEF LockedBy
  <2>4. ASSUME NEW i \in Active(w)
        PROVE  i \in Ids /\ i # id /\ sessions'[i] = sessions[i]
    <3>1. i \in Ids /\ IsActive(i) /\ ~RowFree(i)
      BY <1>16, <2>1, <2>2 DEF Active, RowFree, LockedBy
    <3> QED BY <3>1, <1>9
  <2>5. Active(w) \subseteq Active(w)'
    BY <2>4 DEF Active, IsActive
  <2>6. Active(w)' \subseteq Active(w)
    BY <1>12, <2>3
  <2> QED BY <2>1, <2>2, <2>4, <2>5, <2>6
<1>17. ConnectChecksHold'
  BY <1>1, <1>11, <1>16 DEF IInv, ConnectChecksHold, LockedBy
<1>18. DraftMatches'
  BY <1>1, <1>10, <1>11 DEF IInv, DraftMatches, InTransaction, IsActive
<1>19. CutIsComplete'
  <2> SUFFICES ASSUME mgr.phase = "end"
               PROVE  /\ \A i \in mgr.cut : sessions'[i] # NoRow
                      /\ Exhausted' \subseteq mgr.cut
    BY <1>1 DEF CutIsComplete
  <2>1. \A i \in mgr.cut : sessions'[i] # NoRow
    BY <1>5, <1>6, <1>7 DEF IInv, CutIsComplete, TypeOK, Pass
  <2>2. \A w : SeenBalance(w)' = SeenBalance(w)
    BY <1>1, <1>11 DEF SeenBalance
  <2>3. MgrRows = mgr.rows
    BY DEF MgrRows, InTransaction
  <2>4. ASSUME NEW i \in Ids, Seen(i)'.status = "active", SeenBalance(Seen(i)'.user) = 0
        PROVE  i \in Exhausted
    <3>1. CASE i \in mgr.rows
      <4>1. Seen(i)' = Seen(i)
        BY <1>1, <3>1 DEF Seen
      <4> QED BY <2>4, <4>1 DEF Exhausted
    <3>2. CASE i \notin mgr.rows /\ i # id
      <4>1. Seen(i)' = Seen(i)
        BY <1>1, <1>8, <2>4, <3>2 DEF Seen
      <4> QED BY <2>4, <4>1 DEF Exhausted
    <3>3. CASE i = id
      <4>1. Seen(i)'.user = u
        BY <1>1, <1>5, <1>10, <2>3, <3>3 DEF Seen
      <4>2. SeenBalance(u) > 0
        BY <1>3 DEF SeenBalance
      <4> QED BY <2>4, <4>1, <4>2
    <3> QED BY <3>1, <3>2, <3>3
  <2>5. Exhausted' \subseteq Exhausted
    BY <2>2, <2>4 DEF Exhausted
  <2> QED BY <2>1, <2>5 DEF IInv, CutIsComplete
<1> QED BY <1>13, <1>14, <1>15, <1>17, <1>18, <1>19 DEF IInv

\* Time is bought: only with the account's row free, so under no check.
LEMMA AddTimeStep ==
  ASSUME IInv, TypeOK', NEW u \in Users, NEW g \in Grants, AddTime(u, g)
  PROVE  IInv'
<1>1. /\ UNCHANGED <<sessions, conn, mgr, draftRows, draftBalance>>
      /\ u \notin MgrUsers /\ \A c \in Calls : ~LockedBy(c, u)
  BY DEF AddTime, UserFree, draftVars
<1>2. /\ balance[u] \in Nat /\ limit[u] \in Nat
      /\ g.seconds \in Nat \ {0} /\ g.devices \in Nat
  BY GrantsAssumption DEF IInv, TypeOK
<1>3. Larger(limit[u], g.devices) \in Nat /\ Larger(limit[u], g.devices) >= limit[u]
  BY <1>2, LargerType
<1>4. /\ balance'[u] > 0 /\ limit'[u] >= limit[u]
      /\ \A w \in Users : w # u => balance'[w] = balance[w] /\ limit'[w] = limit[w]
  BY <1>2, <1>3 DEF AddTime, IInv, TypeOK
<1>5. /\ MgrRows' = MgrRows /\ MgrUsers' = MgrUsers
      /\ \A w : Active(w)' = Active(w)
  BY <1>1 DEF MgrUsers, MgrRows, InTransaction, Active, IsActive
<1>6. ConnectChecksHold'
  <2>1. ASSUME NEW c \in Calls, conn[c].pc = "locked"
        PROVE  conn[c].user \in Users /\ conn[c].user # u
    BY <1>1, <2>1 DEF LockedBy, IInv, TypeOK, Call, Idle
  <2> QED BY <1>1, <1>4, <1>5, <2>1 DEF IInv, ConnectChecksHold, LockedBy
<1>7. DraftMatches' /\ MacsDiffer'
  BY <1>1, <1>5 DEF IInv, DraftMatches, InTransaction, IsActive, MacsDiffer
<1>8. CutIsComplete'
  <2>1. ASSUME NEW i \in Ids, Seen(i)'.status = "active",
               SeenBalance(Seen(i).user)' = 0, mgr.phase = "end"
        PROVE  i \in Exhausted
    <3>1. Seen(i)' = Seen(i)
      BY <1>1 DEF Seen
    <3>2. PICK w \in Users : w = Seen(i).user
      <4>1. InTransaction
        BY <2>1 DEF InTransaction
      <4>2. Seen(i) \in Row
        BY <2>1, <3>1, <4>1, SeenType DEF NoRow
      <4> QED BY <4>2 DEF Row
    <3>3. SeenBalance(w)' = 0
      BY <2>1, <3>1, <3>2
    <3>4. w # u
      BY <1>1, <1>4, <1>5, <3>3 DEF SeenBalance
    <3>5. SeenBalance(w) = 0
      BY <1>1, <1>4, <1>5, <3>3, <3>4 DEF SeenBalance
    <3> QED BY <2>1, <3>1, <3>2, <3>5 DEF Exhausted
  <2>2. mgr.phase = "end" => Exhausted' \subseteq Exhausted
    BY <2>1 DEF Exhausted
  <2> QED BY <1>1, <2>2 DEF IInv, CutIsComplete
<1>9. DeviceLimit'
  <2> SUFFICES ASSUME NEW w \in Users
               PROVE  Cardinality(Active(w)) <= limit'[w]
    BY <1>5 DEF DeviceLimit
  <2>1. Cardinality(Active(w)) <= limit[w] /\ Cardinality(Active(w)) \in Nat
    BY ActiveFinite DEF IInv, DeviceLimit
  <2>2. limit[w] \in Nat /\ limit'[w] \in Nat /\ limit'[w] >= limit[w]
    BY <1>4 DEF IInv, TypeOK
  <2> QED BY <2>1, <2>2
<1>10. ZeroBalanceHasNoSession'
  BY <1>4, <1>5 DEF IInv, ZeroBalanceHasNoSession
<1> QED BY <1>6, <1>7, <1>8, <1>9, <1>10 DEF IInv

\* The pass takes its locks, all rows at once, and starts its draft.
LEMMA TickLockStep ==
  ASSUME IInv, TypeOK', TickLock
  PROVE  IInv'
<1> DEFINE rows == {i \in mgr.rows : IsActive(i)}
<1>1. /\ UNCHANGED <<balance, limit, sessions, conn>>
      /\ mgr' = [mgr EXCEPT !.phase = "settle", !.rows = rows, !.todo = rows,
                            !.stamp = clock]
      /\ draftRows' = [i \in Ids |-> IF i \in rows THEN sessions[i] ELSE NoRow]
      /\ \A i \in rows : RowFree(i) /\ UserFree(sessions[i].user)
  BY DEF TickLock, Elsewhere
<1>2. /\ mgr'.phase = "settle" /\ mgr'.rows = rows /\ mgr'.todo = rows
      /\ rows \subseteq Ids
  BY <1>1 DEF IInv, TypeOK, Pass
<1> HIDE DEF rows
<1>3. MgrRows' = rows /\ InTransaction'
  BY <1>2 DEF MgrRows, InTransaction
<1>4. \A c \in Calls : conn[c].pc = "locked" => conn[c].user \notin MgrUsers'
  <2> SUFFICES ASSUME NEW c \in Calls, conn[c].pc = "locked",
                      NEW i \in rows, sessions[i].user = conn[c].user
               PROVE  FALSE
    BY <1>1, <1>3 DEF MgrUsers
  <2> QED BY <1>1 DEF UserFree, LockedBy
<1>5. ConnectChecksHold'
  BY <1>1, <1>4 DEF IInv, ConnectChecksHold, LockedBy, Active, IsActive
<1>6. DraftMatches'
  <2>1. ASSUME NEW i \in rows
        PROVE  /\ IsActive(i) /\ draftRows'[i] = sessions[i]
               /\ sessions[i] \in Row
    <3>1. i \in Ids /\ IsActive(i)
      BY <1>2 DEF rows
    <3> QED BY <1>1, <3>1, ActiveIsRow DEF IInv
  <2> QED BY <1>1, <1>2, <1>3, <2>1 DEF DraftMatches, IsActive
<1>7. CutIsComplete'
  BY <1>2 DEF CutIsComplete
<1>8. MacsDiffer' /\ DeviceLimit' /\ ZeroBalanceHasNoSession'
  BY <1>1 DEF IInv, MacsDiffer, DeviceLimit, ZeroBalanceHasNoSession, Active, IsActive
<1> QED BY <1>5, <1>6, <1>7, <1>8 DEF IInv

\* One round of the loop changes the draft only.
LEMMA TickSettleStep ==
  ASSUME IInv, TypeOK', TickSettle
  PROVE  IInv'
<1>1. PICK k \in mgr.todo :
        /\ draftRows' = [draftRows EXCEPT ![k] = Settled(draftRows[k])]
        /\ mgr' = [mgr EXCEPT !.todo = @ \ {k}]
  BY DEF TickSettle
<1>2. /\ UNCHANGED <<balance, limit, sessions, conn>>
      /\ mgr.phase = "settle" /\ InTransaction
      /\ mgr'.phase = "settle" /\ mgr'.rows = mgr.rows
      /\ mgr'.todo = mgr.todo \ {k}
  BY <1>1 DEF TickSettle, Elsewhere, InTransaction, IInv, TypeOK, Pass
<1>3. /\ MgrRows' = MgrRows /\ MgrUsers' = MgrUsers /\ MgrRows \subseteq Ids
      /\ MgrRows = mgr.rows /\ k \in MgrRows
  BY <1>2 DEF MgrRows, MgrUsers, InTransaction, IInv, TypeOK, Pass, DraftMatches
<1>4. ASSUME NEW i \in MgrRows
      PROVE  /\ IsActive(i) /\ draftRows'[i] \in Row
             /\ draftRows'[i].user = sessions[i].user
             /\ draftRows'[i].mac = sessions[i].mac
  <2>1. /\ IsActive(i) /\ draftRows[i] \in Row
        /\ draftRows[i].user = sessions[i].user
        /\ draftRows[i].mac = sessions[i].mac
    BY DEF IInv, DraftMatches
  <2>2. /\ Settled(draftRows[i]) \in Row
        /\ Settled(draftRows[i]).user = draftRows[i].user
        /\ Settled(draftRows[i]).mac = draftRows[i].mac
    BY <2>1, SettledType DEF IInv, TypeOK
  <2>3. draftRows'[i] = IF i = k THEN Settled(draftRows[i]) ELSE draftRows[i]
    BY <1>1, <1>3 DEF IInv, TypeOK
  <2> QED BY <2>1, <2>2, <2>3
<1>5. DraftMatches'
  BY <1>2, <1>3, <1>4 DEF IInv, DraftMatches, InTransaction, IsActive
<1>6. ConnectChecksHold'
  BY <1>2, <1>3 DEF IInv, ConnectChecksHold, LockedBy, Active, IsActive
<1>7. CutIsComplete'
  BY <1>2 DEF CutIsComplete
<1>8. MacsDiffer' /\ DeviceLimit' /\ ZeroBalanceHasNoSession'
  BY <1>2 DEF IInv, MacsDiffer, DeviceLimit, ZeroBalanceHasNoSession, Active, IsActive
<1> QED BY <1>5, <1>6, <1>7, <1>8 DEF IInv

\* The second SELECT notes every exhausted session.
LEMMA TickExhaustedStep ==
  ASSUME IInv, TypeOK', TickExhausted
  PROVE  IInv'
<1>1. /\ UNCHANGED <<balance, limit, sessions, conn, draftRows, draftBalance>>
      /\ InTransaction /\ InTransaction'
      /\ mgr'.rows = mgr.rows /\ mgr'.todo = mgr.todo /\ mgr'.cut = Exhausted
  BY DEF TickExhausted, Elsewhere, InTransaction, draftVars, IInv, TypeOK, Pass
<1>2. MgrRows' = MgrRows /\ MgrUsers' = MgrUsers
  BY <1>1 DEF MgrRows, MgrUsers, InTransaction
<1>3. ConnectChecksHold' /\ DraftMatches'
  BY <1>1, <1>2 DEF IInv, ConnectChecksHold, DraftMatches, LockedBy, Active, IsActive
<1>4. Exhausted' = Exhausted
  BY <1>1, <1>2 DEF Exhausted, Seen, SeenBalance
<1>5. ASSUME NEW i \in Exhausted
      PROVE  sessions[i] # NoRow
  <2>1. CASE i \in mgr.rows
    BY <1>1, <2>1 DEF IInv, DraftMatches, MgrRows, IsActive, NoRow
  <2>2. CASE i \notin mgr.rows
    BY <2>2 DEF Exhausted, Seen, NoRow
  <2> QED BY <2>1, <2>2
<1>6. CutIsComplete'
  BY <1>1, <1>4, <1>5 DEF CutIsComplete
<1>7. MacsDiffer' /\ DeviceLimit' /\ ZeroBalanceHasNoSession'
  BY <1>1 DEF IInv, MacsDiffer, DeviceLimit, ZeroBalanceHasNoSession, Active, IsActive
<1> QED BY <1>3, <1>6, <1>7 DEF IInv

\* The pass commits: it closes every session whose account it leaves without
\* time, and touches nothing a connect has checked.
LEMMA TickCommitStep ==
  ASSUME IInv, TypeOK', TickCommit
  PROVE  IInv'
<1>1. /\ UNCHANGED <<limit, conn>> /\ mgr.phase = "end" /\ InTransaction
      /\ MgrRows = mgr.rows /\ mgr.cut \subseteq Ids
      /\ \A i \in Ids : sessions'[i] =
           IF i \in mgr.cut THEN Closed(Seen(i), "ended", 0) ELSE Seen(i)
      /\ \A u \in Users : balance'[u] = SeenBalance(u)
      /\ \A i \in mgr.cut \ mgr.rows : RowFree(i)
  BY DEF TickCommit, Elsewhere, InTransaction, MgrRows, IInv, TypeOK, Pass
<1>2. mgr'.phase = "cut"
  BY DEF TickCommit, IInv, TypeOK, Pass
<1>3. MgrRows' = {} /\ MgrUsers' = {} /\ ~InTransaction'
  BY <1>2 DEF MgrRows, MgrUsers, InTransaction
<1>4. ASSUME NEW i \in Ids, i \in mgr.cut
      PROVE  sessions'[i].status = "ended"
  <2>1. Seen(i) \in Row
    BY <1>1, <1>4, SeenType
  <2>2. Closed(Seen(i), "ended", 0).status = "ended"
    BY <2>1, ClosedType
  <2> QED BY <1>1, <1>4, <2>2
<1>5. ASSUME NEW i \in Ids, sessions'[i].status = "active"
      PROVE  /\ i \notin mgr.cut /\ sessions'[i] = Seen(i) /\ IsActive(i)
             /\ sessions'[i].user = sessions[i].user
             /\ sessions'[i].mac = sessions[i].mac
  <2>1. i \notin mgr.cut /\ sessions'[i] = Seen(i)
    BY <1>1, <1>4, <1>5
  <2>2. CASE i \in mgr.rows
    BY <1>1, <2>1, <2>2 DEF IInv, DraftMatches, Seen
  <2>3. CASE i \notin mgr.rows
    BY <1>5, <2>1, <2>3 DEF Seen, IsActive
  <2> QED BY <2>1, <2>2, <2>3
<1>6. MacsDiffer' /\ DeviceLimit' /\ \A u \in Users : Active(u)' \subseteq Active(u)
  BY <1>1, <1>5, NoneOpened
<1>7. ZeroBalanceHasNoSession'
  <2> SUFFICES ASSUME NEW u \in Users, balance'[u] = 0, NEW i \in Active(u)'
               PROVE  FALSE
    BY DEF ZeroBalanceHasNoSession
  <2>1. i \in Ids /\ sessions'[i].status = "active" /\ sessions'[i].user = u
    BY DEF Active, IsActive
  <2>2. Seen(i).status = "active" /\ Seen(i).user = u /\ i \notin mgr.cut
    BY <1>5, <2>1
  <2>3. SeenBalance(u) = 0
    BY <1>1
  <2>4. i \in Exhausted
    BY <2>1, <2>2, <2>3 DEF Exhausted
  <2> QED BY <1>1, <2>2, <2>4 DEF IInv, CutIsComplete
<1>8. ASSUME NEW c \in Calls, conn[c].pc = "locked"
      PROVE  /\ \A i \in Active(conn[c].user) : sessions'[i] = sessions[i]
             /\ Active(conn[c].user)' = Active(conn[c].user)
             /\ balance'[conn[c].user] = balance[conn[c].user]
  <2>1. conn[c].user \in Users /\ conn[c].user \notin MgrUsers
    BY <1>8 DEF IInv, TypeOK, ConnectChecksHold, Call, Idle
  <2>2. ASSUME NEW i \in Active(conn[c].user)
        PROVE  i \in Ids /\ sessions'[i] = sessions[i]
    <3>1. i \in Ids /\ ~RowFree(i) /\ i \notin MgrRows
      BY <1>8, <2>1, LockedUsers DEF Active, RowFree, LockedBy
    <3>2. i \notin mgr.cut
      BY <1>1, <3>1
    <3> QED BY <1>1, <3>1, <3>2 DEF Seen
  <2>3. Active(conn[c].user) \subseteq Active(conn[c].user)'
    BY <1>1, <2>2 DEF Active, IsActive
  <2>4. Active(conn[c].user)' \subseteq Active(conn[c].user)
    BY <1>1, <1>6, <2>1
  <2>5. balance'[conn[c].user] = balance[conn[c].user]
    BY <1>1, <2>1 DEF SeenBalance
  <2> QED BY <2>2, <2>3, <2>4, <2>5
<1>9. ConnectChecksHold'
  BY <1>1, <1>3, <1>8 DEF IInv, ConnectChecksHold, LockedBy
<1>10. DraftMatches' /\ CutIsComplete'
  BY <1>2, <1>3 DEF DraftMatches, CutIsComplete
<1> QED BY <1>6, <1>7, <1>9, <1>10 DEF IInv

\* Before anything has happened there are no sessions.
LEMMA InitStep == Init => IInv
<1> SUFFICES ASSUME Init
             PROVE  IInv
  OBVIOUS
<1>1. \A i \in Ids : ~IsActive(i)
  BY DEF Init, IsActive, NoRow
<1>2. \A u : Active(u) = {}
  BY <1>1 DEF Active
<1>3. mgr = Asleep /\ ~InTransaction /\ MgrRows = {}
  BY DEF Init, Asleep, InTransaction, MgrRows
<1>4. TypeOK
  BY <1>3 DEF Init, NoDraft, TypeOK, Asleep, Pass
<1>5. ConnectChecksHold
  BY DEF Init, ConnectChecksHold, Idle
<1>6. DraftMatches /\ CutIsComplete
  BY <1>3 DEF DraftMatches, CutIsComplete, InTransaction
<1>7. MacsDiffer /\ ZeroBalanceHasNoSession
  BY <1>1, <1>2 DEF MacsDiffer, ZeroBalanceHasNoSession
<1>8. DeviceLimit
  BY <1>2, FS_EmptySet DEF DeviceLimit, Init
<1> QED BY <1>4, <1>5, <1>6, <1>7, <1>8 DEF IInv

\* Every step of the system keeps the invariant.
LEMMA InductiveStep ==
  ASSUME IInv, [Next]_vars
  PROVE  IInv'
<1>0. TypeOK'
  BY TypeStep
<1>1. CASE \E c \in Calls : ConnectStep(c)
  <2> PICK c \in Calls : ConnectStep(c)
    BY <1>1
  <2>1. CASE ConnectLock(c)
    BY <1>0, <2>1, LockStep
  <2>2. CASE ConnectRefresh(c)
    BY <1>0, <2>2, RefreshStep
  <2>3. CASE ConnectOpen(c)
    BY <1>0, <2>3, OpenStep
  <2>4. CASE \E u \in Users, m \in Macs : ConnectStart(c, u, m)
    BY <1>0, <2>4, CallsOnlyStep
       DEF ConnectStart, accountVars, IInv, TypeOK
  <2>5. CASE \/ ConnectRefuse(c) \/ ConnectAbort(c) \/ ConnectAuth(c)
             \/ ConnectAuthFail(c)
    BY <1>0, <2>5, CallsOnlyStep
       DEF ConnectRefuse, ConnectAbort, ConnectAuth, ConnectAuthFail, Idle,
           accountVars, IInv, TypeOK
  <2> QED BY <2>1, <2>2, <2>3, <2>4, <2>5 DEF ConnectStep
<1>2. CASE \E m \in Macs : KickStep(m)
  <2> PICK m \in Macs : KickStep(m)
    BY <1>2
  <2>1. CASE KickMark(m)
    BY <1>0, <2>1, MarkStep
  <2>2. CASE KickDeauth(m) \/ KickMiss(m)
    BY <1>0, <2>2, CallsOnlyStep DEF KickDeauth, KickMiss, accountVars
  <2> QED BY <2>1, <2>2 DEF KickStep
<1>3. CASE BackendCrash
  BY <1>0, <1>3, CallsOnlyStep DEF BackendCrash, Idle, accountVars
<1>4. CASE TickStep
  <2>1. CASE TickLock
    BY <1>0, <2>1, TickLockStep
  <2>2. CASE TickSettle
    BY <1>0, <2>2, TickSettleStep
  <2>3. CASE TickExhausted
    BY <1>0, <2>3, TickExhaustedStep
  <2>4. CASE TickCommit
    BY <1>0, <2>4, TickCommitStep
  <2>5. CASE TickPoll \/ TickBegin \/ TickReview
    BY <1>0, <2>5, OutsideStep
       DEF TickPoll, TickBegin, TickReview, Elsewhere, IInv, TypeOK, Pass
  <2>6. CASE TickSleep \/ TickAbort
    BY <1>0, <2>6, OutsideStep
       DEF TickSleep, TickAbort, Elsewhere, Asleep
  <2>7. CASE \E m \in Macs : TickCut(m) \/ TickOrphan(m)
    BY <1>0, <2>7, OutsideStep
       DEF TickCut, TickOrphan, Elsewhere, IInv, TypeOK, Pass
  <2> QED BY <1>4, <2>1, <2>2, <2>3, <2>4, <2>5, <2>6, <2>7 DEF TickStep
<1>5. CASE Environment
  <2>1. CASE Advance \/ \E m \in Macs : NdsDrop(m)
    BY <1>0, <2>1, CallsOnlyStep DEF Advance, NdsDrop, accountVars
  <2>2. CASE \E u \in Users, g \in Grants : AddTime(u, g)
    BY <1>0, <2>2, AddTimeStep
  <2> QED BY <1>5, <2>1, <2>2 DEF Environment
<1>6. CASE UNCHANGED vars
  BY <1>0, <1>6, CallsOnlyStep DEF vars, accountVars
<1> QED BY <1>1, <1>2, <1>3, <1>4, <1>5, <1>6 DEF Next

-----------------------------------------------------------------------------
(***************************************************************************)
(* The theorems.                                                           *)
(***************************************************************************)

\* The invariant holds of every behaviour of requests, kicks and passes.
THEOREM Invariance == Spec => []IInv
BY InitStep, InductiveStep, PTL DEF Spec

\* Every variable keeps its type.
THEOREM TypeCorrect == Spec => []TypeOK
<1>1. IInv => TypeOK
  BY DEF IInv
<1> QED BY <1>1, Invariance, PTL

\* No account ever has more active sessions than its limit.
THEOREM DeviceLimitHolds == Spec => []DeviceLimit
<1>1. IInv => DeviceLimit
  BY DEF IInv
<1> QED BY <1>1, Invariance, PTL

\* An account without time has no active session.
THEOREM ZeroBalanceIsOffline == Spec => []ZeroBalanceHasNoSession
<1>1. IInv => ZeroBalanceHasNoSession
  BY DEF IInv
<1> QED BY <1>1, Invariance, PTL

\* A device never has two active sessions.
THEOREM OneSessionPerMacHolds == Spec => []OneSessionPerMac
<1>1. IInv => OneSessionPerMac
  <2> SUFFICES ASSUME IInv, NEW m \in Macs
               PROVE  Cardinality(ActiveOn(m)) <= 1
    BY DEF OneSessionPerMac
  <2>1. CASE ActiveOn(m) = {}
    BY <2>1, FS_EmptySet
  <2>2. CASE ActiveOn(m) # {}
    <3>1. PICK i \in ActiveOn(m) : TRUE
      BY <2>2
    <3>2. ActiveOn(m) = {i}
      BY <3>1 DEF IInv, MacsDiffer, ActiveOn
    <3>3. Cardinality({i}) = 1
      BY FS_Singleton
    <3> QED BY <3>2, <3>3
  <2> QED BY <2>1, <2>2
<1> QED BY <1>1, Invariance, PTL

\* A closed session stays closed and is never charged again.
THEOREM ClosedSessionsStayClosed == Spec => ClosedStaysClosed
<1> DEFINE Stays ==
      \A i \in Ids : sessions[i] # NoRow /\ ~IsActive(i) =>
        /\ sessions'[i].status \in {"ended", "kicked"}
        /\ sessions'[i].used = sessions[i].used
<1>1. ASSUME IInv, [Next]_vars
      PROVE  Stays
  <2> SUFFICES ASSUME NEW i \in Ids, sessions[i] # NoRow, ~IsActive(i)
               PROVE  /\ sessions'[i].status \in {"ended", "kicked"}
                      /\ sessions'[i].used = sessions[i].used
    OBVIOUS
  <2>0. sessions[i] \in Row /\ sessions[i].status \in {"ended", "kicked"}
    BY <1>1, ActiveIsRow DEF IInv, Row, IsActive
  <2>1. CASE UNCHANGED sessions
    BY <2>0, <2>1
  <2>2. ASSUME NEW c \in Calls, ConnectRefresh(c)
        PROVE  sessions'[i] = sessions[i]
    <3>1. conn[c].session # i
      BY <1>1, <2>2 DEF IInv, ConnectChecksHold, ConnectRefresh, Active
    <3> QED BY <1>1, <2>2, <3>1 DEF IInv, TypeOK, ConnectRefresh
  <2>3. ASSUME NEW c \in Calls, ConnectOpen(c)
        PROVE  sessions'[i] = sessions[i]
    BY <2>3 DEF ConnectOpen, FreeIds, Displaced, ActiveOn
  <2>4. ASSUME NEW m \in Macs, KickMark(m)
        PROVE  sessions'[i] = sessions[i]
    BY <2>4 DEF KickMark, ActiveOn
  <2>5. CASE TickCommit
    <3>1. InTransaction /\ i \notin mgr.rows
      BY <1>1, <2>5 DEF IInv, DraftMatches, MgrRows, InTransaction, TickCommit
    <3>2. sessions'[i] \in {Closed(sessions[i], "ended", 0), sessions[i]}
      BY <2>5, <3>1 DEF TickCommit, Seen
    <3>3. /\ Closed(sessions[i], "ended", 0).status = "ended"
          /\ Closed(sessions[i], "ended", 0).used = sessions[i].used
      BY <2>0, ClosedType
    <3> QED BY <2>0, <3>2, <3>3
  <2>6. \/ UNCHANGED sessions \/ TickCommit
        \/ \E c \in Calls : ConnectRefresh(c) \/ ConnectOpen(c)
        \/ \E m \in Macs : KickMark(m)
    BY <1>1
       DEF Next, ConnectStep, KickStep, TickStep, Environment, vars,
           ConnectStart, ConnectLock, ConnectRefuse, ConnectAbort,
           ConnectAuth, ConnectAuthFail, KickDeauth, KickMiss, BackendCrash,
           TickPoll, TickBegin, TickLock, TickSettle, TickExhausted,
           TickReview, TickSleep, TickAbort, TickCut, TickOrphan, Advance,
           NdsDrop, AddTime
  <2> QED BY <2>0, <2>1, <2>2, <2>3, <2>4, <2>5, <2>6
<1>2. (IInv /\ [Next]_vars) => [Stays]_vars
  BY <1>1
<1> QED BY <1>2, Invariance, PTL DEF Spec, ClosedStaysClosed

-----------------------------------------------------------------------------
(***************************************************************************)
(* The grace.                                                              *)
(***************************************************************************)

\* Steps that leave the draft and the start of every locked row alone, and
\* neither the clock nor a request in flight.
LEMMA TimesKept ==
  ASSUME IInv, TimesHold, TypeOK',
         \A c \in Calls : conn'[c].pc \in {"locked", "auth"} =>
           clock <= conn'[c].at + ConnectTime,
         UNCHANGED <<clock, mgr, draftRows>>,
         \A i \in MgrRows : sessions'[i].started = sessions[i].started
  PROVE  TimesHold'
<1>1. MgrRows' = MgrRows
  BY DEF MgrRows, InTransaction
<1> QED BY <1>1 DEF TimesHold

\* Steps of requests.
LEMMA ConnectTimes ==
  ASSUME IInv, TimesHold, TypeOK', NEW c \in Calls, ConnectStep(c)
  PROVE  TimesHold'
<1>0. /\ MgrRows \subseteq Ids
      /\ \A i \in MgrRows : IsActive(i) /\ ~RowFree(i) /\ sessions[i] \in Row
  <2>1. MgrRows \subseteq Ids /\ \A i \in MgrRows : IsActive(i) /\ ~RowFree(i)
    BY DEF IInv, TypeOK, Pass, DraftMatches, MgrRows, RowFree
  <2> QED BY <2>1, ActiveIsRow DEF IInv
<1>1. /\ UNCHANGED <<clock, mgr, draftRows>>
      /\ \A d \in Calls : d # c => conn'[d] = conn[d]
  BY DEF ConnectStep, ConnectStart, ConnectLock, ConnectRefuse, ConnectRefresh,
         ConnectOpen, ConnectAbort, ConnectAuth, ConnectAuthFail, draftVars,
         IInv, TypeOK
<1>2. ASSUME conn'[c].pc \in {"locked", "auth"}
      PROVE  clock <= conn'[c].at + ConnectTime
  <2>1. CASE ConnectLock(c)
    <3>0. conn[c] \in Call
      BY <2>1 DEF ConnectLock, ConnectMayLock, IInv, TypeOK, Idle
    <3>1. PICK begin \in conn[c].at..clock :
            /\ clock <= begin + ConnectTime
            /\ conn' = [conn EXCEPT
                 ![c].pc = "locked", ![c].at = begin,
                 ![c].session = OwnSession(conn[c].user, conn[c].mac)]
      BY <2>1 DEF ConnectLock
    <3>2. conn'[c].at = begin
      BY <3>0, <3>1 DEF IInv, TypeOK, Call
    <3> QED BY <3>1, <3>2
  <2>2. CASE ConnectRefresh(c) \/ ConnectOpen(c)
    <3>1. conn[c].pc = "locked" /\ conn[c] \in Call
      BY <2>2 DEF ConnectRefresh, ConnectOpen, IInv, TypeOK, Call, Idle
    <3>2. conn'[c].at = conn[c].at
      BY <2>2, <3>1 DEF ConnectRefresh, ConnectOpen, IInv, TypeOK, Call
    <3> QED BY <3>1, <3>2 DEF TimesHold
  <2>3. CASE \E u \in Users, m \in Macs : ConnectStart(c, u, m)
    <3>1. conn'[c].pc = "checked"
      BY <2>3 DEF ConnectStart, IInv, TypeOK
    <3> QED BY <1>2, <3>1
  <2>4. CASE ConnectRefuse(c) \/ ConnectAbort(c) \/ ConnectAuth(c) \/ ConnectAuthFail(c)
    <3>1. conn'[c].pc = "idle"
      BY <2>4 DEF ConnectRefuse, ConnectAbort, ConnectAuth, ConnectAuthFail,
                  Idle, IInv, TypeOK
    <3> QED BY <1>2, <3>1
  <2> QED BY <2>1, <2>2, <2>3, <2>4 DEF ConnectStep
<1>3. ASSUME NEW i \in MgrRows
      PROVE  sessions'[i].started = sessions[i].started
  <2>1. CASE ConnectRefresh(c)
    <3>1. sessions[i] \in Row
      BY <1>0
    <3> QED BY <1>0, <2>1, <3>1 DEF ConnectRefresh, IInv, TypeOK, Row
  <2>2. CASE ConnectOpen(c)
    <3>1. i \in Ids /\ i \notin FreeIds /\ i \notin Displaced(c)
      BY <1>0, <2>2 DEF ConnectOpen, FreeIds, NoRow, IsActive
    <3> QED BY <2>2, <3>1 DEF ConnectOpen
  <2>3. CASE UNCHANGED sessions
    BY <2>3
  <2> QED BY <2>1, <2>2, <2>3
          DEF ConnectStep, ConnectStart, ConnectLock, ConnectRefuse,
              ConnectAbort, ConnectAuth, ConnectAuthFail
<1>4. \A d \in Calls : conn'[d].pc \in {"locked", "auth"} =>
        clock <= conn'[d].at + ConnectTime
  BY <1>1, <1>2 DEF TimesHold
<1> QED BY <1>1, <1>3, <1>4, TimesKept

\* A round of the loop closes a row only when its grace is over, and changes
\* no start otherwise.
LEMMA SettleTimes ==
  ASSUME IInv, TimesHold, TypeOK', TickSettle
  PROVE  TimesHold'
<1>1. PICK k \in mgr.todo :
        /\ draftRows' = [draftRows EXCEPT ![k] = Settled(draftRows[k])]
        /\ mgr' = [mgr EXCEPT !.todo = @ \ {k}]
  BY DEF TickSettle
<1>2. /\ UNCHANGED <<clock, sessions, conn>> /\ InTransaction
      /\ mgr'.phase = mgr.phase /\ mgr'.rows = mgr.rows
      /\ mgr'.stamp = mgr.stamp
  BY <1>1 DEF TickSettle, Elsewhere, InTransaction, IInv, TypeOK, Pass
<1>3. MgrRows' = MgrRows /\ MgrRows \subseteq Ids /\ k \in MgrRows
  BY <1>2 DEF MgrRows, InTransaction, IInv, TypeOK, Pass, DraftMatches
<1>4. ASSUME NEW i \in MgrRows
      PROVE  IF draftRows'[i].status = "ended"
               THEN mgr.stamp > sessions[i].started + Grace
               ELSE draftRows'[i].started = sessions[i].started
  <2>1. draftRows'[i] = IF i = k THEN Settled(draftRows[i]) ELSE draftRows[i]
    BY <1>1, <1>3 DEF IInv, TypeOK
  <2>2. CASE draftRows'[i] = draftRows[i]
    BY <2>2 DEF TimesHold
  <2>3. CASE draftRows[i].status = "ended"
    <3>1. mgr.stamp > sessions[i].started + Grace
      BY <2>3 DEF TimesHold
    <3>2. draftRows[i] \in Row
      BY DEF IInv, DraftMatches
    <3>3. Closed(draftRows[i], "ended", 0).status = "ended"
      BY <3>2, ClosedType
    <3>4. Settled(draftRows[i]).status = "ended"
      BY <2>3, <3>2, <3>3 DEF Settled, Row
    <3> QED BY <2>1, <2>3, <3>1, <3>4
  <2>4. CASE draftRows[i].status # "ended" /\ draftRows'[i] # draftRows[i]
    <3>1. /\ draftRows[i].started = sessions[i].started
          /\ draftRows[i] \in Row /\ draftRows'[i] = Settled(draftRows[i])
      BY <2>1, <2>4 DEF TimesHold, IInv, DraftMatches
    <3>2. CASE Expired(draftRows[i]) /\ draftRows[i].mac \notin mgr.online
      <4>1. draftRows'[i].status = "ended"
        BY <3>1, <3>2, ClosedType DEF Settled
      <4> QED BY <3>1, <3>2, <4>1 DEF Expired
    <3>3. CASE draftRows[i].mac \in mgr.online
      <4>1. /\ draftRows'[i].status = draftRows[i].status
            /\ draftRows'[i].started = draftRows[i].started
        BY <3>1, <3>3 DEF Settled, Row
      <4> QED BY <2>4, <3>1, <4>1
    <3>4. CASE ~Expired(draftRows[i]) /\ draftRows[i].mac \notin mgr.online
      BY <2>4, <3>1, <3>4 DEF Settled
    <3> QED BY <3>2, <3>3, <3>4
  <2> QED BY <2>2, <2>3, <2>4
<1> QED BY <1>2, <1>3, <1>4 DEF TimesHold

\* Every step keeps the times in order.
LEMMA TimesStep ==
  ASSUME IInv, TimesHold, [Next]_vars
  PROVE  TimesHold'
<1>0. TypeOK' /\ clock \in Nat /\ mgr.stamp \in Nat
  BY TypeStep DEF IInv, TypeOK, Pass
<1>1. CASE \E c \in Calls : ConnectStep(c)
  BY <1>0, <1>1, ConnectTimes
<1>2. CASE \E m \in Macs : KickStep(m)
  <2> PICK m \in Macs : KickStep(m)
    BY <1>2
  <2>1. UNCHANGED <<clock, conn, mgr, draftRows>>
    BY DEF KickStep, KickDeauth, KickMark, KickMiss, draftVars
  <2>2. ASSUME NEW i \in MgrRows
        PROVE  sessions'[i] = sessions[i]
    <3>1. i \in Ids /\ ~RowFree(i)
      BY DEF MgrRows, RowFree, IInv, TypeOK, Pass
    <3> QED BY <3>1 DEF KickStep, KickDeauth, KickMark, KickMiss
  <2>3. \A c \in Calls : conn'[c].pc \in {"locked", "auth"} =>
          clock <= conn'[c].at + ConnectTime
    BY <2>1 DEF TimesHold
  <2> QED BY <1>0, <2>1, <2>2, <2>3, TimesKept
<1>3. CASE BackendCrash
  <2>1. /\ UNCHANGED <<clock, sessions, mgr, draftRows>>
        /\ \A c \in Calls : conn'[c].pc = "idle"
    BY <1>3 DEF BackendCrash, Idle, draftVars
  <2> QED BY <1>0, <2>1, TimesKept
<1>4. CASE TickSettle
  BY <1>0, <1>4, SettleTimes
<1>5. CASE TickLock
  <2> DEFINE rows == {i \in mgr.rows : IsActive(i)}
  <2>1. /\ UNCHANGED <<clock, sessions, conn>>
        /\ mgr'.phase = "settle" /\ mgr'.rows = rows /\ mgr'.stamp = clock
        /\ draftRows' = [i \in Ids |-> IF i \in rows THEN sessions[i] ELSE NoRow]
        /\ rows \subseteq Ids
    BY <1>5 DEF TickLock, Elsewhere, IInv, TypeOK, Pass
  <2>2. MgrRows' = rows
    BY <2>1 DEF MgrRows, InTransaction
  <2>3. \A i \in rows : draftRows'[i] = sessions[i] /\ sessions[i].status = "active"
    BY <2>1 DEF IsActive
  <2> HIDE DEF rows
  <2> QED BY <1>0, <2>1, <2>2, <2>3 DEF TimesHold
<1>6. CASE TickExhausted
  <2>1. /\ UNCHANGED <<clock, sessions, conn, draftRows>>
        /\ mgr'.stamp = mgr.stamp /\ MgrRows' = MgrRows
    BY <1>6 DEF TickExhausted, Elsewhere, draftVars, MgrRows, InTransaction,
                IInv, TypeOK, Pass
  <2> QED BY <2>1 DEF TimesHold
<1>7. CASE \/ TickPoll \/ TickBegin \/ TickCommit \/ TickReview \/ TickSleep
           \/ TickAbort \/ \E m \in Macs : TickCut(m) \/ TickOrphan(m)
  <2>1. /\ UNCHANGED <<clock, conn>> /\ mgr'.phase \notin {"settle", "end"}
        /\ mgr'.stamp \in {mgr.stamp, clock, 0}
    <3>0. mgr \in Pass
      BY DEF IInv, TypeOK
    <3>1. CASE TickPoll \/ TickBegin \/ TickReview
      BY <3>0, <3>1 DEF TickPoll, TickBegin, TickReview, Elsewhere, Pass
    <3>2. CASE TickSleep \/ TickAbort
      BY <3>2 DEF TickSleep, TickAbort, Elsewhere, Asleep
    <3>3. CASE TickCommit
      <4> DEFINE macs == {Seen(i).mac : i \in mgr.cut}
      <4>1. mgr' = [mgr EXCEPT !.phase = "cut", !.rows = {}, !.cut = {},
                               !.begin = 0, !.stamp = 0, !.targets = macs]
        BY <3>3 DEF TickCommit
      <4> HIDE DEF macs
      <4> QED BY <3>0, <3>3, <4>1 DEF TickCommit, Elsewhere, Pass
    <3>4. CASE \E m \in Macs : TickCut(m) \/ TickOrphan(m)
      BY <3>0, <3>4 DEF TickCut, TickOrphan, Elsewhere, Pass
    <3> QED BY <1>7, <3>1, <3>2, <3>3, <3>4
  <2>2. MgrRows' = {}
    BY <2>1 DEF MgrRows, InTransaction
  <2> QED BY <1>0, <2>1, <2>2 DEF TimesHold
<1>8. CASE Advance
  <2>1. /\ UNCHANGED <<sessions, conn, mgr, draftRows>> /\ clock' = clock + 1
        /\ \A c \in Calls : conn[c].pc \in {"locked", "auth"} =>
             clock < conn[c].at + ConnectTime
    BY <1>8 DEF Advance, draftVars
  <2>2. ASSUME NEW c \in Calls, conn[c].pc \in {"locked", "auth"}
        PROVE  clock' <= conn[c].at + ConnectTime
    <3>1. conn[c].at \in Nat /\ ConnectTime \in Nat
      BY <2>2, NumbersAssumption DEF IInv, TypeOK, Call, Idle
    <3>2. clock < conn[c].at + ConnectTime
      BY <2>1, <2>2
    <3> QED BY <1>0, <2>1, <3>1, <3>2
  <2>3. MgrRows' = MgrRows /\ mgr'.stamp <= clock'
    BY <1>0, <2>1 DEF MgrRows, InTransaction, TimesHold
  <2> QED BY <2>1, <2>2, <2>3 DEF TimesHold
<1>9. CASE \/ \E m \in Macs : NdsDrop(m)
           \/ \E u \in Users, g \in Grants : AddTime(u, g)
           \/ UNCHANGED vars
  <2>1. UNCHANGED <<clock, sessions, conn, mgr, draftRows>>
    BY <1>9 DEF NdsDrop, AddTime, vars, draftVars
  <2> QED BY <1>0, <2>1, TimesKept DEF TimesHold
<1> QED BY <1>1, <1>2, <1>3, <1>4, <1>5, <1>6, <1>7, <1>8, <1>9
        DEF Next, TickStep, Environment

\* When the grace covers a connect and a pass's poll, one after the other, no
\* pass closes a session whose device its connect has still to authorize.
THEOREM GraceCoversConnectHolds ==
  ASSUME Grace >= ConnectTime + PollTime
  PROVE  Spec => []GraceCoversConnect
<1>1. Init => TimesHold
  BY DEF Init, TimesHold, Idle, Asleep, MgrRows, InTransaction
<1>2. IInv /\ TimesHold /\ [Next]_vars => TimesHold'
  BY TimesStep
<1>3. IInv /\ TimesHold => GraceCoversConnect
  <2> SUFFICES ASSUME IInv, TimesHold, NEW c \in Calls, conn[c].pc = "auth",
                      IsActive(conn[c].session),
                      conn[c].at = sessions[conn[c].session].started
               PROVE  LET i == conn[c].session IN
                      /\ i \in MgrRows => draftRows[i].status # "ended"
                      /\ mgr.phase \in {"polled", "begun"} =>
                           mgr.stamp + PollTime <= sessions[i].started + Grace
    BY DEF GraceCoversConnect
  <2>1. /\ clock \in Nat /\ mgr.stamp \in Nat /\ conn[c].at \in Nat
        /\ Grace \in Nat /\ ConnectTime \in Nat /\ PollTime \in Nat
    BY NumbersAssumption DEF IInv, TypeOK, Pass, Call, Idle
  <2>2. clock <= conn[c].at + ConnectTime /\ mgr.stamp <= clock
    BY DEF TimesHold
  <2>3. mgr.stamp + PollTime <= conn[c].at + Grace
    BY <2>1, <2>2
  <2>4. conn[c].session \in MgrRows => draftRows[conn[c].session].status # "ended"
    BY <2>1, <2>3 DEF TimesHold
  <2> QED BY <2>3, <2>4
<1> QED BY <1>1, <1>2, <1>3, Invariance, PTL DEF Spec

-----------------------------------------------------------------------------
(***************************************************************************)
(* Requests, kicks and passes implement Accounts: the initial states map   *)
(* to its initial states, and every step maps to one of its steps or to a  *)
(* stutter, under the mapping Owner of Access.tla.                         *)
(***************************************************************************)

\* The draft of a pass never leaves an account more than it has: what the
\* pass commits is a charge, whatever was bought meanwhile.
DraftOnlyCharges ==
  \A i \in MgrRows : LET u == draftRows[i].user
                     IN u \in Users /\ draftBalance[u] <= balance[u]

\* Every step keeps it.
LEMMA DraftOnlyChargesStep ==
  ASSUME IInv, IInv', DraftOnlyCharges, [Next]_vars
  PROVE  DraftOnlyCharges'
<1>1. \A w \in Users : balance[w] \in Nat /\ draftBalance[w] \in Nat
  BY DEF IInv, TypeOK
<1>2. CASE UNCHANGED <<mgr, draftVars>> /\ \A w \in Users : balance'[w] >= balance[w]
  <2>1. MgrRows' = MgrRows /\ draftRows' = draftRows /\ draftBalance' = draftBalance
    BY <1>2 DEF MgrRows, InTransaction, draftVars
  <2>2. \A w \in Users : balance'[w] \in Nat
    BY DEF IInv, TypeOK
  <2> QED BY <1>1, <1>2, <2>1, <2>2 DEF DraftOnlyCharges
<1>3. CASE TickStep
  <2>1. CASE mgr'.phase \notin {"settle", "end"}
    BY <2>1 DEF DraftOnlyCharges, MgrRows, InTransaction
  <2>2. CASE TickLock
    <3> DEFINE rows == {i \in mgr.rows : IsActive(i)}
    <3>1. /\ UNCHANGED balance
          /\ mgr'.phase = "settle" /\ mgr'.rows = rows /\ rows \subseteq Ids
          /\ draftRows' = [i \in Ids |-> IF i \in rows THEN sessions[i] ELSE NoRow]
          /\ draftBalance' = [u \in Users |->
               IF u \in {sessions[i].user : i \in rows} THEN balance[u] ELSE 0]
      BY <2>2 DEF TickLock, IInv, TypeOK, Pass
    <3>2. MgrRows' = rows
      BY <3>1 DEF MgrRows, InTransaction
    <3>3. \A i \in rows : sessions[i].user \in Users
      BY <3>1, ActiveIsRow DEF IInv
    <3> HIDE DEF rows
    <3>4. ASSUME NEW i \in rows
          PROVE  /\ draftRows'[i].user \in Users
                 /\ draftBalance'[draftRows'[i].user] <= balance'[draftRows'[i].user]
      <4>1. draftRows'[i] = sessions[i]
        BY <3>1
      <4>2. draftBalance'[sessions[i].user] = balance[sessions[i].user]
        BY <3>1, <3>3
      <4> QED BY <1>1, <3>1, <3>3, <4>1, <4>2
    <3> QED BY <3>2, <3>4 DEF DraftOnlyCharges
  <2>3. CASE TickSettle
    <3>1. PICK k \in mgr.todo :
            /\ draftRows' = [draftRows EXCEPT ![k] = Settled(draftRows[k])]
            /\ draftBalance' = [draftBalance EXCEPT
                 ![draftRows[k].user] = Monus(@, Charge(draftRows[k]))]
            /\ mgr' = [mgr EXCEPT !.todo = @ \ {k}]
      BY <2>3 DEF TickSettle
    <3>2. /\ UNCHANGED balance /\ InTransaction
          /\ mgr'.phase = mgr.phase /\ mgr'.rows = mgr.rows
      BY <2>3, <3>1 DEF TickSettle, InTransaction, IInv, TypeOK, Pass
    <3>3. MgrRows' = MgrRows /\ k \in MgrRows /\ MgrRows \subseteq Ids
      BY <2>3, <3>2 DEF MgrRows, InTransaction, IInv, DraftMatches, TypeOK, Pass
    <3>4. draftRows[k] \in Row
      BY <3>3 DEF IInv, DraftMatches
    <3>5. /\ Settled(draftRows[k]).user = draftRows[k].user
          /\ Charge(draftRows[k]) \in Nat
      BY <3>4, SettledType DEF IInv, TypeOK
    <3>6. \A i \in MgrRows : draftRows'[i].user = draftRows[i].user
      BY <3>1, <3>3, <3>5 DEF IInv, TypeOK
    <3>7. PICK u \in Users : u = draftRows[k].user
      BY <3>4 DEF Row
    <3>8. draftBalance'[u] <= draftBalance[u] /\ draftBalance'[u] \in Nat
      <4>1. draftBalance'[u] = Monus(draftBalance[u], Charge(draftRows[k]))
        BY <3>1, <3>7 DEF IInv, TypeOK
      <4> QED BY <1>1, <3>5, <4>1, MonusType
    <3>9. \A w \in Users : w # u => draftBalance'[w] = draftBalance[w]
      BY <3>1, <3>7 DEF IInv, TypeOK
    <3>10. \A w \in Users : draftBalance'[w] <= draftBalance[w] /\ draftBalance'[w] \in Nat
      BY <1>1, <3>8, <3>9
    <3> QED BY <1>1, <3>2, <3>3, <3>6, <3>10 DEF DraftOnlyCharges
  <2>4. CASE TickExhausted
    <3>1. /\ UNCHANGED <<balance, draftRows, draftBalance>>
          /\ MgrRows' = MgrRows
      BY <2>4 DEF TickExhausted, MgrRows, InTransaction, draftVars, IInv, TypeOK, Pass
    <3> QED BY <3>1 DEF DraftOnlyCharges
  <2>5. \/ mgr'.phase \notin {"settle", "end"}
        \/ TickLock \/ TickSettle \/ TickExhausted
    <3>1. mgr \in Pass
      BY DEF IInv, TypeOK
    <3>2. CASE TickPoll \/ TickBegin \/ TickCommit \/ TickReview
      BY <3>1, <3>2 DEF TickPoll, TickBegin, TickCommit, TickReview, Pass
    <3>3. CASE TickSleep \/ TickAbort
      BY <3>3 DEF TickSleep, TickAbort, Asleep
    <3>4. CASE \E m \in Macs : TickCut(m) \/ TickOrphan(m)
      BY <3>1, <3>4 DEF TickCut, TickOrphan, Pass
    <3> QED BY <1>3, <3>2, <3>3, <3>4 DEF TickStep
  <2> QED BY <2>1, <2>2, <2>3, <2>4, <2>5
<1>4. CASE \E u \in Users, g \in Grants : AddTime(u, g)
  <2> PICK u \in Users, g \in Grants : AddTime(u, g)
    BY <1>4
  <2>1. g.seconds \in Nat
    BY GrantsAssumption
  <2>2. UNCHANGED <<mgr, draftVars>> /\ \A w \in Users : balance'[w] >= balance[w]
    BY <1>1, <2>1 DEF AddTime, IInv, TypeOK
  <2> QED BY <1>2, <2>2
<1>5. \/ UNCHANGED <<mgr, draftVars, balance>> \/ TickStep
      \/ \E u \in Users, g \in Grants : AddTime(u, g)
  BY DEF Next, ConnectStep, KickStep, Environment, vars, accountVars,
         ConnectStart, ConnectLock, ConnectRefuse, ConnectAbort, ConnectRefresh,
         ConnectOpen, ConnectAuth, ConnectAuthFail, KickDeauth, KickMark,
         KickMiss, BackendCrash, Advance, NdsDrop
<1> QED BY <1>1, <1>2, <1>3, <1>4, <1>5

\* Before anything has happened no pass has a draft.
LEMMA DraftOnlyChargesInit == Init => DraftOnlyCharges
BY DEF Init, Asleep, DraftOnlyCharges, MgrRows, InTransaction

-----------------------------------------------------------------------------
(***************************************************************************)
(* Lemmas about the mapping.                                               *)
(***************************************************************************)

\* A device is online for an account exactly when that account has an active
\* row of it.
LEMMA OwnerIs ==
  ASSUME IInv, NEW m \in Macs
  PROVE  /\ \A i \in ActiveOn(m) : Owner[m] = sessions[i].user
         /\ ActiveOn(m) = {} => Owner[m] = NoUser
         /\ Owner[m] \in Users \cup {NoUser}
         /\ Owner[m] # NoUser => ActiveOn(m) # {}
<1>1. ASSUME NEW i \in ActiveOn(m)
      PROVE  Owner[m] = sessions[i].user /\ sessions[i].user \in Users
  <2>1. i \in Ids /\ sessions[i].user \in Users
    BY ActiveIsRow DEF IInv, ActiveOn
  <2>2. ActiveOn(m) = {i}
    BY <1>1 DEF IInv, MacsDiffer, ActiveOn
  <2>3. (CHOOSE j \in ActiveOn(m) : TRUE) = i
    BY <2>2
  <2> QED BY <2>1, <2>2, <2>3 DEF Owner
<1>2. ActiveOn(m) = {} => Owner[m] = NoUser
  BY DEF Owner
<1> QED BY <1>1, <1>2, NoUserAssumption

\* The same of whole states, to be used of the state after a step.
OwnerFits ==
  \A m \in Macs : \A i \in ActiveOn(m) : Owner[m] = sessions[i].user

\* It follows from the invariant.
LEMMA OwnerFitsHolds == IInv => OwnerFits
BY OwnerIs DEF OwnerFits

\* Owner is a function, before and after a step.
LEMMA OwnerIsFunction ==
  /\ Owner = [m \in Macs |-> Owner[m]]
  /\ Owner' = [m \in Macs |-> Owner'[m]]
BY DEF Owner

\* An account has no more devices online than active rows.
LEMMA DevicesAreFew ==
  ASSUME IInv, NEW u \in Users
  PROVE  /\ Cardinality(Promise!Devices(u)) \in Nat
         /\ Cardinality(Promise!Devices(u)) <= Cardinality(Active(u))
<1> DEFINE D == Promise!Devices(u)
           f == [m \in D |-> CHOOSE i \in ActiveOn(m) : TRUE]
<1>1. ASSUME NEW m \in D
      PROVE  /\ f[m] \in Active(u)
             /\ sessions[f[m]].mac = m
  <2>1. m \in Macs /\ Owner[m] = u
    BY DEF Promise!Devices
  <2>2. ActiveOn(m) # {}
    BY <2>1, OwnerIs, NoUserAssumption
  <2>3. f[m] \in ActiveOn(m)
    BY <2>2
  <2>4. sessions[f[m]].user = u
    BY <2>1, <2>3, OwnerIs
  <2> QED BY <2>3, <2>4 DEF Active, ActiveOn
<1>2. f \in Injection(D, Active(u))
  BY <1>1 DEF Injection, IsInjective
<1> HIDE DEF D, f
<1>3. IsFiniteSet(D) /\ Cardinality(D) <= Cardinality(Active(u))
  BY <1>2, ActiveFinite, FS_Injection
<1> QED BY <1>3, FS_CardinalityType DEF D

-----------------------------------------------------------------------------
(***************************************************************************)
(* The steps that do not stutter.                                          *)
(***************************************************************************)

\* Opening a session is Open.
LEMMA OpenImplements ==
  ASSUME IInv, IInv', NEW c \in Calls, ConnectOpen(c)
  PROVE  \E u \in Users, m \in Macs : Promise!Open(u, m)
<1>1. /\ conn[c].pc = "locked" /\ conn[c] \in Call /\ conn[c].session = 0
      /\ UNCHANGED <<balance, limit>>
  BY DEF ConnectOpen, accountVars, IInv, TypeOK, Call, Idle
<1>2. PICK u \in Users, m \in Macs : conn[c].user = u /\ conn[c].mac = m
  BY <1>1 DEF Call
<1>3. /\ balance[u] > 0
      /\ Cardinality(Active(u)) < limit[u]
      /\ \A i \in Active(u) : sessions[i].mac # m
  BY <1>1, <1>2 DEF IInv, ConnectChecksHold
<1>4. Owner[m] # u
  <2>1. ASSUME Owner[m] = u
        PROVE  FALSE
    <3>1. PICK i \in ActiveOn(m) : TRUE
      BY <2>1, OwnerIs, NoUserAssumption
    <3>2. sessions[i].user = u
      BY <2>1, <3>1, OwnerIs
    <3> QED BY <1>3, <3>1, <3>2 DEF Active, ActiveOn
  <2> QED BY <2>1
<1>5. Cardinality(Promise!Devices(u)) < limit[u]
  <2>1. limit[u] \in Nat /\ Cardinality(Active(u)) \in Nat
    BY ActiveFinite DEF IInv, TypeOK
  <2> QED BY <1>3, <2>1, DevicesAreFew
<1>6. PICK id \in FreeIds :
        sessions' = [i \in Ids |->
          IF i = id THEN NewRow(u, m, conn[c].at)
          ELSE IF i \in ActiveOn(m)
                 THEN Closed(sessions[i], "ended", 0)
                 ELSE sessions[i]]
  BY <1>2 DEF ConnectOpen, Displaced
<1>7. Owner'[m] = u
  <2>1. id \in ActiveOn(m)' /\ sessions'[id].user = u
    BY <1>6 DEF FreeIds, ActiveOn, IsActive, NewRow
  <2>2. OwnerFits'
    BY OwnerFitsHolds, PTL
  <2> QED BY <2>1, <2>2 DEF OwnerFits
<1>8. ASSUME NEW w \in Macs, w # m
      PROVE  Owner'[w] = Owner[w]
  <2>1. \A i \in Ids : i \in ActiveOn(w)' <=> i \in ActiveOn(w)
    <3> SUFFICES ASSUME NEW i \in Ids
                 PROVE  i \in ActiveOn(w)' <=> i \in ActiveOn(w)
      OBVIOUS
    <3>1. CASE i = id
      BY <1>6, <1>8, <3>1 DEF FreeIds, ActiveOn, IsActive, NewRow, NoRow
    <3>2. CASE i # id /\ i \in ActiveOn(m)
      <4>1. sessions[i] \in Row
        BY <3>2, ActiveIsRow DEF IInv, ActiveOn
      <4>2. sessions'[i] = Closed(sessions[i], "ended", 0)
        BY <1>6, <3>2
      <4>3. sessions'[i].status = "ended"
        BY <4>1, <4>2, ClosedType
      <4> QED BY <1>8, <3>2, <4>3 DEF ActiveOn, IsActive
    <3>3. CASE i # id /\ i \notin ActiveOn(m)
      BY <1>6, <3>3 DEF ActiveOn, IsActive
    <3> QED BY <3>1, <3>2, <3>3
  <2>2. ActiveOn(w)' = ActiveOn(w)
    BY <2>1 DEF ActiveOn
  <2>3. \A i \in ActiveOn(w) : sessions'[i].user = sessions[i].user
    BY <1>6, <1>8 DEF ActiveOn, FreeIds, NoRow, IsActive
  <2> QED BY <2>2, <2>3 DEF Owner
<1>9. Owner' = [Owner EXCEPT ![m] = u]
  BY <1>7, <1>8, OwnerIsFunction
<1>10. Promise!Cardinality(Promise!Devices(u)) = Cardinality(Promise!Devices(u))
  BY DEF Promise!Cardinality, Cardinality
<1> QED BY <1>1, <1>3, <1>4, <1>5, <1>9, <1>10 DEF Promise!Open

\* No session is opened: a device stays online for its account, or for none.
LEMMA OwnersOnlyLeave ==
  ASSUME IInv,
         \A i \in Ids : sessions'[i].status = "active" =>
           /\ IsActive(i)
           /\ sessions'[i].user = sessions[i].user
           /\ sessions'[i].mac = sessions[i].mac,
         NEW m \in Macs
  PROVE  /\ ActiveOn(m)' \subseteq ActiveOn(m)
         /\ Owner'[m] = IF ActiveOn(m)' = {} THEN NoUser ELSE Owner[m]
<1>1. ActiveOn(m)' \subseteq ActiveOn(m)
  BY DEF ActiveOn, IsActive
<1>2. CASE ActiveOn(m)' = {}
  BY <1>1, <1>2 DEF Owner
<1>3. CASE ActiveOn(m)' # {}
  <2>1. PICK i \in ActiveOn(m) : ActiveOn(m) = {i}
    BY <1>1, <1>3 DEF IInv, MacsDiffer, ActiveOn
  <2>2. ActiveOn(m)' = {i}
    BY <1>1, <1>3, <2>1
  <2>3. sessions'[i].user = sessions[i].user
    BY <2>2 DEF ActiveOn, IsActive
  <2>4. (CHOOSE j \in {i} : TRUE) = i
    OBVIOUS
  <2> QED BY <1>3, <2>1, <2>2, <2>3, <2>4 DEF Owner
<1> QED BY <1>1, <1>2, <1>3

\* Refreshing a session changes nothing the portal promises about.
LEMMA RefreshImplements ==
  ASSUME IInv, IInv', NEW c \in Calls, ConnectRefresh(c)
  PROVE  UNCHANGED Promise!vars
<1>1. conn[c].session \in Ids /\ sessions[conn[c].session] \in Row
  <2>1. conn[c].session \in Active(conn[c].user)
    BY DEF IInv, ConnectChecksHold, ConnectRefresh
  <2> QED BY <2>1, ActiveIsRow DEF IInv, Active
<1>2. ASSUME NEW i \in Ids
      PROVE  /\ sessions'[i].status = sessions[i].status
             /\ sessions'[i].user = sessions[i].user
             /\ sessions'[i].mac = sessions[i].mac
  <2>1. CASE i # conn[c].session
    BY <2>1 DEF ConnectRefresh, IInv, TypeOK
  <2>2. CASE i = conn[c].session
    <3>1. sessions'[i] = [sessions[i] EXCEPT !.lastTick = conn[c].at]
      BY <2>2 DEF ConnectRefresh, IInv, TypeOK
    <3> QED BY <1>1, <2>2, <3>1 DEF Row
  <2> QED BY <2>1, <2>2
<1>3. ASSUME NEW m \in Macs
      PROVE  Owner'[m] = Owner[m]
  <2>1. ActiveOn(m)' = ActiveOn(m)
    BY <1>2 DEF ActiveOn, IsActive
  <2>2. Owner'[m] = IF ActiveOn(m)' = {} THEN NoUser ELSE Owner[m]
    BY <1>2, OwnersOnlyLeave DEF IsActive
  <2> QED BY <2>1, <2>2, OwnerIs
<1>4. Owner' = Owner
  BY <1>3, OwnerIsFunction
<1> QED BY <1>4 DEF Promise!vars, ConnectRefresh, accountVars

\* A kick that marks a session is Close.
LEMMA MarkImplements ==
  ASSUME IInv, IInv', NEW m \in Macs, KickMark(m)
  PROVE  Promise!Close(m) \/ UNCHANGED Promise!vars
<1>1. UNCHANGED <<balance, limit>>
  BY DEF KickMark, accountVars
<1>2. ASSUME NEW i \in Ids
      PROVE  /\ i \in ActiveOn(m) => sessions'[i].status = "kicked"
             /\ i \notin ActiveOn(m) => sessions'[i] = sessions[i]
  <2>1. CASE i \in ActiveOn(m)
    <3>1. sessions[i] \in Row /\ clock \in Nat
      BY <2>1, ActiveIsRow DEF IInv, ActiveOn, TypeOK
    <3>2. sessions'[i] = Closed(sessions[i], "kicked", clock)
      BY <2>1 DEF KickMark
    <3> QED BY <2>1, <3>1, <3>2, ClosedType
  <2>2. CASE i \notin ActiveOn(m)
    BY <2>2 DEF KickMark
  <2> QED BY <2>1, <2>2
<1>3. \A w \in Macs : Owner'[w] = IF ActiveOn(w)' = {} THEN NoUser ELSE Owner[w]
  <2> SUFFICES ASSUME NEW w \in Macs
               PROVE  Owner'[w] = IF ActiveOn(w)' = {} THEN NoUser ELSE Owner[w]
    OBVIOUS
  <2>1. \A i \in Ids : sessions'[i].status = "active" =>
          /\ IsActive(i)
          /\ sessions'[i].user = sessions[i].user
          /\ sessions'[i].mac = sessions[i].mac
    BY <1>2 DEF IsActive
  <2> QED BY <2>1, OwnersOnlyLeave
<1>4. ActiveOn(m)' = {}
  BY <1>2 DEF ActiveOn, IsActive
<1>5. ASSUME NEW w \in Macs, w # m
      PROVE  ActiveOn(w)' = ActiveOn(w)
  BY <1>2, <1>5 DEF ActiveOn, IsActive
<1>6. ASSUME NEW w \in Macs, w # m
      PROVE  Owner'[w] = Owner[w]
  BY <1>3, <1>5, <1>6, OwnerIs
<1>7. Owner'[m] = NoUser
  BY <1>3, <1>4
<1>8. CASE Owner[m] = NoUser
  <2>1. Owner' = Owner
    BY <1>6, <1>7, <1>8, OwnerIsFunction
  <2> QED BY <1>1, <2>1 DEF Promise!vars
<1>9. CASE Owner[m] # NoUser
  <2>1. Owner' = [Owner EXCEPT ![m] = NoUser]
    BY <1>6, <1>7, OwnerIsFunction
  <2> QED BY <1>1, <1>9, <2>1 DEF Promise!Close
<1> QED BY <1>8, <1>9

\* A pass commits: Settle.
LEMMA CommitImplements ==
  ASSUME IInv, IInv', DraftOnlyCharges, TickCommit
  PROVE  Promise!Settle
<1>1. /\ UNCHANGED limit /\ mgr.phase = "end" /\ InTransaction
      /\ MgrRows = mgr.rows /\ mgr.cut \subseteq Ids /\ mgr.rows \subseteq Ids
      /\ balance' = [u \in Users |-> SeenBalance(u)]
      /\ \A i \in Ids : sessions'[i] =
           IF i \in mgr.cut THEN Closed(Seen(i), "ended", 0) ELSE Seen(i)
  BY DEF TickCommit, Elsewhere, InTransaction, MgrRows, IInv, TypeOK, Pass
<1>2. ASSUME NEW i \in Ids, sessions'[i].status = "active"
      PROVE  /\ IsActive(i)
             /\ sessions'[i].user = sessions[i].user
             /\ sessions'[i].mac = sessions[i].mac
  <2>1. i \notin mgr.cut
    <3>1. ASSUME i \in mgr.cut
          PROVE  FALSE
      <4>1. Seen(i) \in Row
        BY <1>1, <3>1, SeenType
      <4>2. sessions'[i] = Closed(Seen(i), "ended", 0)
        BY <1>1, <3>1
      <4> QED BY <1>2, <4>1, <4>2, ClosedType
    <3> QED BY <3>1
  <2>2. sessions'[i] = Seen(i)
    BY <1>1, <2>1
  <2>3. CASE i \in mgr.rows
    BY <1>1, <2>2, <2>3 DEF IInv, DraftMatches, Seen
  <2>4. CASE i \notin mgr.rows
    BY <1>2, <2>2, <2>4 DEF Seen, IsActive
  <2> QED BY <2>3, <2>4
<1>3. \A m \in Macs : Owner'[m] \in {Owner[m], NoUser}
  BY <1>2, OwnersOnlyLeave
<1>4. ASSUME NEW u \in Users
      PROVE  /\ balance'[u] <= balance[u]
             /\ balance'[u] # balance[u] => Promise!Devices(u) # {}
  <2>1. balance[u] \in Nat /\ balance'[u] = SeenBalance(u)
    BY <1>1 DEF IInv, TypeOK
  <2>2. CASE u \notin MgrUsers
    BY <2>1, <2>2 DEF SeenBalance
  <2>3. CASE u \in MgrUsers
    <3>1. PICK i \in MgrRows : sessions[i].user = u
      BY <2>3 DEF MgrUsers
    <3>2. i \in Ids /\ IsActive(i) /\ draftRows[i].user = u
      BY <1>1, <3>1 DEF IInv, DraftMatches
    <3>3. draftBalance[u] <= balance[u]
      BY <3>1, <3>2 DEF DraftOnlyCharges
    <3>4. sessions[i].mac \in Macs /\ i \in ActiveOn(sessions[i].mac)
      BY <3>2, ActiveIsRow DEF IInv, ActiveOn
    <3>5. Owner[sessions[i].mac] = u
      BY <3>1, <3>4, OwnerIs
    <3>6. sessions[i].mac \in Promise!Devices(u)
      BY <3>4, <3>5 DEF Promise!Devices
    <3> QED BY <2>1, <2>3, <3>3, <3>6 DEF SeenBalance
  <2> QED BY <2>2, <2>3
<1>5. ASSUME NEW u \in Users, balance'[u] = 0, NEW m \in Macs, Owner'[m] = u
      PROVE  FALSE
  <2>1. Owner'[m] = IF ActiveOn(m)' = {} THEN NoUser ELSE Owner[m]
    BY <1>2, OwnersOnlyLeave
  <2>2. PICK i \in ActiveOn(m)' : TRUE
    BY <1>5, <2>1, NoUserAssumption
  <2>3. OwnerFits'
    BY OwnerFitsHolds, PTL
  <2>4. sessions'[i].user = u
    BY <1>5, <2>2, <2>3 DEF OwnerFits
  <2>5. i \in Active(u)'
    BY <2>2, <2>4 DEF Active, ActiveOn
  <2> QED BY <1>5, <2>5 DEF IInv, ZeroBalanceHasNoSession
<1>6. DOMAIN balance' = Users /\ DOMAIN Owner' = Macs
  BY <1>1 DEF Owner
<1> QED BY <1>1, <1>3, <1>4, <1>5, <1>6 DEF Promise!Settle

\* Time bought is Credit.
LEMMA AddTimeImplements ==
  ASSUME IInv, NEW u \in Users, NEW g \in Grants, AddTime(u, g)
  PROVE  Promise!Credit(u)
<1>1. g.seconds \in Nat \ {0} /\ g.devices \in Nat
  BY GrantsAssumption
<1>2. balance[u] \in Nat /\ limit[u] \in Nat
  BY DEF IInv, TypeOK
<1>3. Larger(limit[u], g.devices) \in Nat /\ Larger(limit[u], g.devices) >= limit[u]
  BY <1>1, <1>2, LargerType
<1>4. /\ balance' = [balance EXCEPT ![u] = balance[u] + g.seconds]
      /\ limit' = [limit EXCEPT ![u] = Larger(limit[u], g.devices)]
      /\ UNCHANGED sessions
  BY DEF AddTime
<1>5. Owner' = Owner
  BY <1>4 DEF Owner, ActiveOn, IsActive
<1>6. /\ balance'[u] = balance[u] + g.seconds
      /\ limit'[u] = Larger(limit[u], g.devices)
  BY <1>4 DEF IInv, TypeOK
<1>7. balance'[u] > balance[u] /\ limit'[u] >= limit[u]
  BY <1>1, <1>2, <1>3, <1>6
<1>8. /\ balance' = [balance EXCEPT ![u] = balance'[u]]
      /\ limit' = [limit EXCEPT ![u] = limit'[u]]
  BY <1>4, <1>6
<1> QED BY <1>5, <1>7, <1>8 DEF Promise!Credit

-----------------------------------------------------------------------------
\* Every other step leaves balances, limits and owners alone.
LEMMA StepImplements ==
  ASSUME IInv, IInv', DraftOnlyCharges, [Next]_vars
  PROVE  [Promise!Next]_Promise!vars
<1>1. CASE UNCHANGED <<balance, limit, sessions>>
  <2>1. Owner' = Owner
    BY <1>1 DEF Owner, ActiveOn, IsActive
  <2> QED BY <1>1, <2>1 DEF Promise!vars
<1>2. ASSUME NEW c \in Calls, ConnectRefresh(c) \/ ConnectOpen(c)
      PROVE  [Promise!Next]_Promise!vars
  BY <1>2, RefreshImplements, OpenImplements DEF Promise!Next
<1>3. ASSUME NEW m \in Macs, KickMark(m)
      PROVE  [Promise!Next]_Promise!vars
  BY <1>3, MarkImplements DEF Promise!Next
<1>4. CASE TickCommit
  BY <1>4, CommitImplements DEF Promise!Next
<1>5. ASSUME NEW u \in Users, NEW g \in Grants, AddTime(u, g)
      PROVE  [Promise!Next]_Promise!vars
  BY <1>5, AddTimeImplements DEF Promise!Next
<1>6. \/ UNCHANGED <<balance, limit, sessions>> \/ TickCommit
      \/ \E c \in Calls : ConnectRefresh(c) \/ ConnectOpen(c)
      \/ \E m \in Macs : KickMark(m)
      \/ \E u \in Users, g \in Grants : AddTime(u, g)
  BY DEF Next, ConnectStep, KickStep, TickStep, Environment, vars, accountVars,
         Elsewhere, ConnectStart, ConnectLock, ConnectRefuse, ConnectAbort,
         ConnectAuth, ConnectAuthFail, KickDeauth, KickMiss, BackendCrash,
         TickPoll, TickBegin, TickLock, TickSettle, TickExhausted,
         TickReview, TickSleep, TickAbort, TickCut, TickOrphan, Advance,
         NdsDrop
<1> QED BY <1>1, <1>2, <1>3, <1>4, <1>5, <1>6

\* The initial states map to the initial state of Accounts.
LEMMA InitImplements == Init => Promise!Init
<1> SUFFICES ASSUME Init
             PROVE  Promise!Init
  OBVIOUS
<1>1. \A m \in Macs : ActiveOn(m) = {}
  BY DEF Init, ActiveOn, IsActive, NoRow
<1>2. Owner = [m \in Macs |-> NoUser]
  BY <1>1 DEF Owner
<1> QED BY <1>2 DEF Init, Promise!Init

\* Requests, kicks and passes, in every interleaving and for any number of
\* them, keep the promise of Accounts.
THEOREM PromiseKept == Spec => KeepsPromise
<1>1. IInv /\ DraftOnlyCharges /\ [Next]_vars => IInv' /\ DraftOnlyCharges'
  BY InductiveStep, DraftOnlyChargesStep
<1>2. IInv /\ IInv' /\ DraftOnlyCharges /\ [Next]_vars => [Promise!Next]_Promise!vars
  BY StepImplements
<1> QED BY <1>1, <1>2, InitStep, DraftOnlyChargesInit, InitImplements, PTL
        DEF Spec, KeepsPromise, Promise!Spec

-----------------------------------------------------------------------------
(***************************************************************************)
(* Accounts, and so the detailed system, does to each account only what    *)
(* the page of Portal.tla expects of its backend.                          *)
(***************************************************************************)

\* What the page can tell apart of an account is what Accounts says of it.
PageSeesOwner ==
  \A u \in Users : /\ u \in Online <=> \E m \in Macs : Owner[m] = u
                   /\ u \in Online => u \in InTime

LEMMA PageSeesOwnerHolds == IInv => PageSeesOwner
<1> SUFFICES ASSUME IInv, NEW u \in Users
             PROVE  /\ u \in Online <=> \E m \in Macs : Owner[m] = u
                    /\ u \in Online => u \in InTime
  BY DEF PageSeesOwner
<1>1. ASSUME u \in Online
      PROVE  \E m \in Macs : Owner[m] = u
  <2>1. PICK i \in Ids : IsActive(i) /\ sessions[i].user = u
    BY <1>1 DEF Online, Active
  <2>2. sessions[i].mac \in Macs /\ i \in ActiveOn(sessions[i].mac)
    BY <2>1, ActiveIsRow DEF IInv, ActiveOn
  <2> QED BY <2>1, <2>2, OwnerIs
<1>2. ASSUME NEW m \in Macs, Owner[m] = u
      PROVE  u \in Online
  <2>1. PICK i \in ActiveOn(m) : sessions[i].user = u
    BY <1>2, OwnerIs, NoUserAssumption
  <2> QED BY <2>1 DEF ActiveOn, Active, Online
<1>3. ASSUME u \in Online
      PROVE  u \in InTime
  BY <1>3 DEF Online, InTime, IInv, ZeroBalanceHasNoSession, TypeOK
<1> QED BY <1>1, <1>2, <1>3

\* No time is bought in the step in which a device comes online.
LEMMA PromiseFeedsPage ==
  ASSUME PageSeesOwner, PageSeesOwner', [Promise!Next]_Promise!vars,
         balance \in [Users -> Nat], balance' \in [Users -> Nat], NEW u \in Users
  PROVE  Page(u)!Server \/ UNCHANGED Page(u)!serverVars
<1>1. /\ u \in Online => u \in InTime
      /\ u \in Online' => u \in InTime'
      /\ Owner' = Owner => (u \in Online <=> u \in Online')
  BY DEF PageSeesOwner
<1>2. ASSUME u \notin InTime, u \in InTime'
      PROVE  Owner' = Owner
  <2>1. balance'[u] > balance[u]
    BY <1>2 DEF InTime
  <2>2. CASE Promise!Settle
    BY <2>1, <2>2 DEF Promise!Settle
  <2>3. ASSUME NEW w \in Users, Promise!Credit(w)
        PROVE  Owner' = Owner
    BY <2>3 DEF Promise!Credit
  <2>4. CASE UNCHANGED balance
    BY <2>1, <2>4
  <2> QED BY <2>2, <2>3, <2>4
          DEF Promise!Next, Promise!vars, Promise!Open, Promise!Close
<1>3. \/ u \notin InTime /\ u \in InTime' /\ (u \in Online <=> u \in Online')
      \/ u \in InTime /\ u \notin InTime' /\ u \notin Online'
      \/ u \in InTime /\ u \in InTime' /\ u \in Online'
      \/ (u \in InTime <=> u \in InTime') /\ u \notin Online'
  BY <1>1, <1>2
<1>4. CASE u \notin InTime /\ u \in InTime' /\ (u \in Online <=> u \in Online')
  BY <1>4 DEF Page!Server, Page!Credit, Page!pageVars
<1>5. CASE u \in InTime /\ u \notin InTime' /\ u \notin Online'
  BY <1>5 DEF Page!Server, Page!Exhaust, Page!pageVars
<1>6. CASE u \in InTime /\ u \in InTime' /\ u \in Online'
  BY <1>6 DEF Page!Server, Page!Join, Page!pageVars
<1>7. CASE (u \in InTime <=> u \in InTime') /\ u \notin Online'
  BY <1>7 DEF Page!Server, Page!Leave, Page!pageVars
<1> QED BY <1>3, <1>4, <1>5, <1>6, <1>7

\* What the page is modelled over is what the backend and the manager do.
THEOREM FeedsPageHolds == Spec => FeedsPage
<1>1. IInv /\ DraftOnlyCharges /\ [Next]_vars => IInv' /\ DraftOnlyCharges'
  BY InductiveStep, DraftOnlyChargesStep
<1>2. ASSUME IInv, IInv', DraftOnlyCharges, [Next]_vars
      PROVE  \A u \in Users : Page(u)!Server \/ UNCHANGED Page(u)!serverVars
  <2>1. PageSeesOwner /\ PageSeesOwner'
    BY <1>2, PageSeesOwnerHolds, PTL
  <2>2. balance \in [Users -> Nat] /\ balance' \in [Users -> Nat]
    BY <1>2 DEF IInv, TypeOK
  <2> QED BY <1>2, <2>1, <2>2, StepImplements, PromiseFeedsPage
<1>3. IInv /\ IInv' /\ DraftOnlyCharges /\ [Next]_vars
          => [\A u \in Users : Page(u)!Server \/ UNCHANGED Page(u)!serverVars]_vars
  BY <1>2
<1> QED BY <1>1, <1>3, InitStep, DraftOnlyChargesInit, PTL DEF Spec, FeedsPage

-----------------------------------------------------------------------------
(***************************************************************************)
(* No second is lost.                                                      *)
(***************************************************************************)

\* The tables the seconds are counted in.
Rows == [Ids -> Row \cup {NoRow}]

\* A second of an account is one of a row of the account.
LEMMA SecondIs ==
  ASSUME NEW rows, NEW u, NEW e
  PROVE  e \in Seconds(rows, u) <=>
           \E i \in Ids : /\ rows[i] # NoRow /\ rows[i].user = u
                          /\ e \in {i} \X (1..rows[i].used)
BY DEF Seconds

\* The seconds of an account are finitely many.
LEMMA SecondsFinite ==
  ASSUME NEW rows \in Rows, NEW u
  PROVE  /\ IsFiniteSet(Seconds(rows, u))
         /\ Cardinality(Seconds(rows, u)) \in Nat
<1> DEFINE J == {j \in Ids : rows[j] # NoRow /\ rows[j].user = u}
           S == {{i} \X (1..rows[i].used) : i \in J}
           f == [i \in J |-> {i} \X (1..rows[i].used)]
<1>1. IsFiniteSet(J)
  <2>1. IsFiniteSet(Ids)
    BY NumbersAssumption, FS_Interval DEF Ids
  <2>2. J \subseteq Ids
    OBVIOUS
  <2> QED BY <2>1, <2>2, FS_Subset
<1>2. f \in Surjection(J, S)
  BY DEF Surjection
<1>3. ASSUME NEW T \in S
      PROVE  IsFiniteSet(T)
  <2>1. PICK i \in J : T = {i} \X (1..rows[i].used)
    OBVIOUS
  <2>2. rows[i].used \in Nat
    BY DEF Rows, Row
  <2>3. PICK n \in Nat : n = rows[i].used
    BY <2>2
  <2>4. IsFiniteSet(1..n)
    <3>1. 1 \in Int /\ n \in Int
      OBVIOUS
    <3> QED BY ONLY <3>1, FS_Interval
  <2>5. IsFiniteSet({i})
    BY FS_Singleton
  <2> QED BY <2>1, <2>3, <2>4, <2>5, FS_Product
<1>4. Seconds(rows, u) = UNION S
  BY DEF Seconds
<1> HIDE DEF J, S, f
<1>5. IsFiniteSet(S)
  BY <1>1, <1>2, FS_Surjection
<1>6. IsFiniteSet(UNION S)
  BY <1>3, <1>5, FS_UNION
<1> QED BY <1>4, <1>6, FS_CardinalityType

\* Rows that keep their account and do not shrink lose no second.
LEMMA SecondsGrow ==
  ASSUME NEW rows \in Rows, NEW later \in Rows, NEW u,
         \A i \in Ids : rows[i] # NoRow =>
           /\ later[i] # NoRow /\ later[i].user = rows[i].user
           /\ later[i].used >= rows[i].used
  PROVE  Cardinality(Seconds(rows, u)) <= Cardinality(Seconds(later, u))
<1>1. ASSUME NEW e \in Seconds(rows, u)
      PROVE  e \in Seconds(later, u)
  <2>1. PICK i \in Ids : /\ rows[i] # NoRow /\ rows[i].user = u
                         /\ e \in {i} \X (1..rows[i].used)
    BY SecondIs
  <2>2. /\ later[i] # NoRow /\ later[i].user = u
        /\ later[i].used >= rows[i].used
        /\ later[i].used \in Nat /\ rows[i].used \in Nat
    BY <2>1 DEF Rows, Row
  <2>3. 1..rows[i].used \subseteq 1..later[i].used
    BY <2>2
  <2>4. e \in {i} \X (1..later[i].used)
    BY <2>1, <2>3
  <2> QED BY <2>2, <2>4, SecondIs
<1>2. Seconds(rows, u) \subseteq Seconds(later, u)
  BY <1>1
<1> QED BY <1>2, SecondsFinite, FS_Subset

\* Charging one row records as many seconds more.
LEMMA SecondsCharged ==
  ASSUME NEW rows \in Rows, NEW later \in Rows, NEW k \in Ids, NEW n \in Nat,
         rows[k] # NoRow, later[k] # NoRow, later[k].user = rows[k].user,
         later[k].used = rows[k].used + n,
         \A i \in Ids : i # k => later[i] = rows[i]
  PROVE  Cardinality(Seconds(later, rows[k].user)) =
           Cardinality(Seconds(rows, rows[k].user)) + n
<1> DEFINE u == rows[k].user
           a == rows[k].used
           Old == Seconds(rows, u)
           New == {k} \X (a + 1..a + n)
<1>1. a \in Nat /\ later[k].used = a + n
  BY DEF Rows, Row
<1>2. ASSUME NEW e
      PROVE  e \in Seconds(later, u) <=> e \in Old \cup New
  <2>1. 1..a + n = (1..a) \cup (a + 1..a + n)
    BY <1>1
  <2>2. e \in {k} \X (1..a + n) <=> e \in {k} \X (1..a) \/ e \in New
    BY <2>1
  <2>3. e \in Seconds(later, u) <=>
          \/ e \in {k} \X (1..a + n)
          \/ \E i \in Ids \ {k} : /\ rows[i] # NoRow /\ rows[i].user = u
                                  /\ e \in {i} \X (1..rows[i].used)
    BY <1>1, SecondIs
  <2>4. e \in Old <=>
          \/ e \in {k} \X (1..a)
          \/ \E i \in Ids \ {k} : /\ rows[i] # NoRow /\ rows[i].user = u
                                  /\ e \in {i} \X (1..rows[i].used)
    BY SecondIs
  <2> QED BY <2>2, <2>3, <2>4
<1>3. Seconds(later, u) = Old \cup New
  BY <1>2
<1>4. Old \cap New = {}
  <2> SUFFICES ASSUME NEW e \in Old, e \in New
               PROVE  FALSE
    OBVIOUS
  <2>1. PICK i \in Ids : e \in {i} \X (1..rows[i].used)
    BY SecondIs
  <2>2. e[1] = i /\ e[2] \in 1..rows[i].used /\ e[1] = k /\ e[2] \in a + 1..a + n
    BY <2>1
  <2> QED BY <1>1, <2>2
<1>5. IsFiniteSet(New) /\ Cardinality(New) = n
  <2>1. PICK from \in Int, to \in Int : from = a + 1 /\ to = a + n
    BY <1>1
  <2>2. IsFiniteSet(from..to) /\ Cardinality(from..to) = n
    <3>1. /\ IsFiniteSet(from..to)
          /\ Cardinality(from..to) = IF from > to THEN 0 ELSE to - from + 1
      BY <2>1, FS_Interval
    <3>2. (IF from > to THEN 0 ELSE to - from + 1) = n
      BY <1>1, <2>1
    <3> QED BY ONLY <3>1, <3>2
  <2>3. IsFiniteSet({k}) /\ Cardinality({k}) = 1
    BY FS_Singleton
  <2>4. /\ IsFiniteSet({k} \X (from..to))
        /\ Cardinality({k} \X (from..to)) = 1 * n
    BY <2>2, <2>3, FS_Product
  <2> QED BY <2>1, <2>4
<1>6. IsFiniteSet(Old) /\ Cardinality(Old) \in Nat
  BY SecondsFinite
<1> HIDE DEF Old, New, u, a
<1>7. Cardinality(Old \cup New) = Cardinality(Old) + n
  <2>1. Cardinality(Old \cup New) =
          Cardinality(Old) + Cardinality(New) - Cardinality(Old \cap New)
    BY <1>5, <1>6, FS_Union
  <2>2. Cardinality(Old \cap New) = 0
    BY <1>4, FS_EmptySet
  <2> QED BY <1>5, <1>6, <2>1, <2>2
<1> QED BY <1>3, <1>7 DEF u, Old

\* What a round of the loop takes from the balance it records as consumed.
LEMMA SettledCharges ==
  ASSUME NEW row \in Row, mgr \in Pass
  PROVE  /\ Charge(row) \in Nat
         /\ Settled(row).used = row.used + Charge(row)
<1>1. Elapsed(row) \in Nat /\ row.used \in Nat
  BY MonusType DEF Elapsed, Row, Pass
<1>2. CASE row.mac \notin mgr.online
  <2>1. Charge(row) = 0
    BY <1>2 DEF Charge
  <2>2. Settled(row) \in {Closed(row, "ended", 0), row}
    BY <1>2 DEF Settled
  <2>3. Closed(row, "ended", 0).used = row.used
    BY ClosedType
  <2> QED BY <1>1, <2>1, <2>2, <2>3
<1>3. CASE row.mac \in mgr.online
  <2>1. Charge(row) = Elapsed(row)
    BY <1>3 DEF Charge
  <2>2. CASE Elapsed(row) > 0
    BY <1>1, <1>3, <2>1, <2>2 DEF Settled, Row
  <2>3. CASE ~(Elapsed(row) > 0)
    BY <1>1, <1>3, <2>1, <2>3 DEF Settled
  <2> QED BY <2>1, <2>2, <2>3, <1>1
<1> QED BY <1>2, <1>3

\* Both tables a second may be recorded in.
LEMMA SeenIsRows ==
  ASSUME IInv
  PROVE  /\ sessions \in Rows
         /\ SeenSessions \in Rows
         /\ \A u \in Users : /\ balance[u] \in Nat /\ credited[u] \in Nat
                            /\ SeenBalance(u) \in Nat
<1>1. \A i \in Ids : Seen(i) \in Row \cup {NoRow}
  BY DEF IInv, TypeOK, Seen
<1>2. \A u \in Users : SeenBalance(u) \in Nat
  BY SeenType
<1> QED BY <1>1, <1>2 DEF IInv, TypeOK, Rows, SeenSessions

\* The same of the state after a step.
TablesAreRows ==
  /\ sessions \in Rows
  /\ SeenSessions \in Rows
  /\ \A u \in Users : /\ balance[u] \in Nat /\ credited[u] \in Nat
                     /\ SeenBalance(u) \in Nat

\* It follows from the invariant.
LEMMA TablesAreRowsHolds == IInv => TablesAreRows
BY SeenIsRows DEF TablesAreRows

NothingLost == NoSecondIsLost /\ DraftLosesNoSecond

\* Steps that open, refresh or close sessions outside the pass.
LEMMA SessionsGrow ==
  ASSUME IInv, IInv', NothingLost,
         UNCHANGED <<balance, credited, mgr, draftRows, draftBalance>>,
         \A i \in Ids : sessions[i] # NoRow =>
           /\ sessions'[i] # NoRow /\ sessions'[i].user = sessions[i].user
           /\ sessions'[i].used = sessions[i].used
  PROVE  NothingLost'
<1>0. TablesAreRows /\ TablesAreRows'
  BY TablesAreRowsHolds, PTL
<1>1. ASSUME NEW i \in Ids, sessions[i] # NoRow
      PROVE  sessions'[i].used >= sessions[i].used
  BY <1>0, <1>1 DEF TablesAreRows, Rows, Row
<1>2. ASSUME NEW u \in Users
      PROVE  Cardinality(Seconds(sessions, u)) <= Cardinality(Seconds(sessions', u))
  BY <1>0, <1>1, SecondsGrow DEF TablesAreRows
<1>3. MgrRows' = MgrRows /\ MgrRows \subseteq Ids
  BY DEF MgrRows, InTransaction, IInv, TypeOK, Pass
<1>4. \A i \in MgrRows : sessions[i] # NoRow /\ sessions'[i].user = sessions[i].user
  BY <1>3 DEF IInv, DraftMatches, IsActive, NoRow
<1>5. MgrUsers' = MgrUsers
  BY <1>3, <1>4 DEF MgrUsers
<1>6. \A u \in Users : SeenBalance(u)' = SeenBalance(u)
  BY <1>5 DEF SeenBalance
<1>7. ASSUME NEW i \in Ids, SeenSessions[i] # NoRow
      PROVE  /\ SeenSessions'[i] # NoRow
             /\ SeenSessions'[i].user = SeenSessions[i].user
             /\ SeenSessions'[i].used >= SeenSessions[i].used
  <2>1. CASE i \in mgr.rows
    <3>1. SeenSessions'[i] = SeenSessions[i]
      BY <2>1 DEF SeenSessions, Seen
    <3>2. SeenSessions[i].used \in Nat
      BY <1>0, <1>7 DEF TablesAreRows, Rows, Row
    <3> QED BY <1>7, <3>1, <3>2
  <2>2. CASE i \notin mgr.rows
    BY <1>1, <1>7, <2>2 DEF SeenSessions, Seen
  <2> QED BY <2>1, <2>2
<1>8. ASSUME NEW u \in Users
      PROVE  Cardinality(Seconds(SeenSessions, u)) <= Cardinality(Seconds(SeenSessions', u))
  BY <1>0, <1>7, SecondsGrow DEF TablesAreRows
<1>9. ASSUME NEW u \in Users
      PROVE  /\ Cardinality(Seconds(sessions, u)) \in Nat
             /\ Cardinality(Seconds(sessions', u)) \in Nat
             /\ Cardinality(Seconds(SeenSessions, u)) \in Nat
             /\ Cardinality(Seconds(SeenSessions', u)) \in Nat
  BY <1>0, SecondsFinite DEF TablesAreRows
<1>10. NoSecondIsLost'
  BY <1>0, <1>2, <1>9 DEF NothingLost, NoSecondIsLost, Used, TablesAreRows
<1>11. DraftLosesNoSecond'
  BY <1>0, <1>6, <1>8, <1>9
     DEF NothingLost, DraftLosesNoSecond, TablesAreRows, InTransaction
<1> QED BY <1>10, <1>11 DEF NothingLost

\* Time is bought with the account's row free: the pass has not read its
\* balance.
LEMMA CreditKeepsSeconds ==
  ASSUME IInv, IInv', NothingLost, NEW u \in Users, NEW g \in Grants, AddTime(u, g)
  PROVE  NothingLost'
<1>0. TablesAreRows /\ TablesAreRows'
  BY TablesAreRowsHolds, PTL
<1>00. g.seconds \in Nat
  BY GrantsAssumption
<1>1. /\ UNCHANGED <<sessions, mgr, draftRows, draftBalance>> /\ u \notin MgrUsers
      /\ balance'[u] = balance[u] + g.seconds
      /\ credited'[u] = credited[u] + g.seconds
      /\ \A w \in Users : w # u => balance'[w] = balance[w] /\ credited'[w] = credited[w]
  BY DEF AddTime, UserFree, draftVars, IInv, TypeOK
<1>2. /\ SeenSessions' = SeenSessions /\ MgrUsers' = MgrUsers
      /\ InTransaction' = InTransaction
  BY <1>1 DEF SeenSessions, Seen, MgrUsers, MgrRows, InTransaction
<1>3. /\ SeenBalance(u)' = SeenBalance(u) + g.seconds
      /\ \A w \in Users : w # u => SeenBalance(w)' = SeenBalance(w)
  BY <1>1, <1>2 DEF SeenBalance
<1>4. ASSUME NEW w \in Users
      PROVE  /\ Cardinality(Seconds(sessions, w)) \in Nat
             /\ Cardinality(Seconds(SeenSessions, w)) \in Nat
  BY <1>0, SecondsFinite DEF TablesAreRows
<1>5. ASSUME NEW w \in Users
      PROVE  credited'[w] <= balance'[w] + Cardinality(Seconds(sessions, w))
  <2>1. credited[w] <= balance[w] + Cardinality(Seconds(sessions, w))
    BY DEF NothingLost, NoSecondIsLost, Used
  <2>2. CASE w = u
    BY <1>0, <1>00, <1>1, <1>4, <2>1, <2>2 DEF TablesAreRows
  <2>3. CASE w # u
    BY <1>1, <2>1, <2>3
  <2> QED BY <2>2, <2>3
<1>6. ASSUME NEW w \in Users, InTransaction
      PROVE  credited'[w] <= SeenBalance(w)' + Cardinality(Seconds(SeenSessions, w))
  <2>1. credited[w] <= SeenBalance(w) + Cardinality(Seconds(SeenSessions, w))
    BY <1>6 DEF NothingLost, DraftLosesNoSecond
  <2>2. CASE w = u
    BY <1>0, <1>00, <1>1, <1>3, <1>4, <2>1, <2>2 DEF TablesAreRows
  <2>3. CASE w # u
    BY <1>1, <1>3, <2>1, <2>3
  <2> QED BY <2>2, <2>3
<1>7. NoSecondIsLost'
  BY <1>1, <1>5 DEF NoSecondIsLost, Used
<1>8. DraftLosesNoSecond'
  BY <1>2, <1>6 DEF DraftLosesNoSecond
<1> QED BY <1>7, <1>8 DEF NothingLost

\* The draft starts as what is committed.
LEMMA LockKeepsSeconds ==
  ASSUME IInv, IInv', NothingLost, TickLock
  PROVE  NothingLost'
<1> DEFINE rows == {i \in mgr.rows : IsActive(i)}
<1>1. /\ UNCHANGED <<sessions, balance, credited>>
      /\ mgr'.phase = "settle" /\ mgr'.rows = rows
      /\ draftRows' = [i \in Ids |-> IF i \in rows THEN sessions[i] ELSE NoRow]
      /\ draftBalance' = [u \in Users |->
           IF u \in {sessions[i].user : i \in rows} THEN balance[u] ELSE 0]
  BY DEF TickLock, Elsewhere, IInv, TypeOK, Pass
<1> HIDE DEF rows
<1>2. MgrRows' = rows
  BY <1>1 DEF MgrRows, InTransaction
<1>3. MgrUsers' = {sessions[i].user : i \in rows}
  BY <1>1, <1>2 DEF MgrUsers
<1>4. \A u \in Users : SeenBalance(u)' = balance[u]
  BY <1>1, <1>3 DEF SeenBalance
<1>5. \A i \in Ids : SeenSessions'[i] = sessions[i]
  BY <1>1 DEF SeenSessions, Seen
<1>6. SeenSessions' = sessions
  BY <1>5 DEF SeenSessions, IInv, TypeOK
<1>7. NoSecondIsLost'
  BY <1>1 DEF NothingLost, NoSecondIsLost, Used
<1>8. DraftLosesNoSecond'
  BY <1>1, <1>4, <1>6 DEF NothingLost, NoSecondIsLost, Used, DraftLosesNoSecond
<1> QED BY <1>7, <1>8 DEF NothingLost

\* A round of the loop records what it takes, GREATEST(0, ...) even less.
LEMMA SettleKeepsSeconds ==
  ASSUME IInv, IInv', NothingLost, TickSettle
  PROVE  NothingLost'
<1>0. TablesAreRows /\ TablesAreRows'
  BY TablesAreRowsHolds, PTL
<1>1. PICK k \in mgr.todo :
        /\ draftRows' = [draftRows EXCEPT ![k] = Settled(draftRows[k])]
        /\ draftBalance' = [draftBalance EXCEPT
             ![draftRows[k].user] = Monus(@, Charge(draftRows[k]))]
        /\ mgr' = [mgr EXCEPT !.todo = @ \ {k}]
  BY DEF TickSettle
<1>2. /\ UNCHANGED <<sessions, balance, credited>> /\ InTransaction
      /\ mgr'.phase = mgr.phase /\ mgr'.rows = mgr.rows
  BY <1>1 DEF TickSettle, Elsewhere, InTransaction, IInv, TypeOK, Pass
<1>3. /\ MgrRows' = MgrRows /\ MgrUsers' = MgrUsers /\ MgrRows = mgr.rows
      /\ k \in MgrRows /\ k \in Ids
  BY <1>2 DEF MgrRows, MgrUsers, InTransaction, IInv, TypeOK, Pass, DraftMatches
<1>4. /\ draftRows[k] \in Row /\ draftRows[k].user = sessions[k].user
      /\ draftRows[k].user \in Users
  BY <1>3 DEF IInv, DraftMatches, Row
<1>5. PICK u \in Users : u = draftRows[k].user
  BY <1>4
<1>6. PICK n \in Nat : n = Charge(draftRows[k])
  BY <1>4, SettledCharges DEF IInv, TypeOK
<1>7. u \in MgrUsers
  BY <1>3, <1>4, <1>5, LockedUsers
<1>8. SeenBalance(u)' >= SeenBalance(u) - n
  <2>1. draftBalance'[u] = Monus(draftBalance[u], n)
    BY <1>1, <1>5, <1>6 DEF IInv, TypeOK
  <2>2. draftBalance[u] \in Nat
    BY DEF IInv, TypeOK
  <2>3. Monus(draftBalance[u], n) >= draftBalance[u] - n
    BY <2>2 DEF Monus
  <2> QED BY <1>3, <1>7, <2>1, <2>3 DEF SeenBalance
<1>9. ASSUME NEW w \in Users, w # u
      PROVE  SeenBalance(w)' = SeenBalance(w)
  BY <1>1, <1>2, <1>3, <1>5, <1>9 DEF SeenBalance, IInv, TypeOK
<1>10. /\ SeenSessions[k] = draftRows[k]
       /\ SeenSessions'[k] = Settled(draftRows[k])
       /\ \A i \in Ids : i # k => SeenSessions'[i] = SeenSessions[i]
  BY <1>1, <1>2, <1>3 DEF SeenSessions, Seen, IInv, TypeOK
<1>11. /\ SeenSessions[k] # NoRow /\ SeenSessions'[k] # NoRow
       /\ SeenSessions[k].user = u /\ SeenSessions'[k].user = u
       /\ SeenSessions'[k].used = SeenSessions[k].used + n
  <2>1. Settled(draftRows[k]) \in Row /\ Settled(draftRows[k]).user = draftRows[k].user
    BY <1>4, SettledType DEF IInv, TypeOK
  <2>2. Settled(draftRows[k]).used = draftRows[k].used + n
    BY <1>4, <1>6, SettledCharges DEF IInv, TypeOK
  <2>3. \A row \in Row : row # NoRow
    BY DEF Row, NoRow
  <2> QED BY <1>4, <1>5, <1>10, <2>1, <2>2, <2>3
<1>12. Cardinality(Seconds(SeenSessions', u)) = Cardinality(Seconds(SeenSessions, u)) + n
  <2>1. Cardinality(Seconds(SeenSessions', SeenSessions[k].user)) =
          Cardinality(Seconds(SeenSessions, SeenSessions[k].user)) + n
    BY <1>0, <1>3, <1>10, <1>11, SecondsCharged DEF TablesAreRows
  <2> QED BY <1>11, <2>1
<1>13. ASSUME NEW w \in Users
       PROVE  Cardinality(Seconds(SeenSessions, w)) <= Cardinality(Seconds(SeenSessions', w))
  <2>1. ASSUME NEW i \in Ids, SeenSessions[i] # NoRow
        PROVE  /\ SeenSessions'[i] # NoRow
               /\ SeenSessions'[i].user = SeenSessions[i].user
               /\ SeenSessions'[i].used >= SeenSessions[i].used
    <3>1. SeenSessions[i].used \in Nat
      BY <1>0, <2>1 DEF TablesAreRows, Rows, Row
    <3>2. CASE i = k
      BY <1>11, <3>1, <3>2
    <3>3. CASE i # k
      BY <1>10, <2>1, <3>1, <3>3
    <3> QED BY <3>2, <3>3
  <2> QED BY <1>0, <2>1, SecondsGrow DEF TablesAreRows
<1>14. ASSUME NEW w \in Users
       PROVE  credited[w] <= SeenBalance(w)' + Cardinality(Seconds(SeenSessions', w))
  <2>1. credited[w] <= SeenBalance(w) + Cardinality(Seconds(SeenSessions, w))
    BY <1>2 DEF NothingLost, DraftLosesNoSecond
  <2>2. /\ Cardinality(Seconds(SeenSessions, w)) \in Nat
        /\ Cardinality(Seconds(SeenSessions', w)) \in Nat
        /\ SeenBalance(w) \in Nat /\ SeenBalance(w)' \in Nat /\ credited[w] \in Nat
    BY <1>0, SecondsFinite DEF TablesAreRows
  <2>3. CASE w = u
    BY <1>8, <1>12, <2>1, <2>2, <2>3
  <2>4. CASE w # u
    <3>1. SeenBalance(w)' = SeenBalance(w)
      BY <1>9, <2>4
    <3>2. Cardinality(Seconds(SeenSessions, w)) <= Cardinality(Seconds(SeenSessions', w))
      BY <1>13
    <3> QED BY <2>1, <2>2, <3>1, <3>2
  <2> QED BY <2>3, <2>4
<1>15. NoSecondIsLost'
  BY <1>2 DEF NothingLost, NoSecondIsLost, Used
<1>16. DraftLosesNoSecond'
  BY <1>2, <1>14 DEF DraftLosesNoSecond
<1> QED BY <1>15, <1>16 DEF NothingLost

\* COMMIT publishes both halves of the draft at once.
LEMMA CommitKeepsSeconds ==
  ASSUME IInv, IInv', NothingLost, TickCommit
  PROVE  NothingLost'
<1>0. TablesAreRows /\ TablesAreRows'
  BY TablesAreRowsHolds, PTL
<1>1. /\ UNCHANGED credited /\ mgr.phase = "end" /\ InTransaction /\ mgr' \in Pass
      /\ mgr.cut \subseteq Ids
      /\ \A i \in Ids : sessions'[i] =
           IF i \in mgr.cut THEN Closed(Seen(i), "ended", 0) ELSE Seen(i)
      /\ \A u \in Users : balance'[u] = SeenBalance(u)
  BY DEF TickCommit, Elsewhere, InTransaction, IInv, TypeOK, Pass
<1>2. ~InTransaction'
  BY DEF TickCommit, InTransaction, IInv, TypeOK, Pass
<1>3. ASSUME NEW i \in Ids, SeenSessions[i] # NoRow
      PROVE  /\ sessions'[i] # NoRow
             /\ sessions'[i].user = SeenSessions[i].user
             /\ sessions'[i].used >= SeenSessions[i].used
  <2>1. SeenSessions[i] = Seen(i) /\ Seen(i) \in Row
    BY <1>0, <1>3 DEF TablesAreRows, SeenSessions, Rows
  <2>2. Seen(i).used \in Nat
    BY <2>1 DEF Row
  <2>3. CASE i \in mgr.cut
    <3>1. /\ Closed(Seen(i), "ended", 0) # NoRow
          /\ Closed(Seen(i), "ended", 0).user = Seen(i).user
          /\ Closed(Seen(i), "ended", 0).used = Seen(i).used
      BY <2>1, ClosedType
    <3> QED BY <1>1, <2>1, <2>2, <2>3, <3>1
  <2>4. CASE i \notin mgr.cut
    BY <1>1, <1>3, <2>1, <2>2, <2>4
  <2> QED BY <2>3, <2>4
<1>4. ASSUME NEW u \in Users
      PROVE  credited'[u] <= balance'[u] + Cardinality(Seconds(sessions', u))
  <2>1. credited[u] <= SeenBalance(u) + Cardinality(Seconds(SeenSessions, u))
    BY <1>1 DEF NothingLost, DraftLosesNoSecond
  <2>2. Cardinality(Seconds(SeenSessions, u)) <= Cardinality(Seconds(sessions', u))
    BY <1>0, <1>3, SecondsGrow DEF TablesAreRows
  <2>3. /\ Cardinality(Seconds(SeenSessions, u)) \in Nat
        /\ Cardinality(Seconds(sessions', u)) \in Nat
        /\ SeenBalance(u) \in Nat /\ credited[u] \in Nat
    BY <1>0, SecondsFinite DEF TablesAreRows
  <2> QED BY <1>1, <2>1, <2>2, <2>3
<1> QED BY <1>2, <1>4 DEF NothingLost, NoSecondIsLost, Used, DraftLosesNoSecond

\* Every step keeps the seconds.
LEMMA SecondsStep ==
  ASSUME IInv, IInv', NothingLost, [Next]_vars
  PROVE  NothingLost'
<1>1. CASE \E c \in Calls : ConnectStep(c)
  <2> PICK c \in Calls : ConnectStep(c)
    BY <1>1
  <2>1. UNCHANGED <<balance, credited, mgr, draftRows, draftBalance>>
    BY DEF ConnectStep, ConnectStart, ConnectLock, ConnectRefuse, ConnectRefresh,
           ConnectOpen, ConnectAbort, ConnectAuth, ConnectAuthFail, accountVars,
           draftVars
  <2>2. ASSUME NEW i \in Ids, sessions[i] # NoRow
        PROVE  /\ sessions'[i] # NoRow /\ sessions'[i].user = sessions[i].user
               /\ sessions'[i].used = sessions[i].used
    <3>1. sessions[i] \in Row
      BY <2>2, ActiveIsRow DEF IInv
    <3>2. CASE ConnectRefresh(c)
      <4>1. sessions'[i] \in {sessions[i], [sessions[i] EXCEPT !.lastTick = conn[c].at]}
        BY <3>2 DEF ConnectRefresh, IInv, TypeOK
      <4> QED BY <3>1, <4>1 DEF Row, NoRow
    <3>3. CASE ConnectOpen(c)
      <4>1. sessions'[i] \in {sessions[i], Closed(sessions[i], "ended", 0)}
        BY <2>2, <3>3 DEF ConnectOpen, FreeIds
      <4> QED BY <2>2, <3>1, <4>1, ClosedType
    <3>4. CASE UNCHANGED sessions
      BY <2>2, <3>4
    <3> QED BY <3>2, <3>3, <3>4
            DEF ConnectStep, ConnectStart, ConnectLock, ConnectRefuse,
                ConnectAbort, ConnectAuth, ConnectAuthFail
  <2> QED BY <2>1, <2>2, SessionsGrow
<1>2. CASE \E m \in Macs : KickStep(m)
  <2> PICK m \in Macs : KickStep(m)
    BY <1>2
  <2>1. UNCHANGED <<balance, credited, mgr, draftRows, draftBalance>>
    BY DEF KickStep, KickDeauth, KickMark, KickMiss, accountVars, draftVars
  <2>2. ASSUME NEW i \in Ids, sessions[i] # NoRow
        PROVE  /\ sessions'[i] # NoRow /\ sessions'[i].user = sessions[i].user
               /\ sessions'[i].used = sessions[i].used
    <3>1. sessions[i] \in Row /\ clock \in Nat
      BY <2>2, ActiveIsRow DEF IInv, TypeOK
    <3>2. sessions'[i] \in {sessions[i], Closed(sessions[i], "kicked", clock)}
      BY DEF KickStep, KickDeauth, KickMark, KickMiss
    <3> QED BY <2>2, <3>1, <3>2, ClosedType
  <2> QED BY <2>1, <2>2, SessionsGrow
<1>3. CASE \E u \in Users, g \in Grants : AddTime(u, g)
  BY <1>3, CreditKeepsSeconds
<1>4. CASE TickLock
  BY <1>4, LockKeepsSeconds
<1>5. CASE TickSettle
  BY <1>5, SettleKeepsSeconds
<1>6. CASE TickCommit
  BY <1>6, CommitKeepsSeconds
<1>7. CASE TickExhausted
  <2>1. /\ UNCHANGED <<sessions, balance, credited, draftRows, draftBalance>>
        /\ mgr'.rows = mgr.rows /\ InTransaction /\ InTransaction'
    BY <1>7 DEF TickExhausted, Elsewhere, InTransaction, draftVars, IInv, TypeOK, Pass
  <2>2. SeenSessions' = SeenSessions /\ MgrUsers' = MgrUsers
    BY <2>1 DEF SeenSessions, Seen, MgrUsers, MgrRows
  <2>3. \A u \in Users : SeenBalance(u)' = SeenBalance(u)
    BY <2>1, <2>2 DEF SeenBalance
  <2> QED BY <2>1, <2>2, <2>3
          DEF NothingLost, NoSecondIsLost, Used, DraftLosesNoSecond
<1>8. CASE \/ TickPoll \/ TickBegin \/ TickReview \/ TickSleep \/ TickAbort
           \/ \E m \in Macs : TickCut(m) \/ TickOrphan(m)
  <2>1. /\ UNCHANGED <<sessions, balance, credited>>
        /\ mgr'.phase \notin {"settle", "end"}
    <3>0. mgr \in Pass
      BY DEF IInv, TypeOK
    <3>1. CASE TickPoll \/ TickBegin \/ TickReview
      BY <3>0, <3>1 DEF TickPoll, TickBegin, TickReview, Elsewhere, Pass
    <3>2. CASE TickSleep \/ TickAbort
      BY <3>2 DEF TickSleep, TickAbort, Elsewhere, Asleep
    <3>3. CASE \E m \in Macs : TickCut(m) \/ TickOrphan(m)
      BY <3>0, <3>3 DEF TickCut, TickOrphan, Elsewhere, Pass
    <3> QED BY <1>8, <3>1, <3>2, <3>3
  <2> QED BY <2>1 DEF NothingLost, NoSecondIsLost, Used, DraftLosesNoSecond, InTransaction
<1>9. CASE UNCHANGED <<sessions, balance, credited, mgr, draftRows, draftBalance>>
  BY <1>9, SessionsGrow
<1>10. \/ UNCHANGED <<sessions, balance, credited, mgr, draftRows, draftBalance>>
       \/ \E u \in Users, g \in Grants : AddTime(u, g)
       \/ \E c \in Calls : ConnectStep(c)
       \/ \E m \in Macs : KickStep(m)
       \/ TickStep
  BY DEF Next, Environment, BackendCrash, Advance, NdsDrop, vars, accountVars,
         draftVars
<1> QED BY <1>1, <1>2, <1>3, <1>4, <1>5, <1>6, <1>7, <1>8, <1>9, <1>10 DEF TickStep

\* However requests, kicks, purchases and passes interleave, and wherever a pass
\* stops, every second ever credited is in the balance or recorded as consumed.
THEOREM NoSecondIsLostHolds == Spec => []NoSecondIsLost
<1>1. Init => NothingLost
  <2> SUFFICES ASSUME Init
               PROVE  NothingLost
    OBVIOUS
  <2>1. TablesAreRows
    BY InitStep, TablesAreRowsHolds
  <2>2. ASSUME NEW u \in Users
        PROVE  credited[u] <= balance[u] + Cardinality(Seconds(sessions, u))
    <3>1. Cardinality(Seconds(sessions, u)) \in Nat
      BY <2>1, SecondsFinite DEF TablesAreRows
    <3> QED BY <3>1 DEF Init
  <2>3. ~InTransaction
    BY DEF Init, Asleep, InTransaction
  <2> QED BY <2>2, <2>3 DEF NothingLost, NoSecondIsLost, Used, DraftLosesNoSecond
<1>2. IInv /\ IInv' /\ NothingLost /\ [Next]_vars => NothingLost'
  BY SecondsStep
<1>3. NothingLost => NoSecondIsLost
  BY DEF NothingLost
<1> QED BY <1>1, <1>2, <1>3, Invariance, PTL DEF Spec

-----------------------------------------------------------------------------
(***************************************************************************)
(* What a session is charged.                                              *)
(***************************************************************************)

\* What holds of a row at one moment holds later.
LEMMA WithinLater ==
  ASSUME NEW row \in Row, NEW now \in Nat, NEW later \in Nat, now <= later,
         WithinTwice(row, now)
  PROVE  WithinTwice(row, later)
<1>1. row.started \in Nat /\ row.lastTick \in Nat /\ row.used \in Nat
  BY DEF Row
<1> QED BY <1>1 DEF WithinTwice

\* So it does of the row with a later last_tick.
LEMMA WithinRefreshed ==
  ASSUME NEW row \in Row, NEW now \in Nat, NEW later \in Nat, now <= later,
         NEW time \in Nat, row.lastTick <= time, WithinTwice(row, now)
  PROVE  WithinTwice([row EXCEPT !.lastTick = time], later)
<1> DEFINE refreshed == [row EXCEPT !.lastTick = time]
<1>1. /\ row.started \in Nat /\ row.lastTick \in Nat /\ row.used \in Nat
      /\ refreshed.started = row.started /\ refreshed.used = row.used
      /\ refreshed.lastTick = time
  BY DEF Row
<1> HIDE DEF refreshed
<1>2. WithinTwice(refreshed, later)
  BY <1>1 DEF WithinTwice
<1> QED BY <1>2 DEF refreshed

\* A charged row has been charged for no moment after the pass's locks.
LEMMA WithinSettled ==
  ASSUME NEW row \in Row, mgr \in Pass, clock \in Nat,
         mgr.begin <= mgr.stamp, mgr.stamp <= clock,
         row.status = "active" =>
           WithinTwice(row, mgr.begin) /\ row.lastTick <= clock,
         Settled(row).status = "active"
  PROVE  WithinTwice(Settled(row), mgr.stamp) /\ Settled(row).lastTick <= clock
<1>1. /\ row.started \in Nat /\ row.lastTick \in Nat /\ row.used \in Nat
      /\ mgr.begin \in Nat /\ mgr.stamp \in Nat
  BY DEF Row, Pass
<1>2. CASE row.mac \notin mgr.online /\ Expired(row)
  BY <1>2, ClosedType DEF Settled
<1>3. CASE Settled(row) = row
  BY <1>1, <1>3, WithinLater
<1>4. CASE row.mac \in mgr.online /\ Elapsed(row) > 0
  <2> DEFINE charged == [row EXCEPT !.used = @ + Elapsed(row),
                                    !.lastTick = mgr.begin]
  <2>1. Settled(row) = charged
    BY <1>4 DEF Settled
  <2>2. /\ charged.status = row.status /\ charged.started = row.started
        /\ charged.lastTick = mgr.begin
        /\ charged.used = row.used + Elapsed(row)
    BY DEF Row
  <2>3. Elapsed(row) = mgr.stamp - row.lastTick
    BY <1>1, <1>4 DEF Elapsed, Monus
  <2> HIDE DEF charged
  <2>4. /\ row.started <= mgr.begin
        /\ row.used <= (mgr.begin - row.started) + (row.lastTick - row.started)
    BY <2>1, <2>2 DEF WithinTwice
  <2>5. row.started <= mgr.stamp /\ mgr.begin <= clock
    BY <1>1, <2>4
  <2>6. row.used + Elapsed(row) <= (mgr.stamp - row.started) + (mgr.begin - row.started)
    BY <1>1, <2>3, <2>4
  <2> QED BY <2>1, <2>2, <2>4, <2>5, <2>6 DEF WithinTwice
<1> QED BY <1>2, <1>3, <1>4 DEF Settled

\* Steps outside the passes: a row still active is as it was, or has been charged
\* no more and is not one the pass is about, or has a later last_tick.
LEMMA ChargesKept ==
  ASSUME IInv, IInv', ChargesHold, clock <= clock',
         UNCHANGED <<mgr, draftRows>>,
         \A c \in Calls : conn'[c] # Idle => conn'[c].at <= clock',
         \A i \in Ids :
           /\ sessions[i] # NoRow => sessions'[i] # NoRow
           /\ sessions'[i].status = "active" =>
                \/ sessions'[i] = sessions[i]
                \/ /\ sessions[i] = NoRow
                   /\ WithinTwice(sessions'[i], clock)
                   /\ sessions'[i].lastTick <= clock
                \/ \E time \in Nat :
                     /\ IsActive(i) /\ sessions[i].lastTick <= time
                     /\ time <= clock
                     /\ sessions'[i] = [sessions[i] EXCEPT !.lastTick = time]
  PROVE  ChargesHold'
<1>0. /\ clock \in Nat /\ clock' \in Nat /\ mgr.begin \in Nat /\ mgr.stamp \in Nat
      /\ mgr.rows \subseteq Ids
  BY DEF IInv, TypeOK, Pass
<1>1. ASSUME NEW i \in Ids, sessions'[i].status = "active", NEW now \in Nat,
             now <= clock,
             IsActive(i) => WithinTwice(sessions[i], now),
             sessions[i] = NoRow => now = clock,
             NEW later \in Nat, now <= later
      PROVE  WithinTwice(sessions'[i], later)
  <2>0. sessions'[i] \in Row
    BY <1>1 DEF IInv, TypeOK, Row, NoRow
  <2>1. CASE sessions'[i] = sessions[i]
    <3>1. IsActive(i)
      BY <1>1, <2>1 DEF IsActive
    <3>2. WithinTwice(sessions'[i], now)
      BY <1>1, <2>1, <3>1
    <3> QED BY <1>1, <2>0, <3>2, WithinLater
  <2>2. CASE sessions[i] = NoRow /\ WithinTwice(sessions'[i], clock)
    <3>1. clock <= later
      BY <1>1, <2>2
    <3> QED BY <1>0, <1>1, <2>0, <2>2, <3>1, WithinLater
  <2>3. CASE \E time \in Nat :
               /\ IsActive(i) /\ sessions[i].lastTick <= time /\ time <= clock
               /\ sessions'[i] = [sessions[i] EXCEPT !.lastTick = time]
    <3>1. PICK time \in Nat :
               /\ IsActive(i) /\ sessions[i].lastTick <= time /\ time <= clock
               /\ sessions'[i] = [sessions[i] EXCEPT !.lastTick = time]
      BY <2>3
    <3>2. sessions[i] \in Row
      BY <3>1, ActiveIsRow DEF IInv
    <3>3. WithinTwice([sessions[i] EXCEPT !.lastTick = time], later)
      BY <1>1, <3>1, <3>2, WithinRefreshed
    <3> QED BY <3>1, <3>3
  <2> QED BY <1>1, <2>1, <2>2, <2>3
<1>2. ASSUME NEW i \in Ids, sessions'[i].status = "active"
      PROVE  WithinTwice(sessions'[i], clock') /\ sessions'[i].lastTick <= clock'
  <2>1. WithinTwice(sessions'[i], clock')
    BY <1>0, <1>1, <1>2 DEF ChargesHold
  <2>2. sessions'[i].lastTick <= clock
    <3>1. CASE sessions'[i] = sessions[i]
      BY <1>2, <3>1 DEF ChargesHold, IsActive
    <3>2. CASE \E time \in Nat :
                 /\ IsActive(i) /\ time <= clock
                 /\ sessions'[i] = [sessions[i] EXCEPT !.lastTick = time]
      <4>1. sessions[i] \in Row
        BY <3>2, ActiveIsRow DEF IInv
      <4> QED BY <3>2, <4>1 DEF Row
    <3> QED BY <1>2, <3>1, <3>2
  <2>3. sessions'[i].lastTick \in Nat
    BY <1>2 DEF IInv, TypeOK, Row, NoRow
  <2> QED BY <1>0, <2>1, <2>2, <2>3
<1>3. ASSUME mgr.phase = "begun", NEW i \in mgr.rows
      PROVE  /\ sessions'[i] # NoRow
             /\ sessions'[i].status = "active" => WithinTwice(sessions'[i], mgr.begin)
  <2>1. i \in Ids /\ sessions[i] # NoRow /\ mgr.begin <= clock
    BY <1>0, <1>3 DEF ChargesHold
  <2> QED BY <1>0, <1>1, <1>3, <2>1 DEF ChargesHold
<1>4. MgrRows' = MgrRows /\ (InTransaction' <=> InTransaction) /\ MgrRows \subseteq Ids
  BY <1>0 DEF MgrRows, InTransaction
<1>5. ASSUME NEW i \in MgrRows, draftRows[i].status = "active"
      PROVE  /\ WithinTwice(draftRows[i], mgr.stamp)
             /\ draftRows[i].lastTick <= clock'
             /\ i \in mgr.todo => WithinTwice(draftRows[i], mgr.begin)
  <2>1. draftRows[i].lastTick \in Nat /\ draftRows[i].lastTick <= clock
    BY <1>5 DEF IInv, DraftMatches, Row, ChargesHold
  <2> QED BY <1>0, <1>5, <2>1 DEF ChargesHold
<1>6. /\ mgr.phase = "begun" => mgr.begin <= clock'
      /\ InTransaction => mgr.begin <= mgr.stamp /\ mgr.stamp <= clock'
  BY <1>0 DEF ChargesHold
<1> QED BY <1>2, <1>3, <1>4, <1>5, <1>6 DEF ChargesHold, IsActive

\* What RefreshGoesForward says of one step.
Forward ==
  \A c \in Calls :
    ConnectRefresh(c) => conn[c].at >= sessions[conn[c].session].lastTick

\* Steps of requests: the moment a request works with is past, a new row has
\* been charged nothing, and a refreshed one has a later last_tick.
LEMMA ConnectCharges ==
  ASSUME IInv, IInv', ChargesHold, NEW c \in Calls, ConnectStep(c), Forward
  PROVE  ChargesHold'
<1>0. clock \in Nat /\ conn \in [Calls -> Call \cup {Idle}]
  BY DEF IInv, TypeOK
<1>1. /\ UNCHANGED <<clock, mgr, draftRows>>
      /\ \A d \in Calls : d # c => conn'[d] = conn[d]
  BY <1>0 DEF ConnectStep, ConnectStart, ConnectLock, ConnectRefuse, ConnectRefresh,
         ConnectOpen, ConnectAbort, ConnectAuth, ConnectAuthFail, draftVars
<1>2. ASSUME conn'[c] # Idle
      PROVE  conn'[c].at <= clock
  <2>1. CASE ConnectLock(c)
    <3>0. conn[c] \in Call
      BY <1>0, <2>1 DEF ConnectLock, ConnectMayLock, Idle
    <3>1. PICK begin \in conn[c].at..clock :
            conn' = [conn EXCEPT
              ![c].pc = "locked", ![c].at = begin,
              ![c].session = OwnSession(conn[c].user, conn[c].mac)]
      BY <2>1 DEF ConnectLock
    <3>2. conn'[c].at = begin
      BY <1>0, <3>0, <3>1 DEF Call
    <3> QED BY <1>0, <3>0, <3>1, <3>2 DEF Call
  <2>2. CASE ConnectRefresh(c) \/ ConnectOpen(c)
    <3>1. conn[c] # Idle /\ conn[c] \in Call
      BY <1>0, <2>2 DEF ConnectRefresh, ConnectOpen, Idle
    <3>2. conn'[c].at = conn[c].at
      BY <1>0, <2>2, <3>1 DEF ConnectRefresh, ConnectOpen, Call
    <3> QED BY <3>1, <3>2 DEF ChargesHold
  <2>3. CASE \E u \in Users, m \in Macs : ConnectStart(c, u, m)
    <3>1. conn'[c].at = clock
      BY <1>0, <2>3 DEF ConnectStart
    <3> QED BY <1>0, <3>1
  <2>4. CASE ConnectRefuse(c) \/ ConnectAbort(c) \/ ConnectAuth(c) \/ ConnectAuthFail(c)
    <3>1. conn'[c] = Idle
      BY <1>0, <2>4 DEF ConnectRefuse, ConnectAbort, ConnectAuth, ConnectAuthFail
    <3> QED BY <1>2, <3>1
  <2> QED BY <2>1, <2>2, <2>3, <2>4 DEF ConnectStep
<1>3. \A d \in Calls : conn'[d] # Idle => conn'[d].at <= clock'
  BY <1>1, <1>2 DEF ChargesHold
<1>4. CASE ConnectRefresh(c)
  <2> DEFINE s == conn[c].session
  <2>1. /\ conn[c] \in Call /\ conn[c].pc = "locked" /\ s # 0
        /\ sessions' = [sessions EXCEPT ![s].lastTick = conn[c].at]
    BY <1>0, <1>4 DEF ConnectRefresh, Idle
  <2>2. s \in Ids /\ IsActive(s) /\ conn[c].at \in Nat /\ conn[c].at <= clock
    <3>1. conn[c] # Idle
      BY <2>1 DEF Idle
    <3> QED BY <2>1, <3>1 DEF IInv, ConnectChecksHold, Active, Call, ChargesHold
  <2>3. sessions[s].lastTick <= conn[c].at
    <3>1. sessions[s].lastTick \in Nat
      BY <2>2, ActiveIsRow DEF IInv, Row
    <3> QED BY <1>4, <2>2, <3>1 DEF Forward
  <2>4. /\ sessions'[s] = [sessions[s] EXCEPT !.lastTick = conn[c].at]
        /\ \A i \in Ids : i # s => sessions'[i] = sessions[i]
    BY <2>1, <2>2 DEF IInv, TypeOK
  <2>5. sessions'[s] # NoRow
    BY <2>2, <2>4, ActiveIsRow DEF IInv, Row, NoRow
  <2> HIDE DEF s
  <2> QED BY <1>0, <1>1, <1>3, <2>2, <2>3, <2>4, <2>5, ChargesKept
<1>5. CASE ConnectOpen(c)
  <2>1. /\ conn[c] \in Call /\ conn[c].at \in Nat /\ conn[c].at <= clock
    BY <1>0, <1>5 DEF ConnectOpen, Call, Idle, ChargesHold
  <2>2. PICK id \in FreeIds :
          sessions' = [i \in Ids |->
            IF i = id THEN NewRow(conn[c].user, conn[c].mac, conn[c].at)
            ELSE IF i \in Displaced(c)
                   THEN Closed(sessions[i], "ended", 0)
                   ELSE sessions[i]]
    BY <1>5 DEF ConnectOpen
  <2>3. ASSUME NEW i \in Ids
        PROVE  /\ sessions[i] # NoRow => sessions'[i] # NoRow
               /\ sessions'[i].status = "active" =>
                    \/ sessions'[i] = sessions[i]
                    \/ /\ sessions[i] = NoRow
                       /\ WithinTwice(sessions'[i], clock)
                       /\ sessions'[i].lastTick <= clock
    <3>1. CASE i = id
      <4>1. /\ sessions[i] = NoRow
            /\ sessions'[i] = NewRow(conn[c].user, conn[c].mac, conn[c].at)
        BY <2>2, <3>1 DEF FreeIds
      <4>2. /\ sessions'[i].started = conn[c].at /\ sessions'[i].used = 0
            /\ sessions'[i].lastTick = conn[c].at
        BY <4>1 DEF NewRow
      <4> QED BY <1>0, <2>1, <4>1, <4>2 DEF WithinTwice
    <3>2. CASE i # id /\ i \in Displaced(c)
      <4>1. sessions[i] \in Row /\ sessions'[i] = Closed(sessions[i], "ended", 0)
        BY <2>2, <3>2, ActiveIsRow DEF Displaced, ActiveOn, IInv
      <4> QED BY <4>1, ClosedType
    <3>3. CASE i # id /\ i \notin Displaced(c)
      BY <2>2, <3>3
    <3> QED BY <3>1, <3>2, <3>3
  <2> QED BY <1>0, <1>1, <1>3, <2>3, ChargesKept
<1>6. CASE UNCHANGED sessions
  BY <1>0, <1>1, <1>3, <1>6, ChargesKept
<1> QED BY <1>4, <1>5, <1>6
        DEF ConnectStep, ConnectStart, ConnectLock, ConnectRefuse,
            ConnectAbort, ConnectAuth, ConnectAuthFail

\* A round of the loop.
LEMMA SettleCharges ==
  ASSUME IInv, IInv', ChargesHold, TickSettle
  PROVE  ChargesHold'
<1>1. PICK k \in mgr.todo :
        /\ draftRows' = [draftRows EXCEPT ![k] = Settled(draftRows[k])]
        /\ mgr' = [mgr EXCEPT !.todo = @ \ {k}]
  BY DEF TickSettle
<1>2. /\ UNCHANGED <<clock, sessions, conn>> /\ InTransaction /\ InTransaction'
      /\ mgr'.phase = "settle" /\ mgr'.rows = mgr.rows
      /\ mgr'.stamp = mgr.stamp /\ mgr'.begin = mgr.begin
      /\ mgr'.todo = mgr.todo \ {k}
      /\ mgr \in Pass /\ clock \in Nat
  BY <1>1 DEF TickSettle, Elsewhere, InTransaction, IInv, TypeOK, Pass
<1>3. MgrRows' = MgrRows /\ MgrRows \subseteq Ids /\ k \in MgrRows
  BY <1>2 DEF MgrRows, IInv, TypeOK, Pass, DraftMatches
<1>4. mgr.begin <= mgr.stamp /\ mgr.stamp <= clock
  BY <1>2 DEF ChargesHold
<1>5. ASSUME NEW i \in MgrRows, draftRows'[i].status = "active"
      PROVE  /\ WithinTwice(draftRows'[i], mgr.stamp)
             /\ draftRows'[i].lastTick <= clock
             /\ i \in mgr.todo \ {k} => WithinTwice(draftRows'[i], mgr.begin)
  <2>1. draftRows'[i] = IF i = k THEN Settled(draftRows[i]) ELSE draftRows[i]
    BY <1>1, <1>3 DEF IInv, TypeOK
  <2>2. CASE i # k
    BY <1>5, <2>1, <2>2 DEF ChargesHold
  <2>3. CASE i = k
    <3>1. draftRows[i] \in Row
      BY DEF IInv, DraftMatches
    <3>2. draftRows[i].status = "active" =>
            WithinTwice(draftRows[i], mgr.begin) /\ draftRows[i].lastTick <= clock
      BY <2>3 DEF ChargesHold
    <3> QED BY <1>2, <1>4, <1>5, <2>1, <2>3, <3>1, <3>2, WithinSettled
  <2> QED BY <2>2, <2>3
<1> QED BY <1>2, <1>3, <1>4, <1>5 DEF ChargesHold, IsActive

\* What the pass commits has been charged for no moment after its locks.
LEMMA CommitCharges ==
  ASSUME IInv, IInv', ChargesHold, TickCommit
  PROVE  ChargesHold'
<1> DEFINE macs == {Seen(i).mac : i \in mgr.cut}
<1>1. /\ UNCHANGED <<clock, conn>> /\ InTransaction /\ clock \in Nat
      /\ mgr' = [mgr EXCEPT !.phase = "cut", !.rows = {}, !.cut = {},
                            !.begin = 0, !.stamp = 0, !.targets = macs]
      /\ sessions' = [i \in Ids |->
           IF i \in mgr.cut THEN Closed(Seen(i), "ended", 0) ELSE Seen(i)]
      /\ mgr \in Pass
  BY DEF TickCommit, Elsewhere, InTransaction, IInv, TypeOK
<1> HIDE DEF macs
<1>2. mgr'.phase = "cut"
  BY <1>1 DEF Pass
<1>3. ASSUME NEW i \in Ids, sessions'[i].status = "active"
      PROVE  WithinTwice(sessions'[i], clock) /\ sessions'[i].lastTick <= clock
  <2>1. CASE i \in mgr.cut
    <3>1. sessions'[i] = Closed(Seen(i), "ended", 0)
      BY <1>1, <2>1
    <3>2. Seen(i) \in Row
      BY <1>1, <2>1, ActiveIsRow
         DEF IInv, CutIsComplete, DraftMatches, Seen, MgrRows, TickCommit
    <3> QED BY <1>3, <3>1, <3>2, ClosedType
  <2>2. CASE i \notin mgr.cut /\ i \in mgr.rows
    <3>1. sessions'[i] = draftRows[i] /\ i \in MgrRows
      BY <1>1, <2>2 DEF Seen, MgrRows
    <3>2. /\ draftRows[i] \in Row
          /\ WithinTwice(draftRows[i], mgr.stamp) /\ draftRows[i].lastTick <= clock
      BY <1>3, <3>1 DEF ChargesHold, IInv, DraftMatches
    <3>3. mgr.stamp \in Nat /\ mgr.stamp <= clock
      BY <1>1 DEF ChargesHold, Pass
    <3> QED BY <1>1, <3>1, <3>2, <3>3, WithinLater
  <2>3. CASE i \notin mgr.cut /\ i \notin mgr.rows
    <3>1. sessions'[i] = sessions[i]
      BY <1>1, <2>3 DEF Seen
    <3> QED BY <1>3, <3>1 DEF ChargesHold, IsActive
  <2> QED BY <2>1, <2>2, <2>3
<1>4. MgrRows' = {} /\ ~InTransaction'
  BY <1>2 DEF MgrRows, InTransaction
<1> QED BY <1>1, <1>2, <1>3, <1>4 DEF ChargesHold, IsActive

\* Every step.
LEMMA ChargesStep ==
  ASSUME IInv, IInv', ChargesHold, [Next]_vars, [Forward]_vars
  PROVE  ChargesHold'
<1>0. /\ clock \in Nat /\ clock' \in Nat /\ mgr \in Pass
      /\ \A i \in Ids : sessions[i] # NoRow => sessions[i] \in Row
  BY ActiveIsRow DEF IInv, TypeOK
<1>1. CASE Forward /\ \E c \in Calls : ConnectStep(c)
  BY <1>1, ConnectCharges
<1>2. CASE \E m \in Macs : KickStep(m)
  <2> PICK m \in Macs : KickStep(m)
    BY <1>2
  <2>1. UNCHANGED <<clock, conn, mgr, draftRows>>
    BY DEF KickStep, KickDeauth, KickMark, KickMiss, draftVars
  <2>2. ASSUME NEW i \in Ids
        PROVE  /\ sessions[i] # NoRow => sessions'[i] # NoRow
               /\ sessions'[i].status = "active" => sessions'[i] = sessions[i]
    <3>1. CASE KickMark(m) /\ i \in ActiveOn(m)
      <4>1. sessions[i] \in Row /\ sessions'[i] = Closed(sessions[i], "kicked", clock)
        BY <3>1, ActiveIsRow DEF KickMark, ActiveOn, IInv
      <4> QED BY <1>0, <4>1, ClosedType
    <3>2. CASE sessions'[i] = sessions[i]
      BY <3>2
    <3> QED BY <3>1, <3>2 DEF KickStep, KickDeauth, KickMark, KickMiss
  <2>3. \A c \in Calls : conn'[c] # Idle => conn'[c].at <= clock'
    BY <2>1 DEF ChargesHold
  <2> QED BY <1>0, <2>1, <2>2, <2>3, ChargesKept
<1>3. CASE \/ BackendCrash \/ Advance
           \/ \E m \in Macs : NdsDrop(m)
           \/ \E u \in Users, g \in Grants : AddTime(u, g)
           \/ UNCHANGED vars
  <2>1. UNCHANGED <<sessions, mgr, draftRows>> /\ clock' \in {clock, clock + 1}
    BY <1>3 DEF BackendCrash, Advance, NdsDrop, AddTime, vars, draftVars
  <2>2. \A c \in Calls : conn'[c] \in {conn[c], Idle}
    BY <1>3 DEF BackendCrash, Advance, NdsDrop, AddTime, vars
  <2>3. ASSUME NEW c \in Calls, conn'[c] # Idle
        PROVE  conn'[c].at <= clock'
    <3>1. conn'[c] = conn[c] /\ conn[c].at <= clock
      BY <2>2, <2>3 DEF ChargesHold
    <3>2. conn[c].at \in Nat
      BY <2>3, <3>1 DEF IInv, TypeOK, Call
    <3> QED BY <1>0, <2>1, <3>1, <3>2
  <2>4. clock <= clock'
    BY <1>0, <2>1
  <2> QED BY <2>1, <2>3, <2>4, ChargesKept
<1>4. CASE TickSettle
  BY <1>4, SettleCharges
<1>5. CASE TickCommit
  BY <1>5, CommitCharges
<1>6. CASE TickBegin
  <2>1. /\ UNCHANGED <<clock, sessions, conn, draftRows>>
        /\ mgr'.phase = "begun" /\ mgr'.begin = clock
        /\ mgr'.rows = {i \in Ids : IsActive(i)}
    BY <1>0, <1>6 DEF TickBegin, Elsewhere, draftVars, Pass
  <2>2. MgrRows' = {} /\ ~InTransaction'
    BY <2>1 DEF MgrRows, InTransaction
  <2>3. \A i \in Ids : IsActive(i) => sessions[i] # NoRow
    BY DEF IsActive, NoRow
  <2> QED BY <1>0, <2>1, <2>2, <2>3 DEF ChargesHold, IsActive
<1>7. CASE TickLock
  <2> DEFINE rows == {i \in mgr.rows : IsActive(i)}
  <2>1. /\ UNCHANGED <<clock, sessions, conn>> /\ mgr.phase = "begun"
        /\ mgr'.phase = "settle" /\ mgr'.rows = rows /\ mgr'.todo = rows
        /\ mgr'.stamp = clock /\ mgr'.begin = mgr.begin
        /\ draftRows' = [i \in Ids |-> IF i \in rows THEN sessions[i] ELSE NoRow]
        /\ rows \subseteq Ids
    BY <1>0, <1>7 DEF TickLock, Elsewhere, Pass
  <2>2. MgrRows' = rows
    BY <2>1 DEF MgrRows, InTransaction
  <2>3. \A i \in rows : /\ draftRows'[i] = sessions[i]
                        /\ WithinTwice(sessions[i], clock)
                        /\ WithinTwice(sessions[i], mgr.begin)
                        /\ sessions[i].lastTick <= clock
    BY <2>1 DEF ChargesHold
  <2>4. mgr.begin <= clock
    BY <2>1 DEF ChargesHold
  <2> HIDE DEF rows
  <2> QED BY <1>0, <2>1, <2>2, <2>3, <2>4 DEF ChargesHold, IsActive
<1>8. CASE TickExhausted
  <2>1. /\ UNCHANGED <<clock, sessions, conn, draftRows>>
        /\ mgr'.phase = "end" /\ mgr'.stamp = mgr.stamp /\ mgr'.begin = mgr.begin
        /\ mgr'.todo = mgr.todo /\ InTransaction /\ MgrRows' = MgrRows
    BY <1>0, <1>8 DEF TickExhausted, Elsewhere, draftVars, MgrRows, InTransaction, Pass
  <2> QED BY <2>1 DEF ChargesHold, IsActive
<1>9. CASE \/ TickPoll \/ TickReview \/ TickSleep \/ TickAbort
           \/ \E m \in Macs : TickCut(m) \/ TickOrphan(m)
  <2>1. /\ UNCHANGED <<clock, sessions, conn>>
        /\ mgr'.phase \notin {"begun", "settle", "end"}
    <3>1. CASE TickPoll \/ TickReview
      BY <1>0, <3>1 DEF TickPoll, TickReview, Elsewhere, Pass
    <3>2. CASE TickSleep \/ TickAbort
      BY <3>2 DEF TickSleep, TickAbort, Elsewhere, Asleep
    <3>3. CASE \E m \in Macs : TickCut(m) \/ TickOrphan(m)
      BY <1>0, <3>3 DEF TickCut, TickOrphan, Elsewhere, Pass
    <3> QED BY <1>9, <3>1, <3>2, <3>3
  <2>2. MgrRows' = {} /\ ~InTransaction'
    BY <2>1 DEF MgrRows, InTransaction
  <2> QED BY <2>1, <2>2 DEF ChargesHold, IsActive
<1> QED BY <1>1, <1>2, <1>3, <1>4, <1>5, <1>6, <1>7, <1>8, <1>9
        DEF Next, TickStep, Environment

\* As long as no refresh sets last_tick back, every second of an open session is
\* charged twice at most.
THEOREM ChargedTwiceAtMostHolds ==
  Spec /\ RefreshGoesForward => []ChargedTwiceAtMost
<1>1. Init => ChargesHold
  BY DEF Init, ChargesHold, Idle, Asleep, MgrRows, InTransaction, IsActive, NoRow
<1>2. IInv /\ IInv' /\ ChargesHold /\ [Next]_vars /\ [Forward]_vars => ChargesHold'
  BY ChargesStep
<1>3. IInv /\ ChargesHold => ChargedTwiceAtMost
  <2> SUFFICES ASSUME IInv, ChargesHold, NEW i \in Ids, IsActive(i)
               PROVE  sessions[i].used <= 2 * (clock - sessions[i].started)
    BY DEF ChargedTwiceAtMost
  <2>1. /\ clock \in Nat /\ sessions[i].started \in Nat
        /\ sessions[i].lastTick \in Nat /\ sessions[i].used \in Nat
    BY ActiveIsRow DEF IInv, TypeOK, Row
  <2>2. /\ sessions[i].lastTick <= clock
        /\ sessions[i].used <= (clock - sessions[i].started)
                                 + (sessions[i].lastTick - sessions[i].started)
    BY DEF ChargesHold, WithinTwice
  <2> QED BY <2>1, <2>2
<1> QED BY <1>1, <1>2, <1>3, Invariance, PTL DEF Spec, RefreshGoesForward, Forward
=============================================================================
