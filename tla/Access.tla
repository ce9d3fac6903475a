------------------------------- MODULE Access -------------------------------
(***************************************************************************)
(* The backend's session handlers and the session manager over one         *)
(* database and one OpenNDS, and what they guarantee together.             *)
(***************************************************************************)
EXTENDS Sessions, SessionManager

CONSTANT NoUser   \* not an account

ASSUME NoUserAssumption == NoUser \notin Users

ConnectStep(c) ==
  \/ \E u \in Users, m \in Macs : ConnectStart(c, u, m)
  \/ ConnectLock(c) \/ ConnectRefuse(c) \/ ConnectRefresh(c) \/ ConnectOpen(c)
  \/ ConnectAbort(c) \/ ConnectAuth(c) \/ ConnectAuthFail(c)

KickStep(m) == KickDeauth(m) \/ KickMark(m) \/ KickMiss(m)

TickStep ==
  \/ TickPoll \/ TickBegin \/ TickLock \/ TickSettle \/ TickExhausted
  \/ TickCommit \/ TickReview \/ TickSleep \/ TickAbort
  \/ \E m \in Macs : TickCut(m) \/ TickOrphan(m)

Environment ==
  \/ Advance
  \/ \E m \in Macs : NdsDrop(m)
  \/ \E u \in Users, g \in Grants : AddTime(u, g)

Next ==
  \/ \E c \in Calls : ConnectStep(c)
  \/ \E m \in Macs : KickStep(m)
  \/ BackendCrash
  \/ TickStep
  \/ Environment

Spec == Init /\ [][Next]_vars

(***************************************************************************)
(* Fairness.  Time passes.  A request past its BEGIN finishes: PostgreSQL  *)
(* answers or fails each statement and execFile gives up after 10 s.  The  *)
(* manager's loop catches every error and systemd restarts it, so passes   *)
(* recur for ever, and faults (a deadlock, a failing INSERT, a crash)      *)
(* interrupt finitely many of them; an abort of a pass that has nothing    *)
(* left to do is its end.  Strong fairness of TickLock stands for the      *)
(* queue of a PostgreSQL row lock; for the deauthorizations it says that   *)
(* ndsctl deauth does not fail for ever.                                   *)
(***************************************************************************)
ConnectEnds(c) ==
  \/ ConnectRefresh(c) \/ ConnectOpen(c)
  \/ conn[c].pc = "locked" /\ ConnectAbort(c)
  \/ ConnectAuth(c) \/ ConnectAuthFail(c)

TickGoesOn ==
  \/ TickPoll \/ TickBegin \/ TickSettle \/ TickExhausted \/ TickCommit
  \/ TickReview \/ TickSleep \/ \E m \in Macs : TickCut(m) \/ TickOrphan(m)

DeauthWorks(m) == (TickCut(m) \/ TickOrphan(m)) /\ m \notin authed'

Fairness ==
  /\ WF_vars(Advance)
  /\ \A c \in Calls : WF_vars(ConnectEnds(c))
  /\ WF_vars(TickGoesOn) /\ SF_vars(TickLock)
  /\ \A m \in Macs : SF_vars(DeauthWorks(m))
  /\ <>[][TickAbort => TickSleep]_vars

FairSpec == Spec /\ Fairness

-----------------------------------------------------------------------------
\* The balance and device checks of connect are made under locks that settle,
\* displacement and credits respect, so however requests and passes
\* interleave, an account never has more active sessions than its limit.
DeviceLimit == \A u \in Users : Cardinality(Active(u)) <= limit[u]

\* The pass that takes the last second closes all of the account's sessions in
\* the same transaction, those opened while it waited for locks included.
ZeroBalanceHasNoSession == \A u \in Users : balance[u] = 0 => Active(u) = {}

\* A device has one active session in the whole cafe, even when two accounts
\* connect it at once (what idx_sessions_active_mac demands).
OneSessionPerMac == \A m \in Macs : Cardinality(ActiveOn(m)) <= 1

\* No transaction, however old the snapshot it works from, revives a closed
\* session or charges it any more.
ClosedStaysClosed ==
  [][\A i \in Ids : sessions[i] # NoRow /\ ~IsActive(i) =>
       /\ sessions'[i].status \in {"ended", "kicked"}
       /\ sessions'[i].used = sessions[i].used]_vars

\* The seconds some rows record as consumed by an account, each one by its row
\* and its number.
Seconds(rows, u) ==
  UNION {{i} \X (1..rows[i].used) :
           i \in {j \in Ids : rows[j] # NoRow /\ rows[j].user = u}}

Used(u) == Cardinality(Seconds(sessions, u))

\* Every second credited is still in the balance or recorded as consumed: a
\* pass that aborts, or that settles while time is being bought, loses none.
NoSecondIsLost ==
  \A u \in Users : credited[u] <= balance[u] + Used(u)

\* The same of the sessions and balances as a pass sees them: the invariant
\* AccessProofs.tla uses.
SeenSessions == [i \in Ids |-> Seen(i)]

DraftLosesNoSecond ==
  InTransaction =>
    \A u \in Users :
      credited[u] <= SeenBalance(u) + Cardinality(Seconds(SeenSessions, u))

\* The account a device is online for.
Owner ==
  [m \in Macs |-> IF ActiveOn(m) = {} THEN NoUser
                  ELSE sessions[CHOOSE i \in ActiveOn(m) : TRUE].user]

Promise == INSTANCE Accounts WITH owner <- Owner

\* Requests, kicks and passes, in every interleaving, implement the accounts
\* the portal promises.
KeepsPromise == Promise!Spec

\* What the customer's page can tell apart of an account.
InTime == {u \in Users : balance[u] > 0}
Online == {u \in Users : Active(u) # {}}

\* The backend of Portal.tla, for one account and without the page.
Page(u) ==
  INSTANCE Portal WITH
    Users <- {u}, Polls <- {}, Connects <- {}, Logouts <- {},
    time <- InTime \cap {u}, online <- Online \cap {u},
    cookie <- NoUser, context <- FALSE, user <- NoUser, balance <- 0,
    status <- 0, login <- 0, logout <- 0, poll <- 0, connect <- 0

\* What Portal assumes of the backend is what sessions, passes and purchases do
\* to an account: in one step it gets time, or spends its last second and is
\* offline with all its devices, or comes online while it has time, or goes
\* offline; never does it come online with the time it gets.
FeedsPage ==
  [][\A u \in Users : Page(u)!Server \/ UNCHANGED Page(u)!serverVars]_vars

-----------------------------------------------------------------------------
(***************************************************************************)
(* Why it works: the inductive invariant AccessProofs.tla uses.            *)
(***************************************************************************)

\* What connect checked under its locks stays true until it commits.
ConnectChecksHold ==
  \A c \in Calls : conn[c].pc = "locked" =>
    LET u == conn[c].user
        s == conn[c].session
    IN /\ balance[u] > 0
       /\ u \notin MgrUsers
       /\ \A d \in Calls : LockedBy(d, u) => d = c
       /\ s = 0 => /\ Cardinality(Active(u)) < limit[u]
                  /\ \A i \in Active(u) : sessions[i].mac # conn[c].mac
       /\ s # 0 => s \in Active(u)

\* The rows a pass has locked stay active, and its draft is about them.
DraftMatches ==
  /\ InTransaction => mgr.todo \subseteq mgr.rows
  /\ \A i \in MgrRows : /\ IsActive(i)
                        /\ draftRows[i] \in Row
                        /\ draftRows[i].user = sessions[i].user
                        /\ draftRows[i].mac = sessions[i].mac

\* What the second SELECT found exhausted is still all there is at COMMIT.
CutIsComplete ==
  mgr.phase = "end" => /\ \A i \in mgr.cut : sessions[i] # NoRow
                       /\ Exhausted \subseteq mgr.cut

MacsDiffer ==
  \A i, j \in Ids :
    IsActive(i) /\ IsActive(j) /\ sessions[i].mac = sessions[j].mac => i = j

IInv ==
  /\ TypeOK
  /\ ConnectChecksHold
  /\ DraftMatches
  /\ CutIsComplete
  /\ MacsDiffer
  /\ DeviceLimit
  /\ ZeroBalanceHasNoSession

-----------------------------------------------------------------------------
\* OpenNDS does not go on letting through a device that has no session,
\* whichever deauthorization failed or was skipped: a later pass cuts it off.
OrphansAreCut ==
  \A m \in Macs : (m \in authed /\ ActiveOn(m) = {})
                     ~> (m \notin authed \/ ActiveOn(m) # {})

\* A session whose device is gone is closed, so that it stops taking one of
\* the account's places (sessions so young that the clock's bound ends before
\* their grace are left out).
GoneSessionsAreClosed ==
  \A i \in Ids :
    (IsActive(i) /\ sessions[i].mac \notin authed
                 /\ sessions[i].started + Grace < MaxClock)
      ~> (~IsActive(i) \/ sessions[i].mac \in authed)

\* As long as the connect that opened a session has yet to authorize its device,
\* no pass is about to close the session as gone, and a pass that polled OpenNDS
\* without the device will have its locks before the session's grace is over.
GraceCoversConnect ==
  \A c \in Calls :
    LET i == conn[c].session IN
    conn[c].pc = "auth" /\ IsActive(i) /\ conn[c].at = sessions[i].started =>
      /\ i \in MgrRows => draftRows[i].status # "ended"
      /\ mgr.phase \in {"polled", "begun"} =>
           mgr.stamp + PollTime <= sessions[i].started + Grace

\* The same for every row and clock: the invariant AccessProofs.tla uses.
TimesHold ==
  /\ \A c \in Calls :
       conn[c].pc \in {"locked", "auth"} => clock <= conn[c].at + ConnectTime
  /\ mgr.stamp <= clock
  /\ \A i \in MgrRows :
       IF draftRows[i].status = "ended"
         THEN mgr.stamp > sessions[i].started + Grace
         ELSE draftRows[i].started = sessions[i].started

-----------------------------------------------------------------------------
(***************************************************************************)
(* What comments of the code say and the code does not do.                 *)
(***************************************************************************)

\* "a server-side cooldown ... during which /session/connect refuses the MAC":
\* no connect opens or refreshes a session of a recently kicked MAC.
KickedMacIsRefused ==
  [][\A c \in Calls : conn[c].pc = "locked" /\ conn'[c].pc = "auth"
       => ~RecentlyKicked(conn[c].mac)]_vars

\* "a crash mid-pass can never double-charge": no session is charged for more
\* seconds than have passed since it was opened.
NotChargedTwice ==
  \A i \in Ids : IsActive(i) => sessions[i].used <= clock - sessions[i].started

-----------------------------------------------------------------------------
(***************************************************************************)
(* How much of it is true.                                                 *)
(***************************************************************************)

\* A refresh never sets last_tick back: its transaction began after the one of
\* the pass that charged the session last.
RefreshGoesForward ==
  [][\A c \in Calls :
       ConnectRefresh(c) => conn[c].at >= sessions[conn[c].session].lastTick]_vars

\* Then every second of a session is charged twice at most: a pass charges from
\* the beginning of the pass before it, which may have charged to a later moment,
\* but to none later than the beginning of this one.
ChargedTwiceAtMost ==
  \A i \in Ids :
    IsActive(i) => sessions[i].used <= 2 * (clock - sessions[i].started)

\* What a session with these times may have been charged when the passes before
\* have charged no moment after `now'.
WithinTwice(row, now) ==
  /\ row.started <= row.lastTick /\ row.started <= now
  /\ row.used <= (now - row.started) + (row.lastTick - row.started)

\* The invariant AccessProofs.tla uses: the rows a pass is about have been charged
\* for no moment after its BEGIN, until it settles them, and then for none after
\* its locks.
ChargesHold ==
  /\ \A c \in Calls : conn[c] # Idle => conn[c].at <= clock
  /\ mgr.phase = "begun" => mgr.begin <= clock
  /\ InTransaction => mgr.begin <= mgr.stamp /\ mgr.stamp <= clock
  /\ \A i \in Ids : IsActive(i) =>
       WithinTwice(sessions[i], clock) /\ sessions[i].lastTick <= clock
  /\ mgr.phase = "begun" => \A i \in mgr.rows :
       /\ sessions[i] # NoRow
       /\ IsActive(i) => WithinTwice(sessions[i], mgr.begin)
  /\ \A i \in MgrRows : draftRows[i].status = "active" =>
       /\ WithinTwice(draftRows[i], mgr.stamp)
       /\ draftRows[i].lastTick <= clock
       /\ i \in mgr.todo => WithinTwice(draftRows[i], mgr.begin)
=============================================================================
