----------------------------- MODULE CafeState -----------------------------
(***************************************************************************)
(* The state that the backend, the session manager and OpenNDS share: the  *)
(* rows of the `users' and `sessions' tables, the MACs OpenNDS has         *)
(* authenticated, and how far every request and every manager pass has     *)
(* got.  Sessions.tla and SessionManager.tla add the steps.                *)
(*                                                                         *)
(* A row lock (SELECT ... FOR UPDATE, or an UPDATE that has not committed) *)
(* is not a variable: who holds which row follows from where the           *)
(* transactions stand, and a statement that would wait for a row is a      *)
(* step whose guard says the row is free.                                  *)
(*                                                                         *)
(* Time is counted in the whole seconds Math.round leaves of the           *)
(* millisecond clocks.                                                     *)
(***************************************************************************)
EXTENDS Integers, FiniteSets

CONSTANTS
  Users,        \* customer accounts
  Macs,         \* devices, by lower-cased MAC address
  Calls,        \* requests POST /session/connect that can be in flight at once
  MaxKicks,     \* bound: kicks that can be in flight at once
  Grants,       \* what vouchers, plans and admins credit: [seconds, devices]
  Grace,        \* CONNECT_GRACE_MS
  Cooldown,     \* KICK_COOLDOWN_SECONDS
  ConnectTime,  \* longest time from BEGIN in connect to the answer of ndsctl auth
  PollTime,     \* longest time from `ndsctl json' to the row locks of the pass
  MaxSessions,  \* bound: rows the sessions table may hold
  MaxClock,     \* bound: the last value of the clock
  MaxCredit     \* bound: seconds that may be credited to one account

ASSUME NumbersAssumption ==
  /\ Grace \in Nat /\ Cooldown \in Nat
  /\ ConnectTime \in Nat /\ PollTime \in Nat
  /\ MaxKicks \in Nat /\ MaxSessions \in Nat
  /\ MaxClock \in Nat /\ MaxCredit \in Nat

\* GrantTimeDto, the vouchers and plans tables: at least a minute, one device.
ASSUME GrantsAssumption ==
  Grants \subseteq [seconds : Nat \ {0}, devices : Nat \ {0}]

VARIABLES
  clock,        \* seconds; Date.now() and now() of PostgreSQL are one clock
  balance,      \* users.remaining_seconds
  limit,        \* users.device_limit
  credited,     \* history: seconds ever credited to each account
  sessions,     \* the sessions table, by primary key
  authed,       \* MACs OpenNDS lets through
  conn,         \* each connect request in flight
  kicking,      \* MACs a kick has deauthorized but not yet marked
  mgr,          \* the session manager's pass
  draftRows,    \* the pass's uncommitted session rows ...
  draftBalance  \* ... and its uncommitted balances

accountVars == <<balance, limit, credited>>
draftVars   == <<draftRows, draftBalance>>
vars == <<clock, accountVars, sessions, authed, conn, kicking, mgr, draftVars>>

Ids == 1..MaxSessions

\* A primary key no row has yet.
NoRow == [status |-> "free"]

\* The columns a decision reads: started_at and last_tick are 0 once a row is
\* closed, and ended_at is 0 unless it was kicked, since nothing reads them.
Row ==
  [status : {"active", "ended", "kicked"}, user : Users, mac : Macs,
   started : Nat, lastTick : Nat, used : Nat, ended : Nat]

Idle == [pc |-> "idle"]

\* `at' is the time of the cool-down check, then of BEGIN; `session' is the
\* row connect refreshes (0 for none), then the row it refreshed or opened.
Call ==
  [pc : {"checked", "locked", "auth"}, user : Users, mac : Macs,
   at : Nat, session : Nat]

Asleep ==
  [phase |-> "sleep", online |-> {}, rows |-> {}, todo |-> {}, begin |-> 0,
   stamp |-> 0, cut |-> {}, targets |-> {}]

\* `stamp' is the time of the poll, then the Date.now() after the locks.
Pass ==
  [phase : {"sleep", "polled", "begun", "settle", "end", "cut", "orphans"},
   online : SUBSET Macs, rows : SUBSET Ids, todo : SUBSET Ids, begin : Nat,
   stamp : Nat, cut : SUBSET Ids, targets : SUBSET Macs]

NoDraft ==
  /\ draftRows = [i \in Ids |-> NoRow]
  /\ draftBalance = [u \in Users |-> 0]

TypeOK ==
  /\ clock \in Nat
  /\ balance \in [Users -> Nat]
  /\ limit \in [Users -> Nat]
  /\ credited \in [Users -> Nat]
  /\ sessions \in [Ids -> Row \cup {NoRow}]
  /\ authed \in SUBSET Macs
  /\ conn \in [Calls -> Call \cup {Idle}]
  /\ kicking \in SUBSET Macs
  /\ mgr \in Pass
  /\ draftRows \in [Ids -> Row \cup {NoRow}]
  /\ draftBalance \in [Users -> Nat]

Init ==
  /\ clock = 0
  /\ balance = [u \in Users |-> 0]
  /\ limit = [u \in Users |-> 1]
  /\ credited = [u \in Users |-> 0]
  /\ sessions = [i \in Ids |-> NoRow]
  /\ authed = {}
  /\ conn = [c \in Calls |-> Idle]
  /\ kicking = {}
  /\ mgr = Asleep
  /\ NoDraft

-----------------------------------------------------------------------------
IsActive(i) == sessions[i].status = "active"

\* The active rows of an account, and those of a device.
Active(u) == {i \in Ids : IsActive(i) /\ sessions[i].user = u}
ActiveOn(m) == {i \in Ids : IsActive(i) /\ sessions[i].mac = m}

\* The recentKick query of connect.
RecentlyKicked(m) ==
  \E i \in Ids : /\ sessions[i].status = "kicked"
                 /\ sessions[i].mac = m
                 /\ sessions[i].ended + Cooldown > clock

\* The locks of the settlement transaction, from its SELECT ... FOR UPDATE OF
\* s, u to its COMMIT.
InTransaction == mgr.phase \in {"settle", "end"}
MgrRows == IF InTransaction THEN mgr.rows ELSE {}
MgrUsers == {sessions[i].user : i \in MgrRows}

\* A connect transaction holds its account and that account's active rows.
LockedBy(c, u) == conn[c].pc = "locked" /\ conn[c].user = u

\* Mutants: a SELECT without FOR UPDATE, or an UPDATE that ignores row locks.
UserFree_Mutant(u) == TRUE
RowFree_Mutant(i) == TRUE

UserFree(u) == u \notin MgrUsers /\ \A c \in Calls : ~LockedBy(c, u)
RowFree(i) == i \notin MgrRows /\ \A c \in Calls : ~LockedBy(c, sessions[i].user)

Closed(row, status, time) ==
  [row EXCEPT !.status = status, !.started = 0, !.lastTick = 0, !.ended = time]

Larger(a, b) == IF a >= b THEN a ELSE b

\* Mutant: the subtraction without GREATEST.
Monus_Mutant(a, b) == a - b

\* GREATEST(0, a - b)
Monus(a, b) == IF a >= b THEN a - b ELSE 0

-----------------------------------------------------------------------------
(***************************************************************************)
(* Steps of the environment.                                               *)
(***************************************************************************)

\* One second passes.  A connect past BEGIN answers within ConnectTime, and a
\* pass locks its rows within PollTime of its poll.
Advance ==
  /\ clock < MaxClock
  /\ \A c \in Calls :
       conn[c].pc \in {"locked", "auth"} => clock < conn[c].at + ConnectTime
  /\ mgr.phase \in {"polled", "begun"} => clock < mgr.stamp + PollTime
  /\ clock' = clock + 1
  /\ UNCHANGED <<accountVars, sessions, authed, conn, kicking, mgr, draftVars>>

\* OpenNDS forgets an authenticated client: its session timeout elapsed, it
\* went idle, it left, or OpenNDS restarted.
NdsDrop(m) ==
  /\ m \in authed
  /\ authed' = authed \ {m}
  /\ UNCHANGED <<clock, accountVars, sessions, conn, kicking, mgr, draftVars>>

\* Redeeming a voucher, approving a request and an admin's grant all run the
\* same UPDATE of the account.
AddTime(u, g) ==
  /\ credited[u] + g.seconds <= MaxCredit
  /\ UserFree(u)
  /\ balance' = [balance EXCEPT ![u] = @ + g.seconds]
  /\ limit' = [limit EXCEPT ![u] = Larger(@, g.devices)]
  /\ credited' = [credited EXCEPT ![u] = @ + g.seconds]
  /\ UNCHANGED <<clock, sessions, authed, conn, kicking, mgr, draftVars>>
=============================================================================
