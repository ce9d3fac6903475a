------------------------------ MODULE Sessions ------------------------------
(***************************************************************************)
(* The backend's SessionsService: POST /session/connect and the admin's    *)
(* kick.  Every await is a point where other requests, the session manager *)
(* and OpenNDS may run, so each handler is one action per database         *)
(* statement or ndsctl call that can be interleaved with.                  *)
(***************************************************************************)
EXTENDS CafeState

\* The signature verifies and no kick of this MAC is recent; the check is a
\* query of its own, before the transaction.
ConnectStart(c, u, m) ==
  /\ conn[c] = Idle
  /\ ~RecentlyKicked(m)
  /\ conn' = [conn EXCEPT ![c] =
       [pc |-> "checked", user |-> u, mac |-> m, at |-> clock, session |-> 0]]
  /\ UNCHANGED <<clock, accountVars, sessions, authed, kicking, mgr, draftVars>>

\* The row of `alreadyActive', or 0.
OwnSession(u, m) ==
  LET own == Active(u) \cap ActiveOn(m)
  IN IF own = {} THEN 0 ELSE CHOOSE i \in own : TRUE

\* SELECT the account and its active sessions FOR UPDATE.  The transaction
\* began some time between the check and now.
ConnectMayLock(c) ==
  /\ conn[c].pc = "checked"
  /\ UserFree(conn[c].user)
  /\ \A i \in Active(conn[c].user) : RowFree(i)

\* Mutant: no balance check.
ConnectAllowed_Mutant(u, m) ==
  OwnSession(u, m) = 0 => Cardinality(Active(u)) < limit[u]

\* Balance and device limit allow the device.
ConnectAllowed(u, m) ==
  /\ balance[u] > 0
  /\ OwnSession(u, m) = 0 => Cardinality(Active(u)) < limit[u]

ConnectLock(c) ==
  /\ ConnectMayLock(c)
  /\ ConnectAllowed(conn[c].user, conn[c].mac)
  /\ \E begin \in conn[c].at..clock :
       /\ clock <= begin + ConnectTime
       /\ conn' = [conn EXCEPT
            ![c].pc = "locked", ![c].at = begin,
            ![c].session = OwnSession(conn[c].user, conn[c].mac)]
  /\ UNCHANGED <<clock, accountVars, sessions, authed, kicking, mgr, draftVars>>

\* "No time left" or "Device limit reached": nothing changes.
ConnectRefuse(c) ==
  /\ ConnectMayLock(c)
  /\ ~ConnectAllowed(conn[c].user, conn[c].mac)
  /\ conn' = [conn EXCEPT ![c] = Idle]
  /\ UNCHANGED <<clock, accountVars, sessions, authed, kicking, mgr, draftVars>>

\* The device is online already: refresh its row and COMMIT.
ConnectRefresh(c) ==
  /\ conn[c].pc = "locked"
  /\ conn[c].session # 0
  /\ sessions' = [sessions EXCEPT ![conn[c].session].lastTick = conn[c].at]
  /\ conn' = [conn EXCEPT ![c].pc = "auth"]
  /\ UNCHANGED <<clock, accountVars, authed, kicking, mgr, draftVars>>

FreeIds == {i \in Ids : sessions[i] = NoRow}

NewRow(u, m, begin) ==
  [status |-> "active", user |-> u, mac |-> m, started |-> begin,
   lastTick |-> begin, used |-> 0, ended |-> 0]

\* Mutant: only the account's own session of the MAC.
Displaced_Mutant(c) == ActiveOn(conn[c].mac) \cap Active(conn[c].user)

\* The active session of the MAC, whichever account it is under.
Displaced(c) == ActiveOn(conn[c].mac)

\* End the session the MAC has under another account, insert the new row
\* with the next key, and COMMIT.
ConnectOpen(c) ==
  /\ conn[c].pc = "locked"
  /\ conn[c].session = 0
  /\ \A i \in Displaced(c) : RowFree(i)
  /\ \E id \in FreeIds :
       /\ \A i \in FreeIds : id <= i
       /\ sessions' = [i \in Ids |->
            IF i = id THEN NewRow(conn[c].user, conn[c].mac, conn[c].at)
            ELSE IF i \in Displaced(c)
                   THEN Closed(sessions[i], "ended", 0)
                   ELSE sessions[i]]
       /\ conn' = [conn EXCEPT ![c].pc = "auth", ![c].session = id]
  /\ UNCHANGED <<clock, accountVars, authed, kicking, mgr, draftVars>>

\* A statement fails (deadlock victim, unique index on the active MAC, lost
\* connection): ROLLBACK.
ConnectAbort(c) ==
  /\ conn[c].pc \in {"checked", "locked"}
  /\ conn' = [conn EXCEPT ![c] = Idle]
  /\ UNCHANGED <<clock, accountVars, sessions, authed, kicking, mgr, draftVars>>

\* ndsctl auth takes effect; the audit record and the answer follow.
ConnectAuth(c) ==
  /\ conn[c].pc = "auth"
  /\ authed' = authed \cup {conn[c].mac}
  /\ conn' = [conn EXCEPT ![c] = Idle]
  /\ UNCHANGED <<clock, accountVars, sessions, kicking, mgr, draftVars>>

\* ndsctl auth fails without effect: the error reaches the client, the
\* committed session row stays.
ConnectAuthFail(c) ==
  /\ conn[c].pc = "auth"
  /\ conn' = [conn EXCEPT ![c] = Idle]
  /\ UNCHANGED <<clock, accountVars, sessions, authed, kicking, mgr, draftVars>>

-----------------------------------------------------------------------------
\* Kick deauthorizes first; a failing ndsctl is only logged.
KickDeauth(m) ==
  /\ m \notin kicking /\ Cardinality(kicking) < MaxKicks
  /\ authed' \in {authed \ {m}, authed}
  /\ kicking' = kicking \cup {m}
  /\ UNCHANGED <<clock, accountVars, sessions, conn, mgr, draftVars>>

\* Then the UPDATE marks the active session of the MAC, once its row is free.
KickMark(m) ==
  /\ m \in kicking
  /\ \A i \in ActiveOn(m) : RowFree(i)
  /\ sessions' = [i \in Ids |->
       IF i \in ActiveOn(m) THEN Closed(sessions[i], "kicked", clock)
       ELSE sessions[i]]
  /\ kicking' = kicking \ {m}
  /\ UNCHANGED <<clock, accountVars, authed, conn, mgr, draftVars>>

\* The UPDATE marks nothing: it failed, or it waited for the row of a session
\* that a connect then displaced, and does not see the new one.
KickMiss(m) ==
  /\ m \in kicking
  /\ kicking' = kicking \ {m}
  /\ UNCHANGED <<clock, accountVars, sessions, authed, conn, mgr, draftVars>>

\* The backend dies: open transactions roll back, handlers never go on, and
\* systemd starts it again.
BackendCrash ==
  /\ \/ \E c \in Calls : conn[c] # Idle
     \/ kicking # {}
  /\ conn' = [c \in Calls |-> Idle]
  /\ kicking' = {}
  /\ UNCHANGED <<clock, accountVars, sessions, authed, mgr, draftVars>>
=============================================================================
