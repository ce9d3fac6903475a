--------------------------- MODULE SessionManager ---------------------------
(***************************************************************************)
(* cybera-session-manager: the reconciliation pass `tick' that loop() runs *)
(* every SESSION_TICK_SECONDS.  A pass goes through the phases             *)
(*   sleep - polled - begun - settle - end - cut - orphans - sleep         *)
(* and its settlement transaction spans settle and end: what it writes     *)
(* there is a draft nobody else sees before TickCommit.                    *)
(***************************************************************************)
EXTENDS CafeState

\* Every phase but the named one leaves the rest of the system alone.
Elsewhere == UNCHANGED <<clock, limit, credited, conn, kicking>>

\* ndsctl json: the clients OpenNDS has authenticated at this moment.
TickPoll ==
  /\ mgr.phase = "sleep"
  /\ mgr' = [mgr EXCEPT !.phase = "polled", !.online = authed, !.stamp = clock]
  /\ UNCHANGED <<balance, sessions, authed, draftVars>> /\ Elsewhere

\* BEGIN, and the SELECT's snapshot of the active rows.  From here on now() of
\* the transaction is this moment.
TickBegin ==
  /\ mgr.phase = "polled"
  /\ mgr' = [mgr EXCEPT !.phase = "begun", !.begin = clock,
                        !.rows = {i \in Ids : IsActive(i)}]
  /\ UNCHANGED <<balance, sessions, authed, draftVars>> /\ Elsewhere

\* FOR UPDATE OF s, u has every lock: rows closed meanwhile drop out, the rest
\* are read in their latest version.  Then Date.now().
TickLock ==
  LET rows == {i \in mgr.rows : IsActive(i)} IN
  /\ mgr.phase = "begun"
  /\ \A i \in rows : RowFree(i) /\ UserFree(sessions[i].user)
  /\ mgr' = [mgr EXCEPT !.phase = "settle", !.rows = rows, !.todo = rows,
                        !.stamp = clock]
  /\ draftRows' = [i \in Ids |-> IF i \in rows THEN sessions[i] ELSE NoRow]
  /\ draftBalance' = [u \in Users |->
       IF u \in {sessions[i].user : i \in rows} THEN balance[u] ELSE 0]
  /\ UNCHANGED <<balance, sessions, authed>> /\ Elsewhere

Elapsed(row) == Monus(mgr.stamp, row.lastTick)

\* Mutants: no grace at all; the comparison the wrong way round.
Expired_NoGrace(row) == TRUE
Expired_Swapped(row) == row.started > mgr.stamp + Grace

\* Old enough to be closed when its MAC is not online.
Expired(row) == mgr.stamp > row.started + Grace

\* What the loop body makes of one row.
Settled(row) ==
  IF row.mac \notin mgr.online
    THEN IF Expired(row) THEN Closed(row, "ended", 0) ELSE row
    ELSE IF Elapsed(row) > 0
           THEN [row EXCEPT !.used = @ + Elapsed(row), !.lastTick = mgr.begin]
           ELSE row

\* What one row costs its account.
Charge(row) == IF row.mac \in mgr.online THEN Elapsed(row) ELSE 0

\* One round of the loop over the locked rows.
TickSettle ==
  /\ mgr.phase = "settle"
  /\ \E i \in mgr.todo :
       LET row == draftRows[i] IN
       /\ \A j \in mgr.todo : i <= j
       /\ draftRows' = [draftRows EXCEPT ![i] = Settled(row)]
       /\ draftBalance' =
            [draftBalance EXCEPT ![row.user] = Monus(@, Charge(row))]
       /\ mgr' = [mgr EXCEPT !.todo = @ \ {i}]
  /\ UNCHANGED <<balance, sessions, authed>> /\ Elsewhere

\* The sessions and balances as the transaction sees them.
Seen(i) == IF i \in mgr.rows THEN draftRows[i] ELSE sessions[i]
SeenBalance(u) == IF u \in MgrUsers THEN draftBalance[u] ELSE balance[u]

\* Mutant: only the rows the pass has locked.
Exhausted_Mutant ==
  {i \in mgr.rows : Seen(i).status = "active" /\ SeenBalance(Seen(i).user) = 0}

\* Active sessions of accounts without time.
Exhausted ==
  {i \in Ids : Seen(i).status = "active" /\ SeenBalance(Seen(i).user) = 0}

\* The second SELECT.  It takes no locks, and finds rows opened since the first
\* one as well.
TickExhausted ==
  /\ mgr.phase = "settle"
  /\ mgr.todo = {}
  /\ mgr' = [mgr EXCEPT !.phase = "end", !.cut = Exhausted]
  /\ UNCHANGED <<balance, sessions, authed, draftVars>> /\ Elsewhere

DropDraft ==
  /\ draftRows' = [i \in Ids |-> NoRow]
  /\ draftBalance' = [u \in Users |-> 0]

\* End the exhausted sessions by key, whatever their status is by now, and
\* COMMIT.
TickCommit ==
  /\ mgr.phase = "end"
  /\ \A i \in mgr.cut \ mgr.rows : RowFree(i)
  /\ sessions' = [i \in Ids |->
       IF i \in mgr.cut THEN Closed(Seen(i), "ended", 0) ELSE Seen(i)]
  /\ balance' = [u \in Users |-> SeenBalance(u)]
  /\ mgr' = [mgr EXCEPT !.phase = "cut", !.rows = {}, !.cut = {}, !.begin = 0,
                        !.stamp = 0, !.targets = {Seen(i).mac : i \in mgr.cut}]
  /\ DropDraft
  /\ UNCHANGED authed /\ Elsewhere

\* Deauthorize one device of an exhausted account; a failing ndsctl is only
\* logged.
TickCut(m) ==
  /\ mgr.phase = "cut"
  /\ m \in mgr.targets
  /\ authed' \in {authed \ {m}, authed}
  /\ mgr' = [mgr EXCEPT !.targets = @ \ {m}]
  /\ UNCHANGED <<balance, sessions, draftVars>> /\ Elsewhere

\* Mutant: clients that never had a session.
Orphans_Mutant ==
  {m \in mgr.online : \A i \in Ids : sessions[i] # NoRow => sessions[i].mac # m}

\* Polled clients without an active session.
Orphans == {m \in mgr.online : ActiveOn(m) = {}}

\* Read the active sessions again: polled clients without one are orphans.
TickReview ==
  /\ mgr.phase = "cut"
  /\ mgr.targets = {}
  /\ mgr' = [mgr EXCEPT !.phase = "orphans", !.online = {},
                        !.targets = Orphans]
  /\ UNCHANGED <<balance, sessions, authed, draftVars>> /\ Elsewhere

\* Deauthorize one orphan.
TickOrphan(m) ==
  /\ mgr.phase = "orphans"
  /\ m \in mgr.targets
  /\ authed' \in {authed \ {m}, authed}
  /\ mgr' = [mgr EXCEPT !.targets = @ \ {m}]
  /\ UNCHANGED <<balance, sessions, draftVars>> /\ Elsewhere

\* The pass is over; loop() sleeps.
TickSleep ==
  /\ mgr.phase = "orphans"
  /\ mgr.targets = {}
  /\ mgr' = Asleep
  /\ UNCHANGED <<balance, sessions, authed, draftVars>> /\ Elsewhere

\* A statement throws (in the transaction: ROLLBACK; in auditCutoff: the rest
\* of the cut is skipped), or the process dies and systemd restarts it.
TickAbort ==
  /\ mgr.phase # "sleep"
  /\ mgr' = Asleep
  /\ DropDraft
  /\ UNCHANGED <<balance, sessions, authed>> /\ Elsewhere
=============================================================================
