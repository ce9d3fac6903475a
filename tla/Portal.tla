------------------------------- MODULE Portal -------------------------------
(***************************************************************************)
(* The customer's page in the browser of one device: who is logged in, the *)
(* balance it shows, and when it connects the device.  Every fetch is a    *)
(* step when it is sent, when the backend answers and when the answer is   *)
(* used; nothing but a reload cancels a fetch, and answers arrive in any   *)
(* order.                                                                  *)
(*                                                                         *)
(* Of the backend there is only what the page can tell apart: whether an   *)
(* account has time, and whether it has a device online.                   *)
(***************************************************************************)
EXTENDS Naturals

CONSTANTS
  Users,     \* customer accounts
  NoUser,    \* nobody
  Polls,     \* bound: GET /me/balance in flight, numbered
  Connects,  \* bound: POST /session/connect in flight
  Logouts    \* bound: POST /auth/logout in flight

ASSUME PortalAssumption == NoUser \notin Users /\ Polls \subseteq Nat

VARIABLES
  time,      \* accounts with remaining_seconds > 0
  online,    \* accounts with active_devices > 0, this device or others
  cookie,    \* the account the JWT cookie names, or NoUser
  context,   \* whether localStorage has a signed FAS context
  user,      \* AuthContext's user, or NoUser
  balance,   \* ClientPortal's balance
  status,    \* OnlineStatus's state, or Unmounted
  login,     \* GET /auth/me of the load, or POST /auth/client
  logout, poll, connect          \* the other fetches in flight

serverVars == <<time, online>>
pageVars   == <<user, balance, status>>
vars ==
  <<serverVars, cookie, context, pageVars, login, logout, poll, connect>>

Anyone == Users \cup {NoUser}

Idle == [pc |-> "idle"]
Loading == [pc |-> "loading"]
Unknown == [known |-> FALSE]
Unmounted == [mounted |-> FALSE]

\* Mutant: a state that starts undefined.
Fresh_Mutant == [mounted |-> TRUE, tried |-> FALSE, busy |-> FALSE]

\* OnlineStatus's state when it is mounted.
Fresh == [mounted |-> TRUE, tried |-> FALSE, connected |-> FALSE, busy |-> FALSE]

\* GET /me/balance.
Balance == [known : {TRUE}, time : BOOLEAN, active : BOOLEAN]
Status ==
  [mounted : {TRUE}, tried : BOOLEAN, connected : BOOLEAN, busy : BOOLEAN]

\* `account' is the account of the cookie a fetch was sent with; `mine' is
\* whether the OnlineStatus that sent a connect is still mounted.
Poll ==
  [pc : {"sent"}, account : Anyone]
    \cup [pc : {"answered"}, answer : Balance \cup {Unknown}]
Connect ==
  [pc : {"sent"}, account : Anyone, mine : BOOLEAN]
    \cup [pc : {"answered"}, account : Anyone, mine : BOOLEAN, ok : BOOLEAN]

TypeOK ==
  /\ time \subseteq Users /\ online \subseteq Users
  /\ {cookie, user} \subseteq Anyone
  /\ context \in BOOLEAN
  /\ balance \in Balance \cup {Unknown}
  /\ status \in Status \cup {Unmounted}
  /\ login \in [pc : {"sent", "stored"}, user : Users] \cup {Loading, Idle}
  /\ logout \in [Logouts -> {"idle", "sent", "cleared"}]
  /\ poll \in [Polls -> Poll \cup {Idle}]
  /\ connect \in [Connects -> Connect \cup {Idle}]

Init ==
  /\ time = {} /\ online = {}
  /\ cookie = NoUser /\ context \in BOOLEAN
  /\ user = NoUser /\ balance = Unknown /\ status = Unmounted
  /\ login = Loading
  /\ logout = [l \in Logouts |-> "idle"]
  /\ poll = [p \in Polls |-> Idle]
  /\ connect = [k \in Connects |-> Idle]

-----------------------------------------------------------------------------
(***************************************************************************)
(* The backend, and other devices.                                         *)
(***************************************************************************)

\* A voucher, an approval or a grant.
Credit(u) ==
  /\ u \notin time
  /\ time' = time \cup {u}
  /\ UNCHANGED <<online, cookie, context, pageVars, login, logout, poll, connect>>

\* The session manager takes the last second: no session of the account is left.
Exhaust(u) ==
  /\ u \in time
  /\ time' = time \ {u}
  /\ online' = online \ {u}
  /\ UNCHANGED <<cookie, context, pageVars, login, logout, poll, connect>>

\* Another device of the account connects.
Join(u) ==
  /\ u \in time
  /\ online' = online \cup {u}
  /\ UNCHANGED <<time, cookie, context, pageVars, login, logout, poll, connect>>

\* The account's last session ends: a kick, or its device is gone.
Leave(u) ==
  /\ online' = online \ {u}
  /\ UNCHANGED <<time, cookie, context, pageVars, login, logout, poll, connect>>

-----------------------------------------------------------------------------
(***************************************************************************)
(* What the page shows.  OnlineStatus is mounted while the balance on the  *)
(* screen has time, and its effect may connect the device by itself.       *)
(***************************************************************************)

\* Mutant: OnlineStatus stays on the screen when nobody is logged in.
Shown_Mutant(u, b) == b.known /\ b.time

Shown(u, b) == u # NoUser /\ b.known /\ b.time

\* Mutant: the effect runs when OnlineStatus is mounted and never again.
ConnectsItself_Mutant(b) == context /\ ~b.active /\ ~status.mounted

\* The condition of the effect.
ConnectsItself(b) ==
  context /\ ~b.active /\ (status.mounted => ~status.tried)

\* A fetch leaves with the cookie of the moment; polls take the first number
\* that is free, as it does not matter which.
ConnectSent(k) ==
  /\ connect[k] = Idle
  /\ connect' = [connect EXCEPT ![k] =
       [pc |-> "sent", account |-> cookie, mine |-> TRUE]]

PollSent(p) ==
  /\ poll[p] = Idle /\ \A q \in Polls : q < p => poll[q] # Idle
  /\ poll' = [poll EXCEPT ![p] = [pc |-> "sent", account |-> cookie]]

\* refresh() outside the interval; beyond the bound it is left out, and the
\* interval makes up for it.
Refresh ==
  IF \E p \in Polls : poll[p] = Idle THEN \E p \in Polls : PollSent(p)
  ELSE UNCHANGED poll

\* setUser and setBalance, and what React makes of them: an OnlineStatus that
\* is unmounted loses its state, and its connects find nobody to tell.
Show(u, b) ==
  LET now == IF status.mounted THEN status ELSE Fresh IN
  /\ user' = u
  /\ balance' = b
  /\ \/ /\ ~Shown(u, b)
        /\ status' = Unmounted
        /\ connect' = [k \in Connects |->
             IF connect[k] = Idle THEN Idle
             ELSE [connect[k] EXCEPT !.mine = FALSE]]
     \/ /\ Shown(u, b) /\ ConnectsItself(b)
        /\ status' = [now EXCEPT !.tried = TRUE, !.busy = TRUE]
        /\ \E k \in Connects : ConnectSent(k)
     \/ /\ Shown(u, b) /\ ~ConnectsItself(b)
        /\ status' = now
        /\ UNCHANGED connect

-----------------------------------------------------------------------------
\* The page is loaded, perhaps by the FAS redirect with a signed context.  The
\* fetches of the page before are dropped.
Load ==
  /\ context' \in {context, TRUE}
  /\ user' = NoUser /\ balance' = Unknown /\ status' = Unmounted
  /\ login' = Loading
  /\ logout' = [l \in Logouts |-> "idle"]
  /\ poll' = [p \in Polls |-> Idle]
  /\ connect' = [k \in Connects |-> Idle]
  /\ UNCHANGED <<serverVars, cookie>>

\* GET /auth/me names the account of the cookie.
LoadDone ==
  /\ login = Loading
  /\ login' = Idle
  /\ Show(cookie, balance)
  /\ IF cookie # NoUser THEN Refresh ELSE UNCHANGED poll
  /\ UNCHANGED <<serverVars, cookie, context, logout>>

\* NumberEntry is on the screen and not busy.
MayLogin == user = NoUser /\ login = Idle

LoginSend(u) ==
  /\ MayLogin
  /\ login' = [pc |-> "sent", user |-> u]
  /\ UNCHANGED <<serverVars, cookie, context, pageVars, logout, poll, connect>>

\* The answer's headers arrive: the browser stores the cookie.
LoginCookie ==
  /\ login.pc = "sent"
  /\ login' = [login EXCEPT !.pc = "stored"]
  /\ cookie' = login.user
  /\ UNCHANGED <<serverVars, context, pageVars, logout, poll, connect>>

\* setUser; the effect polls at once.
LoginDone ==
  /\ login.pc = "stored"
  /\ Show(login.user, balance)
  /\ login' = Idle
  /\ Refresh
  /\ UNCHANGED <<serverVars, cookie, context, logout>>

\* Unknown number, too many tries, no network; GET /auth/me may fail as well.
LoginFail ==
  /\ login = Loading \/ login.pc = "sent"
  /\ login' = Idle
  /\ UNCHANGED <<serverVars, cookie, context, pageVars, logout, poll, connect>>

\* "Not you? Switch client number", a button that is never disabled.
SwitchNumber(l) ==
  /\ user # NoUser
  /\ logout[l] = "idle"
  /\ logout' = [logout EXCEPT ![l] = "sent"]
  /\ Show(user, Unknown)
  /\ UNCHANGED <<serverVars, cookie, context, login, poll>>

LogoutCookie(l) ==
  /\ logout[l] = "sent"
  /\ logout' = [logout EXCEPT ![l] = "cleared"]
  /\ cookie' = NoUser
  /\ UNCHANGED <<serverVars, context, pageVars, login, poll, connect>>

LogoutDone(l) ==
  /\ logout[l] = "cleared"
  /\ logout' = [logout EXCEPT ![l] = "idle"]
  /\ Show(NoUser, balance)
  /\ UNCHANGED <<serverVars, cookie, context, login, poll>>

LogoutFail(l) ==
  /\ logout[l] = "sent"
  /\ logout' = [logout EXCEPT ![l] = "idle"]
  /\ UNCHANGED <<serverVars, cookie, context, pageVars, login, poll, connect>>

-----------------------------------------------------------------------------
\* Mutant: polling stops once there is a balance.
PollDue_Mutant == user # NoUser /\ ~balance.known

\* The interval runs as long as a customer is logged in.
PollDue == user # NoUser

\* Every five seconds.
PollSend(p) ==
  /\ PollDue
  /\ PollSent(p)
  /\ UNCHANGED <<serverVars, cookie, context, pageVars, login, logout, connect>>

\* The balance handler, its two SELECTs taken together.
PollAnswer(p) ==
  LET u == poll[p].account IN
  /\ poll[p].pc = "sent"
  /\ u # NoUser
  /\ poll' = [poll EXCEPT ![p] =
       [pc |-> "answered",
        answer |-> [known |-> TRUE, time |-> u \in time, active |-> u \in online]]]
  /\ UNCHANGED <<serverVars, cookie, context, pageVars, login, logout, connect>>

\* Without a cookie the guard answers 401; for the page, a failure as well.
PollUnauthorized(p) ==
  /\ poll[p].pc = "sent"
  /\ poll[p].account = NoUser
  /\ poll' = [poll EXCEPT ![p] = [pc |-> "answered", answer |-> Unknown]]
  /\ UNCHANGED <<serverVars, cookie, context, pageVars, login, logout, connect>>

\* The backend or the network fails.
PollFail(p) ==
  /\ poll[p].pc = "sent"
  /\ poll[p].account # NoUser
  /\ poll' = [poll EXCEPT ![p] = [pc |-> "answered", answer |-> Unknown]]
  /\ UNCHANGED <<serverVars, cookie, context, pageVars, login, logout, connect>>

\* setBalance: the answer, or null for an error.
PollDone(p) ==
  /\ poll[p].pc = "answered"
  /\ poll' = [poll EXCEPT ![p] = Idle]
  /\ Show(user, poll[p].answer)
  /\ UNCHANGED <<serverVars, cookie, context, login, logout>>

-----------------------------------------------------------------------------
\* "Connect this device": not on the screen of a device taken for online, and
\* useless without a context.
ConnectClick(k) ==
  /\ status.mounted /\ ~status.busy /\ context
  /\ ~status.connected /\ ~balance.active
  /\ status' = [status EXCEPT !.busy = TRUE]
  /\ ConnectSent(k)
  /\ UNCHANGED <<serverVars, cookie, context, user, balance, login, logout, poll>>

\* The backend opens or refreshes the session, and ndsctl auth works or not.
ConnectOpens(k) ==
  /\ connect[k].pc = "sent"
  /\ connect[k].account \in time
  /\ online' = online \cup {connect[k].account}
  /\ \E ok \in BOOLEAN :
       connect' = [connect EXCEPT ![k] =
         [pc |-> "answered", account |-> @.account, mine |-> @.mine, ok |-> ok]]
  /\ UNCHANGED <<time, cookie, context, pageVars, login, logout, poll>>

\* No cookie, no time, no place, kicked, or no network.
ConnectRefused(k) ==
  /\ connect[k].pc = "sent"
  /\ connect' = [connect EXCEPT ![k] =
       [pc |-> "answered", account |-> @.account, mine |-> @.mine, ok |-> FALSE]]
  /\ UNCHANGED <<serverVars, cookie, context, pageVars, login, logout, poll>>

\* setConnected and onRefresh, or the error; setBusy.
ConnectDone(k) ==
  /\ connect[k].pc = "answered"
  /\ connect' = [connect EXCEPT ![k] = Idle]
  /\ status' = IF connect[k].mine
                 THEN [status EXCEPT !.busy = FALSE,
                                     !.connected = @ \/ connect[k].ok]
                 ELSE status
  /\ IF connect[k].ok THEN Refresh ELSE UNCHANGED poll
  /\ UNCHANGED <<serverVars, cookie, context, user, balance, login, logout>>

-----------------------------------------------------------------------------
Server ==
  \E u \in Users : Credit(u) \/ Exhaust(u) \/ Join(u) \/ Leave(u)

Account ==
  \/ Load \/ LoadDone
  \/ \E u \in Users : LoginSend(u)
  \/ LoginCookie \/ LoginDone \/ LoginFail
  \/ \E l \in Logouts : \/ SwitchNumber(l) \/ LogoutCookie(l) \/ LogoutDone(l)
                        \/ LogoutFail(l)

Polling ==
  \E p \in Polls : \/ PollSend(p) \/ PollAnswer(p)
                   \/ PollUnauthorized(p) \/ PollFail(p) \/ PollDone(p)

Connecting ==
  \E k \in Connects : \/ ConnectClick(k) \/ ConnectOpens(k) \/ ConnectRefused(k)
                      \/ ConnectDone(k)

Next == Server \/ Account \/ Polling \/ Connecting

(***************************************************************************)
(* Fairness.  The interval fires for ever, every fetch is answered or      *)
(* fails, and every answer is used: strongly where the bound on connects   *)
(* may delay it.  The page is not reloaded for ever, and the network does  *)
(* not fail for ever.                                                      *)
(***************************************************************************)
Fairness ==
  /\ WF_vars(\E p \in Polls : PollSend(p))
  /\ \A p \in Polls :
       /\ WF_vars(PollAnswer(p) \/ PollUnauthorized(p) \/ PollFail(p))
       /\ SF_vars(PollDone(p))
  /\ \A k \in Connects :
       WF_vars(ConnectOpens(k) \/ ConnectRefused(k) \/ ConnectDone(k))
  /\ <>[][~Load /\ \A p \in Polls : ~PollFail(p)]_vars

Spec == Init /\ [][Next]_vars /\ Fairness

-----------------------------------------------------------------------------
\* Inductive strengthening of OneAccountOnScreen: a login is under way only when
\* nobody is on the screen, and no other account can take the cookie it stored;
\* OnlineStatus, and with it whoever waits for a connect, goes with the account.
OnlyTheShownConnect ==
  /\ login # Idle => user = NoUser
  /\ login.pc = "stored" => cookie \in {login.user, NoUser}
  /\ user # NoUser => cookie \in {user, NoUser}
  /\ status.mounted => Shown(user, balance)
  /\ \A k \in Connects : connect[k] # Idle /\ connect[k].mine
       => status.mounted /\ connect[k].account \in {user, NoUser}

\* Whatever answers are late, the page never shows one account while its cookie
\* acts for another, and a connect whose outcome it will show was sent for the
\* account it shows.
OneAccountOnScreen ==
  /\ user # NoUser => cookie \in {user, NoUser}
  /\ \A k \in Connects : connect[k] # Idle /\ connect[k].mine
       => connect[k].account \in {user, NoUser}

\* "the balance poll flips the view ... the moment time is credited": the page
\* comes to show whether the account on the screen has time, however many stale
\* answers, of it or of the account before, are still under way.
ViewFollowsBalance ==
  \A u \in Users, b \in BOOLEAN :
    (user = u /\ cookie = u /\ (u \in time) = b)
      ~> \/ user # u \/ cookie # u \/ (u \in time) # b
         \/ balance.known /\ balance.time = b

\* "and the device is authorized automatically": a device with a signed context
\* and an account with time tries to connect without a click, once no device of
\* the account is online.
DeviceTriesByItself ==
  \A u \in Users :
    (user = u /\ cookie = u /\ context /\ u \in time /\ u \notin online)
      ~> \/ user # u \/ cookie # u \/ u \notin time \/ u \in online
         \/ status.mounted /\ status.tried
=============================================================================
