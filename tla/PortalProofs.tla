---------------------------- MODULE PortalProofs ----------------------------
(***************************************************************************)
(* Theorems about Portal, for every set of accounts and however many       *)
(* polls, connects and logouts are under way at once.                      *)
(***************************************************************************)
EXTENDS Portal, TLAPS

\* The invariant every step keeps.
IInv == TypeOK /\ OnlyTheShownConnect

-----------------------------------------------------------------------------
(***************************************************************************)
(* Lemmas about the fetches and about what is shown.                       *)
(***************************************************************************)

\* A connect in flight has an account and is somebody's or nobody's.
LEMMA ConnectFields ==
  ASSUME NEW c \in Connect
  PROVE  /\ c.account \in Anyone /\ c.mine \in BOOLEAN
         /\ c # Idle
         /\ [c EXCEPT !.mine = FALSE] \in Connect
         /\ [c EXCEPT !.mine = FALSE].mine = FALSE
<1> DEFINE Sent == [pc : {"sent"}, account : Anyone, mine : BOOLEAN]
           Answered == [pc : {"answered"}, account : Anyone, mine : BOOLEAN, ok : BOOLEAN]
<1>1. CASE c \in Sent
  <2>1. /\ [c EXCEPT !.mine = FALSE] \in Sent
        /\ [c EXCEPT !.mine = FALSE].mine = FALSE
    BY <1>1
  <2>2. c.account \in Anyone /\ c.mine \in BOOLEAN /\ c.pc # Idle.pc
    BY <1>1 DEF Idle
  <2> QED BY <2>1, <2>2 DEF Connect
<1>2. CASE c \in Answered
  <2>1. /\ [c EXCEPT !.mine = FALSE] \in Answered
        /\ [c EXCEPT !.mine = FALSE].mine = FALSE
    BY <1>2
  <2>2. c.account \in Anyone /\ c.mine \in BOOLEAN /\ c.pc # Idle.pc
    BY <1>2 DEF Idle
  <2> QED BY <2>1, <2>2 DEF Connect
<1> QED BY <1>1, <1>2 DEF Connect

\* A connect is sent with the cookie of the moment, for who is on the screen.
LEMMA ConnectSentType ==
  ASSUME TypeOK, NEW k \in Connects, ConnectSent(k)
  PROVE  /\ connect' \in [Connects -> Connect \cup {Idle}]
         /\ connect'[k].account = cookie
         /\ \A j \in Connects : j # k => connect'[j] = connect[j]
<1>1. [pc |-> "sent", account |-> cookie, mine |-> TRUE] \in Connect
  BY DEF TypeOK, Connect
<1> QED BY <1>1 DEF TypeOK, ConnectSent

\* A poll is sent, or none is.
LEMMA PollSentType ==
  ASSUME TypeOK, NEW p \in Polls, PollSent(p)
  PROVE  poll' \in [Polls -> Poll \cup {Idle}]
<1>1. [pc |-> "sent", account |-> cookie] \in Poll
  BY DEF TypeOK, Poll
<1> QED BY <1>1 DEF TypeOK, PollSent

LEMMA RefreshType ==
  ASSUME TypeOK, Refresh
  PROVE  poll' \in [Polls -> Poll \cup {Idle}]
<1>1. CASE \E p \in Polls : PollSent(p)
  BY <1>1, PollSentType
<1>2. CASE UNCHANGED poll
  BY <1>2 DEF TypeOK
<1> QED BY <1>1, <1>2 DEF Refresh

\* OnlineStatus is on the screen or it has no state.
LEMMA StatusIs ==
  ASSUME TypeOK
  PROVE  /\ status \in Status <=> status.mounted
         /\ status.mounted \in BOOLEAN
         /\ Fresh \in Status
<1>1. Fresh \in Status
  BY DEF Status, Fresh
<1>2. Unmounted.mounted = FALSE
  BY DEF Unmounted
<1>3. \A s \in Status : s.mounted = TRUE
  BY DEF Status
<1>4. status \in Status \cup {Unmounted}
  BY DEF TypeOK
<1>5. CASE status \in Status
  BY <1>1, <1>3, <1>5
<1>6. CASE status = Unmounted
  BY <1>1, <1>2, <1>3, <1>6
<1> QED BY <1>4, <1>5, <1>6

\* What React makes of setUser and setBalance, when the account on the screen
\* stays, leaves or comes, and the cookie is not another's.
LEMMA ShowKeeps ==
  ASSUME IInv, NEW u \in Anyone, NEW b, Show(u, b),
         user \in {u, NoUser} \/ u = NoUser,
         u # NoUser => cookie \in {u, NoUser}
  PROVE  /\ user' = u /\ balance' = b
         /\ status' \in Status \cup {Unmounted}
         /\ connect' \in [Connects -> Connect \cup {Idle}]
         /\ status'.mounted => Shown(u, b)
         /\ \A k \in Connects : connect'[k] # Idle /\ connect'[k].mine
              => status'.mounted /\ connect'[k].account \in {u, NoUser}
<1> DEFINE now == IF status.mounted THEN status ELSE Fresh
<1>1. user' = u /\ balance' = b
  BY DEF Show
<1>2. now \in Status
  BY StatusIs DEF IInv
<1>3. \A k \in Connects : connect[k] \in Connect \cup {Idle}
  BY DEF IInv, TypeOK
<1>4. ASSUME Shown(u, b), NEW k \in Connects, connect[k] # Idle, connect[k].mine
      PROVE  connect[k].account \in {u, NoUser}
  BY <1>4 DEF IInv, OnlyTheShownConnect, Shown
<1>5. CASE ~Shown(u, b)
  <2>1. /\ status' = Unmounted
        /\ connect' = [k \in Connects |->
             IF connect[k] = Idle THEN Idle ELSE [connect[k] EXCEPT !.mine = FALSE]]
    BY <1>5 DEF Show
  <2>2. ~status'.mounted
    BY <2>1 DEF Unmounted
  <2>3. ASSUME NEW k \in Connects
        PROVE  /\ connect'[k] \in Connect \cup {Idle}
               /\ connect'[k] # Idle => ~connect'[k].mine
    BY <1>3, <2>1, ConnectFields
  <2> QED BY <1>1, <2>1, <2>2, <2>3
<1>6. CASE Shown(u, b) /\ ConnectsItself(b)
  <2>1. PICK k \in Connects : ConnectSent(k)
    BY <1>6 DEF Show
  <2>2. status' = [now EXCEPT !.tried = TRUE, !.busy = TRUE]
    BY <1>6 DEF Show
  <2>3. status' \in Status /\ status'.mounted
    <3> HIDE DEF now
    <3> QED BY <1>2, <2>2 DEF Status
  <2>4. /\ connect' \in [Connects -> Connect \cup {Idle}]
        /\ connect'[k].account = cookie
        /\ \A j \in Connects : j # k => connect'[j] = connect[j]
    BY <2>1, ConnectSentType DEF IInv
  <2>5. cookie \in {u, NoUser}
    BY <1>6 DEF Shown
  <2> QED BY <1>1, <1>4, <1>6, <2>3, <2>4, <2>5
<1>7. CASE Shown(u, b) /\ ~ConnectsItself(b)
  <2>1. status' = now /\ connect' = connect
    BY <1>7 DEF Show
  <2>2. status' \in Status /\ status'.mounted
    <3> HIDE DEF now
    <3> QED BY <1>2, <2>1 DEF Status
  <2>3. connect \in [Connects -> Connect \cup {Idle}]
    BY DEF IInv, TypeOK
  <2> QED BY <1>1, <1>4, <1>7, <2>1, <2>2, <2>3
<1> QED BY <1>5, <1>6, <1>7

-----------------------------------------------------------------------------
(***************************************************************************)
(* Every step keeps the invariant.                                         *)
(***************************************************************************)

\* The steps that show something.
LEMMA ShowStep ==
  ASSUME IInv, NEW u \in Anyone, NEW b \in Balance \cup {Unknown}, Show(u, b),
         user \in {u, NoUser} \/ u = NoUser,
         u # NoUser => cookie \in {u, NoUser},
         UNCHANGED <<serverVars, cookie, context>>,
         login' \in {login, Idle}, login' # Idle => u = NoUser,
         logout' \in [Logouts -> {"idle", "sent", "cleared"}],
         poll' \in [Polls -> Poll \cup {Idle}]
  PROVE  IInv'
<1>1. /\ user' = u /\ balance' = b
      /\ status' \in Status \cup {Unmounted}
      /\ connect' \in [Connects -> Connect \cup {Idle}]
      /\ status'.mounted => Shown(u, b)
      /\ \A k \in Connects : connect'[k] # Idle /\ connect'[k].mine
           => status'.mounted /\ connect'[k].account \in {u, NoUser}
  BY ShowKeeps
<1>2. TypeOK'
  BY <1>1 DEF IInv, TypeOK, serverVars
<1>3. login'.pc = "stored" => login' = login
  BY DEF Idle
<1>4. OnlyTheShownConnect'
  <2>1. login'.pc = "stored" => cookie' \in {login'.user, NoUser}
    BY <1>3 DEF IInv, OnlyTheShownConnect
  <2>2. Shown(user', balance') = Shown(u, b)
    BY <1>1 DEF Shown
  <2> QED BY <1>1, <2>1, <2>2 DEF OnlyTheShownConnect, Shown
<1> QED BY <1>2, <1>4 DEF IInv

\* The steps in which the page stays as it is and so does the cookie.
LEMMA PageStays ==
  ASSUME OnlyTheShownConnect, UNCHANGED <<cookie, pageVars, login>>,
         \A k \in Connects : connect'[k] # Idle =>
            /\ connect[k] # Idle
            /\ connect'[k].account = connect[k].account
            /\ connect'[k].mine = connect[k].mine
  PROVE  OnlyTheShownConnect'
<1>1. Shown(user, balance)' = Shown(user, balance)
  BY DEF Shown, pageVars
<1> QED BY <1>1 DEF OnlyTheShownConnect, pageVars

LEMMA ServerStep ==
  ASSUME IInv, Server
  PROVE  IInv'
<1>1. /\ UNCHANGED <<cookie, context, pageVars, login, logout, poll, connect>>
      /\ time' \subseteq Users /\ online' \subseteq Users
  BY DEF Server, Credit, Exhaust, Join, Leave, IInv, TypeOK
<1>2. TypeOK'
  BY <1>1 DEF IInv, TypeOK, pageVars
<1>3. OnlyTheShownConnect'
  BY <1>1, PageStays DEF IInv
<1> QED BY <1>2, <1>3 DEF IInv

LEMMA AccountStep ==
  ASSUME IInv, Account
  PROVE  IInv'
<1>1. /\ cookie \in Anyone /\ user \in Anyone /\ balance \in Balance \cup {Unknown}
      /\ logout \in [Logouts -> {"idle", "sent", "cleared"}]
      /\ poll \in [Polls -> Poll \cup {Idle}]
  BY DEF IInv, TypeOK
<1>2. login.pc \in {"sent", "stored"} => login \in [pc : {"sent", "stored"}, user : Users]
  BY DEF IInv, TypeOK, Loading, Idle
<1>3. ASSUME UNCHANGED <<serverVars, context, pageVars, poll, connect>>,
             login' \in [pc : {"sent", "stored"}, user : Users] \cup {Loading, Idle},
             logout' \in [Logouts -> {"idle", "sent", "cleared"}],
             cookie' \in Anyone,
             login' # Idle => user = NoUser,
             login'.pc = "stored" => cookie' \in {login'.user, NoUser},
             user # NoUser => cookie' \in {user, NoUser}
      PROVE  IInv'
  <2>1. TypeOK'
    BY <1>3 DEF IInv, TypeOK, serverVars, pageVars
  <2>2. Shown(user, balance)' = Shown(user, balance)
    BY <1>3 DEF Shown, pageVars
  <2>3. OnlyTheShownConnect'
    BY <1>3, <2>2 DEF IInv, OnlyTheShownConnect, pageVars
  <2> QED BY <2>1, <2>3 DEF IInv
<1>4. CASE Load
  <2>1. TypeOK'
    BY <1>4 DEF Load, IInv, TypeOK, serverVars, Anyone
  <2>2. \A k \in Connects : connect'[k] = Idle
    BY <1>4 DEF Load
  <2>3. OnlyTheShownConnect'
    BY <1>4, <2>2 DEF Load, OnlyTheShownConnect, Loading, Unmounted
  <2> QED BY <2>1, <2>3 DEF IInv
<1>5. CASE LoadDone
  <2>1. user = NoUser
    BY <1>5 DEF LoadDone, Loading, Idle, IInv, OnlyTheShownConnect
  <2>2. poll' \in [Polls -> Poll \cup {Idle}]
    BY <1>1, <1>5, RefreshType DEF LoadDone, IInv
  <2> QED BY <1>1, <1>5, <2>1, <2>2, ShowStep DEF LoadDone
<1>6. CASE \E u \in Users : LoginSend(u)
  <2>1. PICK u \in Users : LoginSend(u)
    BY <1>6
  <2>2. /\ login' = [pc |-> "sent", user |-> u] /\ user = NoUser
        /\ UNCHANGED <<serverVars, cookie, context, pageVars, logout, poll, connect>>
    BY <2>1 DEF LoginSend, MayLogin
  <2> QED BY <1>1, <1>3, <2>2
<1>7. CASE LoginCookie
  <2>1. /\ login' = [pc |-> "stored", user |-> login.user] /\ login.user \in Users
        /\ login # Idle
        /\ cookie' = login.user
        /\ UNCHANGED <<serverVars, context, pageVars, logout, poll, connect>>
    BY <1>2, <1>7 DEF LoginCookie, Idle
  <2>2. user = NoUser
    BY <2>1 DEF IInv, OnlyTheShownConnect
  <2> QED BY <1>1, <1>3, <2>1, <2>2 DEF Anyone
<1>8. CASE LoginDone
  <2>1. login.user \in Users /\ login # Idle
    BY <1>2, <1>8 DEF LoginDone, Idle
  <2>2. user = NoUser /\ cookie \in {login.user, NoUser}
    BY <1>8, <2>1 DEF LoginDone, IInv, OnlyTheShownConnect
  <2>3. poll' \in [Polls -> Poll \cup {Idle}]
    BY <1>8, RefreshType DEF LoginDone, IInv
  <2> QED BY <1>1, <1>8, <2>1, <2>2, <2>3, ShowStep DEF LoginDone, Anyone
<1>9. CASE LoginFail
  <2>1. /\ login' = Idle
        /\ UNCHANGED <<serverVars, cookie, context, pageVars, logout, poll, connect>>
    BY <1>9 DEF LoginFail
  <2>2. user # NoUser => cookie \in {user, NoUser}
    BY DEF IInv, OnlyTheShownConnect
  <2> QED BY <1>1, <1>3, <2>1, <2>2 DEF Idle
<1>10. ASSUME NEW l \in Logouts, SwitchNumber(l)
       PROVE  IInv'
  <2>1. /\ user # NoUser /\ Show(user, Unknown)
        /\ logout' = [logout EXCEPT ![l] = "sent"]
        /\ UNCHANGED <<serverVars, cookie, context, login, poll>>
    BY <1>10 DEF SwitchNumber
  <2>2. login = Idle /\ cookie \in {user, NoUser}
    BY <2>1 DEF IInv, OnlyTheShownConnect
  <2> QED BY <1>1, <2>1, <2>2, ShowStep
<1>11. ASSUME NEW l \in Logouts, LogoutCookie(l)
       PROVE  IInv'
  <2>1. /\ cookie' = NoUser
        /\ logout' = [logout EXCEPT ![l] = "cleared"]
        /\ UNCHANGED <<serverVars, context, pageVars, login, poll, connect>>
    BY <1>11 DEF LogoutCookie
  <2>2. login \in [pc : {"sent", "stored"}, user : Users] \cup {Loading, Idle}
    BY DEF IInv, TypeOK
  <2>3. login # Idle => user = NoUser
    BY DEF IInv, OnlyTheShownConnect
  <2> QED BY <1>1, <1>3, <2>1, <2>2, <2>3 DEF Anyone
<1>12. ASSUME NEW l \in Logouts, LogoutDone(l)
       PROVE  IInv'
  <2>1. /\ Show(NoUser, balance) /\ logout' = [logout EXCEPT ![l] = "idle"]
        /\ UNCHANGED <<serverVars, cookie, context, login, poll>>
    BY <1>12 DEF LogoutDone
  <2> QED BY <1>1, <2>1, ShowStep DEF Anyone
<1>13. ASSUME NEW l \in Logouts, LogoutFail(l)
       PROVE  IInv'
  <2>1. /\ logout' = [logout EXCEPT ![l] = "idle"]
        /\ UNCHANGED <<serverVars, cookie, context, pageVars, login, poll, connect>>
    BY <1>13 DEF LogoutFail
  <2>2. login \in [pc : {"sent", "stored"}, user : Users] \cup {Loading, Idle}
    BY DEF IInv, TypeOK
  <2>3. /\ login # Idle => user = NoUser
        /\ login.pc = "stored" => cookie \in {login.user, NoUser}
        /\ user # NoUser => cookie \in {user, NoUser}
    BY DEF IInv, OnlyTheShownConnect
  <2> QED BY <1>1, <1>3, <2>1, <2>2, <2>3
<1> QED
  BY <1>4, <1>5, <1>6, <1>7, <1>8, <1>9, <1>10, <1>11, <1>12, <1>13 DEF Account

LEMMA PollingStep ==
  ASSUME IInv, Polling
  PROVE  IInv'
<1>1. /\ poll \in [Polls -> Poll \cup {Idle}]
      /\ logout \in [Logouts -> {"idle", "sent", "cleared"}] /\ user \in Anyone
  BY DEF IInv, TypeOK
<1>2. ASSUME UNCHANGED <<serverVars, cookie, context, pageVars, login, logout, connect>>,
             poll' \in [Polls -> Poll \cup {Idle}]
      PROVE  IInv'
  <2>1. TypeOK'
    BY <1>2 DEF IInv, TypeOK, serverVars, pageVars
  <2>2. OnlyTheShownConnect'
    BY <1>2, PageStays DEF IInv
  <2> QED BY <2>1, <2>2 DEF IInv
<1>3. PICK p \in Polls : \/ PollSend(p) \/ PollAnswer(p) \/ PollUnauthorized(p)
                         \/ PollFail(p) \/ PollDone(p)
  BY DEF Polling
<1>4. ASSUME NEW a \in Balance \cup {Unknown}
      PROVE  [pc |-> "answered", answer |-> a] \in Poll
  BY DEF Poll
<1>5. CASE PollSend(p)
  BY <1>2, <1>5, PollSentType DEF PollSend, IInv
<1>6. CASE PollAnswer(p)
  <2> DEFINE u == poll[p].account
             answer == [known |-> TRUE, time |-> u \in time, active |-> u \in online]
  <2>1. answer \in Balance
    BY DEF Balance
  <2>2. poll' = [poll EXCEPT ![p] = [pc |-> "answered", answer |-> answer]]
    BY <1>6 DEF PollAnswer
  <2>3. UNCHANGED <<serverVars, cookie, context, pageVars, login, logout, connect>>
    BY <1>6 DEF PollAnswer
  <2> HIDE DEF answer
  <2>4. poll' \in [Polls -> Poll \cup {Idle}]
    BY <1>1, <1>4, <2>1, <2>2
  <2> QED BY <1>2, <2>3, <2>4
<1>7. CASE PollUnauthorized(p) \/ PollFail(p)
  BY <1>1, <1>2, <1>4, <1>7 DEF PollUnauthorized, PollFail
<1>8. CASE PollDone(p)
  <2>1. poll[p].answer \in Balance \cup {Unknown}
    BY <1>1, <1>8 DEF PollDone, Poll, Idle
  <2>2. /\ poll' = [poll EXCEPT ![p] = Idle] /\ Show(user, poll[p].answer)
        /\ UNCHANGED <<serverVars, cookie, context, login, logout>>
    BY <1>8 DEF PollDone
  <2>3. /\ user # NoUser => cookie \in {user, NoUser}
        /\ login # Idle => user = NoUser
    BY DEF IInv, OnlyTheShownConnect
  <2> QED BY <1>1, <2>1, <2>2, <2>3, ShowStep
<1> QED BY <1>3, <1>5, <1>6, <1>7, <1>8

LEMMA ConnectingStep ==
  ASSUME IInv, Connecting
  PROVE  IInv'
<1>1. PICK k \in Connects : \/ ConnectClick(k) \/ ConnectOpens(k)
                            \/ ConnectRefused(k) \/ ConnectDone(k)
  BY DEF Connecting
<1>2. connect \in [Connects -> Connect \cup {Idle}]
  BY DEF IInv, TypeOK
<1>3. CASE ConnectClick(k)
  <2>1. /\ status.mounted /\ ConnectSent(k)
        /\ status' = [status EXCEPT !.busy = TRUE]
        /\ UNCHANGED <<serverVars, cookie, context, user, balance, login, logout, poll>>
    BY <1>3 DEF ConnectClick
  <2>2. status' \in Status /\ status'.mounted
    <3>1. status \in Status
      BY <2>1, StatusIs DEF IInv
    <3> QED BY <2>1, <3>1 DEF Status
  <2>3. /\ connect' \in [Connects -> Connect \cup {Idle}]
        /\ connect'[k].account = cookie
        /\ \A j \in Connects : j # k => connect'[j] = connect[j]
    BY <2>1, ConnectSentType DEF IInv
  <2>4. cookie \in {user, NoUser} /\ Shown(user, balance)
    BY <2>1 DEF IInv, OnlyTheShownConnect, Shown
  <2>5. TypeOK'
    BY <2>1, <2>2, <2>3 DEF IInv, TypeOK, serverVars
  <2>6. OnlyTheShownConnect'
    BY <2>1, <2>2, <2>3, <2>4 DEF IInv, OnlyTheShownConnect, Shown
  <2> QED BY <2>5, <2>6 DEF IInv
<1>4. ASSUME NEW ok \in BOOLEAN, connect[k].pc = "sent",
             connect' = [connect EXCEPT ![k] =
               [pc |-> "answered", account |-> @.account, mine |-> @.mine, ok |-> ok]],
             UNCHANGED <<cookie, context, pageVars, login, logout, poll>>,
             time' \subseteq Users, online' \subseteq Users
      PROVE  IInv'
  <2> DEFINE answered == [pc |-> "answered", account |-> connect[k].account,
                          mine |-> connect[k].mine, ok |-> ok]
  <2>1. connect[k] # Idle /\ connect[k] \in Connect
    BY <1>2, <1>4 DEF Idle
  <2>2. answered \in Connect
    BY <2>1, ConnectFields DEF Connect
  <2>3. /\ connect' = [connect EXCEPT ![k] = answered]
        /\ answered.account = connect[k].account /\ answered.mine = connect[k].mine
    BY <1>4
  <2> HIDE DEF answered
  <2>4. connect' \in [Connects -> Connect \cup {Idle}]
    BY <1>2, <2>2, <2>3
  <2>5. TypeOK'
    BY <1>4, <2>4 DEF IInv, TypeOK, pageVars
  <2>6. OnlyTheShownConnect'
    BY <1>2, <1>4, <2>1, <2>3, PageStays DEF IInv
  <2> QED BY <2>5, <2>6 DEF IInv
<1>5. time \subseteq Users /\ online \subseteq Users
  BY DEF IInv, TypeOK
<1>6. CASE ConnectOpens(k)
  BY <1>4, <1>5, <1>6 DEF ConnectOpens
<1>7. CASE ConnectRefused(k)
  BY <1>4, <1>5, <1>7 DEF ConnectRefused, serverVars
<1>8. CASE ConnectDone(k)
  <2>1. /\ connect[k].pc = "answered" /\ connect' = [connect EXCEPT ![k] = Idle]
        /\ status' = IF connect[k].mine
                       THEN [status EXCEPT !.busy = FALSE,
                                           !.connected = @ \/ connect[k].ok]
                       ELSE status
        /\ UNCHANGED <<serverVars, cookie, context, user, balance, login, logout>>
    BY <1>8 DEF ConnectDone
  <2>2. poll' \in [Polls -> Poll \cup {Idle}]
    BY <1>8, RefreshType DEF ConnectDone, IInv, TypeOK
  <2>3. connect[k] # Idle /\ connect[k].ok \in BOOLEAN
    BY <1>2, <2>1 DEF Connect, Idle
  <2>4. status' \in Status \cup {Unmounted} /\ status'.mounted = status.mounted
    <3>1. CASE ~connect[k].mine
      BY <2>1, <3>1 DEF IInv, TypeOK
    <3>2. CASE connect[k].mine
      <4>1. status \in Status
        BY <2>3, <3>2, StatusIs DEF IInv, OnlyTheShownConnect
      <4>2. status' = [status EXCEPT !.busy = FALSE,
                                     !.connected = @ \/ connect[k].ok]
        BY <2>1, <3>2
      <4> QED BY <2>3, <4>1, <4>2 DEF Status
    <3> QED BY <3>1, <3>2
  <2>5. TypeOK'
    BY <1>2, <2>1, <2>2, <2>4 DEF IInv, TypeOK, serverVars
  <2>6. OnlyTheShownConnect'
    BY <1>2, <2>1, <2>4 DEF IInv, OnlyTheShownConnect, Shown
  <2> QED BY <2>5, <2>6 DEF IInv
<1> QED BY <1>1, <1>3, <1>6, <1>7, <1>8

LEMMA Invariance == Spec => []IInv
<1>1. Init => IInv
  <2> SUFFICES ASSUME Init
               PROVE  IInv
    OBVIOUS
  <2>1. TypeOK
    BY DEF Init, TypeOK, Anyone
  <2>2. \A k \in Connects : connect[k] = Idle
    BY DEF Init
  <2>3. OnlyTheShownConnect
    BY <2>2 DEF Init, OnlyTheShownConnect, Loading, Unmounted
  <2> QED BY <2>1, <2>3 DEF IInv
<1>2. IInv /\ [Next]_vars => IInv'
  <2> SUFFICES ASSUME IInv, [Next]_vars
               PROVE  IInv'
    OBVIOUS
  <2>1. CASE Next
    BY <2>1, ServerStep, AccountStep, PollingStep, ConnectingStep DEF Next
  <2>2. CASE UNCHANGED vars
    <3>1. TypeOK'
      BY <2>2 DEF vars, serverVars, pageVars, IInv, TypeOK
    <3>2. OnlyTheShownConnect'
      BY <2>2, PageStays DEF vars, IInv
    <3> QED BY <3>1, <3>2 DEF IInv
  <2> QED BY <2>1, <2>2
<1> QED BY <1>1, <1>2, PTL DEF Spec

-----------------------------------------------------------------------------
(***************************************************************************)
(* The theorems.                                                           *)
(***************************************************************************)

\* The page's state stays in its types: a connect never writes to an
\* OnlineStatus that is gone.
THEOREM TypeCorrect == Spec => []TypeOK
BY Invariance, PTL DEF IInv

\* Whatever answers are late, one account is on the screen and its cookie is
\* the one that acts, or none does.
THEOREM OneAccountOnScreenHolds == Spec => []OneAccountOnScreen
<1>1. IInv => OneAccountOnScreen
  BY DEF IInv, OnlyTheShownConnect, OneAccountOnScreen
<1> QED BY <1>1, Invariance, PTL
=============================================================================
