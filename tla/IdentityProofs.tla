--------------------------- MODULE IdentityProofs ---------------------------
(***************************************************************************)
(* Theorems about Identity, for every set of names, tabs, addresses and    *)
(* editions of .env.                                                       *)
(***************************************************************************)
EXTENDS Identity, TLAPS

Roles == {"customer", "admin"}
Ways == Tabs \cup {"password", "number"}

Hashing == [pc : {"hashing"}, name : Names]
FoundCall == [pc : {"found"}, name : Names, role : Roles, via : Ways]

\* What a call and the installation hold; no call without a backend.
CallsFit ==
  /\ call \in [Tabs -> {Idle} \cup Hashing \cup FoundCall]
  /\ running \notin Editions => \A t \in Tabs : call[t] = Idle
  /\ seeding \in [edition : Editions, step : {"none", "admin", "seats", "restart"}]

\* What earned a token, or the call that is to be answered with one.
Earned(n, role, via) ==
  /\ Exists(n)
  /\ via \in Tabs => accounts[n].by = via
  /\ role = "admin" => accounts[n].role = "admin" /\ via = "password"

\* A handler that has found an account signs for no more than the account is.
CallsAreEarned ==
  \A t \in Tabs : call[t].pc = "found"
    => Earned(call[t].name, call[t].role, call[t].via)

\* The signature that is stored was made for the address that was asked for.
SignedForItsOwn == ctx # None => ctx.signed = Signed(ctx.asked)

IInv ==
  /\ TypeOK /\ CallsFit
  /\ CallsAreEarned /\ TokensAreEarned /\ StaffOnly /\ SignedForItsOwn

-----------------------------------------------------------------------------
\* A step changes accounts only so far: none disappears, none is demoted, and
\* each keeps its maker.
Grow ==
  \A n \in Names : Exists(n) =>
    /\ Exists(n)'
    /\ accounts'[n].by = accounts[n].by
    /\ accounts[n].role = "admin" => accounts'[n].role = "admin"

\* Under such a step what was earned stays earned.
LEMMA EarnedStays ==
  ASSUME Grow, NEW n \in Names, NEW role, NEW via, Earned(n, role, via)
  PROVE  Earned(n, role, via)'
BY DEF Grow, Earned

\* A row of the table of accounts, and a missing one.
LEMMA AccountFields ==
  ASSUME TypeOK, NEW n \in Names
  PROVE  /\ Exists(n) => accounts[n] \in Account
         /\ accounts[n].role \in Roles => Exists(n)
         /\ accounts[n].pass = "known" => Exists(n) /\ accounts[n].role \in Roles
BY DEF TypeOK, Exists, Account, NoAccount, Roles

\* The invariant holds initially.
LEMMA InitStep == Init => IInv
<1> SUFFICES ASSUME Init
             PROVE  IInv
  OBVIOUS
<1>1. TypeOK
  BY IdentityAssumption DEF Init, TypeOK, Idle
<1>2. CallsFit
  BY IdentityAssumption DEF Init, CallsFit
<1>3. CallsAreEarned /\ TokensAreEarned /\ StaffOnly /\ SignedForItsOwn
  BY DEF Init, CallsAreEarned, TokensAreEarned, StaffOnly, SignedForItsOwn, Idle
<1> QED BY <1>1, <1>2, <1>3 DEF IInv

-----------------------------------------------------------------------------
(***************************************************************************)
(* One lemma per kind of step.                                             *)
(***************************************************************************)

\* Steps of an installation that write accounts.
LEMMA SeedStep ==
  ASSUME IInv, SeedAdmin \/ SeedSeats
  PROVE  IInv'
<1>1. UNCHANGED <<running, call, cookie, user, ctx, acts>>
  BY DEF SeedAdmin, SeedSeats
<1>2. accounts' \in [Names -> Account \cup {NoAccount}] /\ Grow
  <2>1. CASE SeedAdmin
    <3>1. seeding.edition.admin \in Names
      BY IdentityAssumption DEF IInv, CallsFit
    <3>2. PICK b : /\ accounts' = [accounts EXCEPT ![seeding.edition.admin] =
                        [role |-> "admin", pass |-> "known", by |-> b]]
                   /\ b = IF accounts[seeding.edition.admin] = NoAccount THEN "seed"
                          ELSE accounts[seeding.edition.admin].by
      BY <2>1 DEF SeedAdmin
    <3>3. b \in Tabs \cup {"seed"}
      BY <3>1, <3>2 DEF IInv, TypeOK, Account
    <3> QED BY <3>1, <3>2, <3>3 DEF IInv, TypeOK, Account, Grow, Exists, NoAccount
  <2>2. CASE SeedSeats
    BY <2>2 DEF SeedSeats, Seated, Seat, IInv, TypeOK, Account, Grow, Exists
  <2> QED BY <2>1, <2>2
<1>3. seeding' \in [edition : Editions, step : {"none", "admin", "seats", "restart"}]
  BY DEF IInv, CallsFit, SeedAdmin, SeedSeats
<1>4. TypeOK' /\ CallsFit'
  BY <1>1, <1>2, <1>3 DEF IInv, TypeOK, CallsFit
<1>5. CallsAreEarned'
  <2>1. ASSUME NEW t \in Tabs, call[t].pc = "found"
        PROVE  call[t].name \in Names
    BY <2>1 DEF IInv, CallsFit, Hashing, FoundCall, Idle
  <2> QED BY <1>1, <1>2, <2>1, EarnedStays DEF IInv, CallsAreEarned
<1>6. TokensAreEarned'
  BY <1>1, <1>2 DEF IInv, TypeOK, Token, TokensAreEarned, Grow
<1>7. StaffOnly'
  <2>1. \A n \in Names : accounts[n].role = "admin" => Exists(n)
    BY AccountFields DEF IInv, Roles
  <2> QED BY <1>1, <1>2, <2>1 DEF IInv, TypeOK, StaffOnly, Grow
<1> QED BY <1>1, <1>4, <1>5, <1>6, <1>7 DEF IInv, SignedForItsOwn

\* The other steps of an installation; a restart ends every call.
LEMMA InstallStep ==
  ASSUME IInv, (\E e \in Editions : Install(e)) \/ Restart \/ InstallFails
  PROVE  IInv'
<1>1. /\ UNCHANGED <<accounts, cookie, user, ctx, acts>>
      /\ seeding' \in [edition : Editions, step : {"none", "admin", "seats", "restart"}]
      /\ running' \in Editions \cup {None}
  BY DEF Install, Restart, InstallFails, IInv, TypeOK, CallsFit
<1>2. \/ UNCHANGED <<call, running>>
      \/ call' = [t \in Tabs |-> Idle]
  BY DEF Install, Restart, InstallFails
<1>3. TypeOK' /\ CallsFit'
  BY <1>1, <1>2 DEF IInv, TypeOK, CallsFit, Idle
<1>4. CallsAreEarned'
  BY <1>1, <1>2 DEF IInv, CallsAreEarned, Earned, Exists, Idle
<1> QED BY <1>1, <1>3, <1>4
        DEF IInv, TokensAreEarned, StaffOnly, SignedForItsOwn, Exists

\* The steps that set or end a call and leave accounts and tokens alone.
LEMMA CallStep ==
  ASSUME IInv, NEW t \in Tabs,
         NEW c \in {Idle} \cup Hashing \cup FoundCall,
         call' = [call EXCEPT ![t] = c],
         UNCHANGED <<accounts, running, seeding, cookie, user, ctx, acts>>,
         running \in Editions \/ c = Idle,
         c.pc = "found" => Earned(c.name, c.role, c.via)
  PROVE  IInv'
<1>1. c.pc \in {"idle", "hashing", "found"}
  BY DEF Idle, Hashing, FoundCall
<1>2. TypeOK' /\ CallsFit'
  BY <1>1 DEF IInv, TypeOK, CallsFit
<1>3. CallsAreEarned'
  BY DEF IInv, CallsFit, CallsAreEarned, Earned, Exists
<1> QED BY <1>2, <1>3 DEF IInv, TokensAreEarned, StaffOnly, SignedForItsOwn, Exists

\* The look-ups that begin a call find an account as it is.
LEMMA LookupStep ==
  ASSUME IInv, NEW t \in Tabs, NEW n \in Names,
         RegisterCheck(t, n) \/ Login(t, n) \/ ClientLogin(t, n)
  PROVE  IInv'
<1>1. running \in Editions
  BY DEF RegisterCheck, Login, ClientLogin, Calls, IInv, TypeOK
<1>2. CASE RegisterCheck(t, n)
  <2> DEFINE c == [pc |-> "hashing", name |-> n]
  <2>1. c \in Hashing /\ c.pc # "found"
    BY DEF Hashing
  <2>2. /\ call' = [call EXCEPT ![t] = c]
        /\ UNCHANGED <<accounts, running, seeding, cookie, user, ctx, acts>>
    BY <1>2 DEF RegisterCheck, Calls
  <2> HIDE DEF c
  <2> QED BY <1>1, <2>1, <2>2, CallStep
<1>3. CASE Login(t, n)
  <2> DEFINE c == Found(n, accounts[n].role, "password")
  <2>1. accounts[n].pass = "known"
    BY <1>3 DEF Login
  <2>2. Exists(n) /\ accounts[n].role \in Roles
    BY <2>1, AccountFields DEF IInv
  <2>3. c \in FoundCall /\ Earned(c.name, c.role, c.via)
    BY <2>2, IdentityAssumption DEF Found, FoundCall, Ways, Earned
  <2>4. /\ call' = [call EXCEPT ![t] = c]
        /\ UNCHANGED <<accounts, running, seeding, cookie, user, ctx, acts>>
    BY <1>3 DEF Login, Calls
  <2> HIDE DEF c
  <2> QED BY <1>1, <2>3, <2>4, CallStep
<1>4. CASE ClientLogin(t, n)
  <2> DEFINE c == Found(n, accounts[n].role, "number")
  <2>1. accounts[n].role = "customer"
    BY <1>4 DEF ClientLogin, OpensByNumber
  <2>2. Exists(n)
    BY <2>1, AccountFields DEF IInv, Roles
  <2>3. c \in FoundCall /\ Earned(c.name, c.role, c.via)
    BY <2>1, <2>2, IdentityAssumption DEF Found, FoundCall, Ways, Roles, Earned
  <2>4. /\ call' = [call EXCEPT ![t] = c]
        /\ UNCHANGED <<accounts, running, seeding, cookie, user, ctx, acts>>
    BY <1>4 DEF ClientLogin, Calls
  <2> HIDE DEF c
  <2> QED BY <1>1, <2>3, <2>4, CallStep
<1> QED BY <1>2, <1>3, <1>4

\* A registration inserts a new account or none.
LEMMA RegisterStep ==
  ASSUME IInv, NEW t \in Tabs, RegisterInsert(t)
  PROVE  IInv'
<1>0. PICK n \in Names : n = call[t].name
  BY DEF RegisterInsert, IInv, CallsFit, Hashing, FoundCall, Idle
<1>1. n \in Names /\ running \in Editions
  BY DEF RegisterInsert, IInv, CallsFit, Hashing, FoundCall, Idle
<1>2. UNCHANGED <<running, seeding, cookie, user, ctx, acts>>
  BY DEF RegisterInsert
<1>3. CASE NameFree(n)
  <2> DEFINE c == Found(n, "customer", t)
  <2>1. /\ accounts' = [accounts EXCEPT ![n] =
             [role |-> "customer", pass |-> "known", by |-> t]]
        /\ call' = [call EXCEPT ![t] = c]
    BY <1>0, <1>3 DEF RegisterInsert
  <2>2. /\ c \in FoundCall /\ c.pc = "found"
        /\ c.name = n /\ c.role = "customer" /\ c.via = t
    BY <1>1 DEF Found, FoundCall, Roles, Ways
  <2>3. accounts' \in [Names -> Account \cup {NoAccount}]
    BY <1>1, <2>1 DEF IInv, TypeOK, Account
  <2>4. accounts'[n] = [role |-> "customer", pass |-> "known", by |-> t]
    BY <1>1, <2>1 DEF IInv, TypeOK
  <2>5. Grow
    <3>1. \A m \in Names : Exists(m) => accounts'[m] = accounts[m]
      BY <1>1, <1>3, <2>1 DEF IInv, TypeOK, NameFree
    <3> QED BY <3>1 DEF Grow, Exists
  <2> HIDE DEF c
  <2>6. TypeOK' /\ CallsFit'
    BY <1>1, <1>2, <2>1, <2>2, <2>3 DEF IInv, TypeOK, CallsFit
  <2>7. CallsAreEarned'
    <3>1. Earned(c.name, c.role, c.via)'
      <4>1. accounts'[n] # NoAccount /\ accounts'[n].by = t
        BY <2>4 DEF NoAccount
      <4> QED BY <2>1, <2>2, <4>1 DEF Earned, Exists
    <3>2. call'[t] = c /\ \A s \in Tabs : s # t => call'[s] = call[s]
      BY <2>1 DEF IInv, CallsFit
    <3>3. ASSUME NEW s \in Tabs, s # t, call[s].pc = "found"
          PROVE  Earned(call[s].name, call[s].role, call[s].via)'
      <4>1. call[s].name \in Names
        BY <3>3 DEF IInv, CallsFit, Hashing, FoundCall, Idle
      <4>2. call'[s] = call[s]
        BY <3>2, <3>3
      <4> QED BY <2>5, <3>3, <4>1, <4>2, EarnedStays DEF IInv, CallsAreEarned
    <3> QED BY <3>1, <3>2, <3>3 DEF CallsAreEarned
  <2>8. TokensAreEarned'
    BY <1>2, <2>5 DEF IInv, TypeOK, Token, TokensAreEarned, Grow
  <2>9. StaffOnly'
    <3>1. \A m \in Names : accounts[m].role = "admin" => Exists(m)
      BY AccountFields DEF IInv, Roles
    <3> QED BY <1>2, <2>5, <3>1 DEF IInv, TypeOK, StaffOnly, Grow
  <2> QED BY <1>2, <2>6, <2>7, <2>8, <2>9 DEF IInv, SignedForItsOwn
<1>4. CASE ~NameFree(n)
  <2>1. /\ call' = [call EXCEPT ![t] = Idle] /\ UNCHANGED accounts
    BY <1>0, <1>4 DEF RegisterInsert
  <2>2. Idle.pc # "found"
    BY DEF Idle
  <2> QED BY <1>2, <2>1, <2>2, CallStep
<1> QED BY <1>3, <1>4

\* The answer makes a token of what the call has earned.
LEMMA AnswerStep ==
  ASSUME IInv, NEW t \in Tabs, Answer(t)
  PROVE  IInv'
<1> DEFINE c == call[t]
<1>1. /\ c.pc = "found" /\ UNCHANGED <<accounts, running, seeding, ctx, acts>>
      /\ cookie' = [name |-> c.name, role |-> c.role, via |-> c.via, key |-> running.key]
      /\ user' = [user EXCEPT ![t] =
           IF c.via \in Tabs THEN user[t] ELSE [name |-> c.name, role |-> c.role]]
      /\ call' = [call EXCEPT ![t] = Idle]
  BY DEF Answer
<1>2. c \in FoundCall /\ running \in Editions
  BY <1>1 DEF IInv, CallsFit, Hashing, FoundCall, Idle
<1>3. cookie' \in Token
  BY <1>1, <1>2 DEF Token, FoundCall, Roles, Ways
<1>4. user' \in [Tabs -> [name : Names, role : {"customer", "admin"}] \cup {None}]
  BY <1>1, <1>2 DEF IInv, TypeOK, FoundCall, Roles
<1>5. TypeOK' /\ CallsFit'
  BY <1>1, <1>3, <1>4 DEF IInv, TypeOK, CallsFit, Idle
<1>6. CallsAreEarned'
  BY <1>1 DEF IInv, CallsFit, CallsAreEarned, Earned, Exists, Idle
<1>7. TokensAreEarned'
  BY <1>1 DEF IInv, CallsAreEarned, Earned, TokensAreEarned, Exists
<1> QED BY <1>1, <1>5, <1>6, <1>7 DEF IInv, StaffOnly, SignedForItsOwn

\* A call ends, a page is loaded or left, and the staff is at work.
LEMMA BrowseStep ==
  ASSUME IInv, NEW t \in Tabs,
         LoseCall(t) \/ Load(t) \/ Logout(t) \/ AdminCall(t)
  PROVE  IInv'
<1>1. CASE LoseCall(t)
  <2>1. Idle.pc # "found"
    BY DEF Idle
  <2> QED BY <1>1, <2>1, CallStep DEF LoseCall
<1>2. CASE Load(t)
  <2>1. user' \in [Tabs -> [name : Names, role : {"customer", "admin"}] \cup {None}]
    BY <1>2 DEF Load, LoggedIn, IInv, TypeOK, Token
  <2> QED BY <1>2, <2>1 DEF Load, IInv, TypeOK, CallsFit, CallsAreEarned, Earned,
                            TokensAreEarned, StaffOnly, SignedForItsOwn, Exists
<1>3. CASE Logout(t)
  <2>1. user' \in [Tabs -> [name : Names, role : {"customer", "admin"}] \cup {None}]
    BY <1>3 DEF Logout, IInv, TypeOK
  <2> QED BY <1>3, <2>1 DEF Logout, IInv, TypeOK, CallsFit, CallsAreEarned, Earned,
                            TokensAreEarned, StaffOnly, SignedForItsOwn, Exists
<1>4. CASE AdminCall(t)
  <2>1. /\ acts' = acts \cup {cookie.name} /\ cookie # None /\ cookie.role = "admin"
        /\ UNCHANGED <<accounts, running, seeding, call, cookie, user, ctx>>
    BY <1>4 DEF AdminCall, MayAdminister, LoggedIn
  <2>2. cookie.name \in Names /\ accounts[cookie.name].role = "admin"
    BY <2>1 DEF IInv, TypeOK, Token, TokensAreEarned
  <2> QED BY <2>1, <2>2 DEF IInv, TypeOK, CallsFit, CallsAreEarned, Earned,
                            TokensAreEarned, StaffOnly, SignedForItsOwn, Exists
<1> QED BY <1>1, <1>2, <1>3, <1>4

\* A context arrives or is changed by a link; its signature is what it was.
LEMMA ArriveStep ==
  ASSUME IInv, NEW a \in Addresses, Redirect(a) \/ Visit(a) \/ Link(a)
  PROVE  IInv'
<1>1. UNCHANGED <<accounts, running, seeding, call, cookie, user, acts>>
  BY DEF Redirect, Visit, Fas, Link
<1>2. ctx' \in Context /\ ctx'.signed = Signed(ctx'.asked)
  <2>1. ASSUME NEW caller \in {"opennds", "other"}, Fas(a, caller)
        PROVE  ctx' \in Context /\ ctx'.signed = Signed(ctx'.asked)
    <3>1. running \in Editions
      BY <2>1 DEF Fas, IInv, TypeOK
    <3> QED BY <2>1, <3>1 DEF Fas, Bounced, Context, Signed
  <2>2. CASE Link(a)
    BY <2>2 DEF Link, IInv, TypeOK, Context, SignedForItsOwn, Signed
  <2> QED BY <2>1, <2>2 DEF Redirect, Visit
<1> QED BY <1>1, <1>2 DEF IInv, TypeOK, CallsFit, CallsAreEarned, Earned,
                          TokensAreEarned, StaffOnly, SignedForItsOwn, Exists

\* Every step preserves the invariant.
LEMMA InductiveStep == IInv /\ [Next]_vars => IInv'
<1> SUFFICES ASSUME IInv, [Next]_vars
             PROVE  IInv'
  OBVIOUS
<1>1. CASE Installing
  BY <1>1, SeedStep, InstallStep DEF Installing
<1>2. CASE Arriving
  BY <1>2, ArriveStep DEF Arriving
<1>3. ASSUME NEW t \in Tabs, Asking(t)
      PROVE  IInv'
  BY <1>3, LookupStep, RegisterStep, AnswerStep, BrowseStep DEF Asking
<1>4. CASE UNCHANGED vars
  BY <1>4 DEF vars, IInv, TypeOK, CallsFit, CallsAreEarned, Earned, TokensAreEarned,
              StaffOnly, SignedForItsOwn, Exists
<1> QED BY <1>1, <1>2, <1>3, <1>4 DEF Next

\* The inductive invariant: accounts only grow, every call that is to be answered
\* has earned its answer, and the stored signature was made for what was asked for.
THEOREM Invariance == Spec => []IInv
<1> QED BY InitStep, InductiveStep, PTL DEF Spec

\* Every variable keeps its type.
THEOREM TypeCorrect == Spec => []TypeOK
<1>1. IInv => TypeOK
  BY DEF IInv
<1> QED BY <1>1, Invariance, PTL

\* Whatever the editions, and whichever names the staff, the seats and the
\* customers share, no token is worth more than what earned it.
THEOREM TokensAreEarnedHolds == Spec => []TokensAreEarned
<1>1. IInv => TokensAreEarned
  BY DEF IInv
<1> QED BY <1>1, Invariance, PTL

\* The admin endpoints run for admins only, with however many tabs.
THEOREM OnlyStaffAdministers == Spec => []StaffOnly
<1>1. IInv => StaffOnly
  BY DEF IInv
<1> QED BY <1>1, Invariance, PTL

\* Connect accepts a stored context only for the pair /fas signed, whoever asked.
THEOREM TamperedIsUselessHolds == Spec => []TamperedIsUseless
<1>1. IInv => TamperedIsUseless
  BY DEF IInv, TypeOK, SignedForItsOwn, TamperedIsUseless, Accepted, Signed
<1> QED BY <1>1, Invariance, PTL
=============================================================================
