------------------------------ MODULE Identity ------------------------------
(***************************************************************************)
(* Who is asking: the accounts that installations seed and customers       *)
(* register, the token a login puts into the browser's one cookie, the     *)
(* guards that read it, what the open tabs believe, and the context of a   *)
(* device that /fas signs for whoever asks, OpenNDS or another.            *)
(***************************************************************************)
EXTENDS Naturals

CONSTANTS
  Names,        \* usernames
  Numerals,     \* those a client number opens
  Registrable,  \* those RegisterDto lets through
  Editions,     \* contents of .env: [admin, seats, key]
  FirstEdition, \* the one installed first
  Tabs,         \* tabs of one browser
  Addresses,    \* <<MAC, IP>> pairs of devices
  None          \* no token, user, context, name

ASSUME IdentityAssumption ==
  /\ Numerals \subseteq Names /\ Registrable \subseteq Names
  /\ \A e \in Editions : e.admin \in Names /\ e.seats \subseteq Numerals
  /\ FirstEdition \in Editions
  /\ {"password", "number"} \cap Tabs = {}

VARIABLES
  accounts,   \* the users table, by username
  running,    \* the edition the backend was started with, or None
  seeding,    \* the installation: its edition and its next step
  call,       \* the login or registration each tab waits for
  cookie,     \* cybera_token
  user,       \* AuthContext's user in each tab
  ctx,        \* the context in localStorage
  acts        \* history: accounts under whose token an admin endpoint ran

vars ==
  <<accounts, running, seeding, call, cookie, user, ctx, acts>>

NoAccount == [role |-> "none", pass |-> "none", by |-> "nobody"]
Idle == [pc |-> "idle"]
Account ==
  [role : {"customer", "admin"}, pass : {"known", "random"},
   by : Tabs \cup {"seed"}]

\* `via' is how the token was earned: by a password, by a client number, or by
\* the registration a tab sent.
Token ==
  [name : Names, role : {"customer", "admin"},
   via : Tabs \cup {"password", "number"}, key : {e.key : e \in Editions}]

\* Ghosts: `asked' is the address /fas was asked to sign, `caller' who asked.
Context ==
  [addr : Addresses, signed : Addresses, key : {e.key : e \in Editions},
   asked : Addresses, caller : {"opennds", "other"}]

TypeOK ==
  /\ accounts \in [Names -> Account \cup {NoAccount}]
  /\ running \in Editions \cup {None}
  /\ seeding.step \in {"none", "admin", "seats", "restart"}
  /\ \A t \in Tabs : call[t].pc \in {"idle", "hashing", "found"}
  /\ cookie \in Token \cup {None}
  /\ user \in [Tabs -> [name : Names, role : {"customer", "admin"}] \cup {None}]
  /\ ctx \in Context \cup {None}
  /\ acts \subseteq Names

Init ==
  /\ accounts = [n \in Names |-> NoAccount]
  /\ running = None
  /\ seeding = [edition |-> FirstEdition, step |-> "admin"]
  /\ call = [t \in Tabs |-> Idle]
  /\ cookie = None
  /\ user = [t \in Tabs |-> None]
  /\ ctx = None
  /\ acts = {}

Exists(n) == accounts[n] # NoAccount

-----------------------------------------------------------------------------
(***************************************************************************)
(* An installation seeds the accounts while the backend runs, then         *)
(* restarts it; a later one may end at any step.                           *)
(***************************************************************************)
Install(e) ==
  /\ seeding.step = "none"
  /\ seeding' = [edition |-> e, step |-> "admin"]
  /\ UNCHANGED <<accounts, running, call, cookie, user, ctx, acts>>

\* ON CONFLICT DO UPDATE: an account of that name becomes the admin's.
SeedAdmin ==
  /\ seeding.step = "admin"
  /\ accounts' = [accounts EXCEPT ![seeding.edition.admin] =
       [role |-> "admin", pass |-> "known", by |-> IF @ = NoAccount THEN "seed" ELSE @.by]]
  /\ seeding' = [seeding EXCEPT !.step = "seats"]
  /\ UNCHANGED <<running, call, cookie, user, ctx, acts>>

Seat == [role |-> "customer", pass |-> "random", by |-> "seed"]

\* ON CONFLICT DO NOTHING.
Seated(n) == IF Exists(n) THEN accounts[n] ELSE Seat

SeedSeats ==
  /\ seeding.step = "seats"
  /\ accounts' = [n \in Names |->
       IF n \in seeding.edition.seats THEN Seated(n) ELSE accounts[n]]
  /\ seeding' = [seeding EXCEPT !.step = "restart"]
  /\ UNCHANGED <<running, call, cookie, user, ctx, acts>>

\* The backend starts with the new .env; calls in flight die with the old one.
Restart ==
  /\ seeding.step = "restart"
  /\ running' = seeding.edition
  /\ call' = [t \in Tabs |-> Idle]
  /\ seeding' = [seeding EXCEPT !.step = "none"]
  /\ UNCHANGED <<accounts, cookie, user, ctx, acts>>

InstallFails ==
  /\ seeding.step # "none" /\ running # None
  /\ seeding' = [seeding EXCEPT !.step = "none"]
  /\ UNCHANGED <<accounts, running, call, cookie, user, ctx, acts>>

-----------------------------------------------------------------------------
(***************************************************************************)
(* Registration and the two logins.  What a handler has read is old by the *)
(* time it answers.                                                        *)
(***************************************************************************)
Calls(t, c) ==
  /\ running # None /\ call[t] = Idle
  /\ call' = [call EXCEPT ![t] = c]
  /\ UNCHANGED <<accounts, running, seeding, cookie, user, ctx, acts>>

\* The account a handler has found, whose token it will sign.
Found(n, role, via) == [pc |-> "found", name |-> n, role |-> role, via |-> via]

\* The name is free; then the password is hashed.
RegisterCheck(t, n) ==
  /\ n \in Registrable /\ ~Exists(n)
  /\ Calls(t, [pc |-> "hashing", name |-> n])

\* Mutant: a name that was taken meanwhile is taken over.
NameFree_Mutant(n) == TRUE

\* The unique index of users.username.
NameFree(n) == ~Exists(n)

RegisterInsert(t) ==
  LET n == call[t].name IN
  /\ call[t].pc = "hashing"
  /\ IF NameFree(n)
     THEN /\ accounts' = [accounts EXCEPT ![n] =
               [role |-> "customer", pass |-> "known", by |-> t]]
          /\ call' = [call EXCEPT ![t] = Found(n, "customer", t)]
     ELSE /\ call' = [call EXCEPT ![t] = Idle]
          /\ UNCHANGED accounts
  /\ UNCHANGED <<running, seeding, cookie, user, ctx, acts>>

\* What App shows at /admin, and ClientPortal at /portal.
ShowsDashboard(t) == user[t] # None /\ user[t].role = "admin"
ShowsLogin(t) == ~ShowsDashboard(t)
ShowsNumberEntry(t) == user[t] # None => user[t].role # "customer"

Login(t, n) ==
  /\ ShowsLogin(t)
  /\ accounts[n].pass = "known"
  /\ Calls(t, Found(n, accounts[n].role, "password"))

\* Mutant: only an admin's name is refused, not one without an account.
OpensByNumber_Mutant(n) == accounts[n].role # "admin"

\* AND role = 'customer'
OpensByNumber(n) == accounts[n].role = "customer"

ClientLogin(t, n) ==
  /\ ShowsNumberEntry(t) /\ n \in Numerals /\ OpensByNumber(n)
  /\ Calls(t, Found(n, accounts[n].role, "number"))

\* The token is signed and set; the tab takes the account of a login for its
\* user, and nobody listens to a registration.
Answer(t) ==
  LET c == call[t] IN
  /\ c.pc = "found"
  /\ cookie' = [name |-> c.name, role |-> c.role, via |-> c.via, key |-> running.key]
  /\ user' = [user EXCEPT ![t] =
       IF c.via \in Tabs THEN @ ELSE [name |-> c.name, role |-> c.role]]
  /\ call' = [call EXCEPT ![t] = Idle]
  /\ UNCHANGED <<accounts, running, seeding, ctx, acts>>

\* The call or its answer is lost.
LoseCall(t) ==
  /\ call[t] # Idle
  /\ call' = [call EXCEPT ![t] = Idle]
  /\ UNCHANGED <<accounts, running, seeding, cookie, user, ctx, acts>>

\* JwtAuthGuard: the signature is all that is looked at.
LoggedIn == cookie # None /\ running # None /\ cookie.key = running.key

\* A page load asks /auth/me, which answers with what the token says.
Load(t) ==
  /\ call[t] = Idle
  /\ user' = [user EXCEPT ![t] =
       IF LoggedIn THEN [name |-> cookie.name, role |-> cookie.role] ELSE None]
  /\ UNCHANGED <<accounts, running, seeding, call, cookie, ctx, acts>>

Logout(t) ==
  /\ user[t] # None
  /\ cookie' = None
  /\ user' = [user EXCEPT ![t] = None]
  /\ UNCHANGED <<accounts, running, seeding, call, ctx, acts>>

\* Mutant: the dashboard is trusted to be the admin's.
MayAdminister_Mutant == LoggedIn

\* RolesGuard of AdminController.
MayAdminister == LoggedIn /\ cookie.role = "admin"

\* A tab that shows the dashboard calls an admin endpoint, with whatever cookie
\* the browser has by now.
AdminCall(t) ==
  /\ ShowsDashboard(t)
  /\ MayAdminister
  /\ acts' = acts \cup {cookie.name}
  /\ UNCHANGED <<accounts, running, seeding, call, cookie, user, ctx>>

-----------------------------------------------------------------------------
(***************************************************************************)
(* The device's context.                                                   *)
(***************************************************************************)

\* Mutant: the IP is left out of the HMAC.
Signed_Mutant(a) == CHOOSE b \in Addresses : b[1] = a[1]

\* What the HMAC covers.
Signed(a) == a

\* /fas signs whatever complete blob it is called with and bounces the browser to
\* /portal, which stores the context.
Bounced(a, caller) ==
  [addr |-> a, signed |-> Signed(a), key |-> running.key, asked |-> a, caller |-> caller]

Fas(a, caller) ==
  /\ running # None
  /\ ctx' = Bounced(a, caller)
  /\ UNCHANGED <<accounts, running, seeding, call, cookie, user, acts>>

\* OpenNDS redirects the browser of the device whose address it is.
Redirect(a) == Fas(a, "opennds")

\* The route has no guard: a browser may be led there by anything else, a bookmark
\* or a link, with any address.
Visit(a) == Fas(a, "other")

\* The page is opened by a link whose fields no longer belong to its signature.
Link(a) ==
  /\ ctx # None
  /\ ctx' = [ctx EXCEPT !.addr = a]
  /\ UNCHANGED <<accounts, running, seeding, call, cookie, user, acts>>

\* What /session/connect accepts: verify.
Accepted(c) ==
  running # None /\ c.signed = Signed(c.addr) /\ c.key = running.key

-----------------------------------------------------------------------------
Installing ==
  \/ \E e \in Editions : Install(e)
  \/ SeedAdmin \/ SeedSeats \/ Restart \/ InstallFails

Asking(t) ==
  \/ \E n \in Names : RegisterCheck(t, n) \/ Login(t, n) \/ ClientLogin(t, n)
  \/ RegisterInsert(t) \/ Answer(t) \/ LoseCall(t)
  \/ Load(t) \/ Logout(t) \/ AdminCall(t)

Arriving == \E a \in Addresses : Redirect(a) \/ Visit(a) \/ Link(a)

Next == Installing \/ Arriving \/ \E t \in Tabs : Asking(t)

Spec == Init /\ [][Next]_vars

-----------------------------------------------------------------------------
\* A token is worth what earned it: its account exists and has its name, one
\* that a registration was answered with belongs to the account that very
\* registration made, and an admin's was given for a password and to an account
\* that is an admin's still, whichever names the staff, the seats and the
\* customers share and however often the accounts are seeded meanwhile.
TokensAreEarned ==
  cookie # None =>
    /\ Exists(cookie.name)
    /\ cookie.via \in Tabs => accounts[cookie.name].by = cookie.via
    /\ cookie.role = "admin" => /\ accounts[cookie.name].role = "admin"
                                /\ cookie.via = "password"

\* What a dashboard left open does, it does for an admin, although another tab
\* may have changed the cookie, and a reinstallation the accounts.
StaffOnly == \A n \in acts : accounts[n].role = "admin"

\* "a tampered copy is useless" (fasContext.ts:5-6): whatever links the page was
\* opened by and however often the key changed, connect accepts a stored context
\* only for the pair that /fas was asked to sign.
TamperedIsUseless == ctx # None /\ Accepted(ctx) => ctx.addr = ctx.asked

\* "internet can only be granted to a MAC/IP pair that genuinely arrived through
\* the OpenNDS FAS loop" (fas.service.ts:20-21, README:103-104).  The code does
\* not keep this: /fas signs for every caller.
ContextsCameThrough == ctx # None /\ Accepted(ctx) => ctx.caller = "opennds"
=============================================================================
