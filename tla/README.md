# Cybera, specified in TLA+

TLA+ modules, TLC configurations and machine-checked proofs for the internet
café in this repository: a NestJS backend, a session manager in a process of its
own, a React portal, PostgreSQL, and OpenNDS as the captive portal.  All paths
below are relative to `src/`; `backend/` stands for `backend/src/`, `frontend/`
for `frontend/src/`.

Customers own accounts with a balance of seconds and a device limit.  A device
that connects gets a row in `sessions` and an authorization in OpenNDS.  Every
15 seconds the session manager charges each online session against its account,
closes sessions whose device is gone and cuts off devices that should not be
online.  Vouchers, approved requests and admins add time.

## 1. Inventory

### Components, their state and their operations

| component | state | operations | modelled in |
|---|---|---|---|
| `SessionsService` (`backend/sessions/`) | rows of `sessions`; reads `users` | `connect` (cool-down query, transaction, `ndsctl auth`), `kick` (`ndsctl deauth`, one UPDATE) | `Sessions` |
| session manager (`backend/session-manager/main.ts`) | none between passes | `tick` (poll, settlement transaction, cut-off, orphans), `loop` | `SessionManager` |
| accounts (`users`) | `remaining_seconds`, `device_limit` | the same UPDATE in `redeem`, `decide` and the admin's grant | `CafeState` (`AddTime`), abstractly `Accounts` |
| OpenNDS, behind `NdsctlService` | which MACs are let through | `auth`, `deauth`, `json`; it drops clients by itself | `CafeState`, external |
| `VouchersService` | `vouchers` | `generate` (loop of INSERTs), `redeem` (transaction) | `Vouchers` |
| `RequestsService` | `plan_requests` | `create` (four statements), `decide` (transaction) | `PlanRequests` |
| `PlansService` | `plans` | `create`, `update`, `remove` (two statements) | `PlanRequests` |
| customer portal (`frontend/pages/client/`, `frontend/auth/`, `frontend/api/`) | cookie, FAS context, React state, fetches in flight | load, login, switch of account, poll, automatic and manual connect | `Portal` |
| request form (`TimeRequest.tsx`) and admin overview (`AdminOverview.tsx`) | React state, POSTs, refreshes and decisions in flight | submit, list, refresh every ten seconds, approve or reject | `Counter` |
| installation (`install.sh`, `uninstall.sh`, `scripts/migrate.ts`, `scripts/seed-admin.ts`, the systemd units) | database role, `_migrations`, accounts, files in `/opt` and `/etc`, enabled and running services | the commands of both scripts, crashes, reboots | `Deploy` |
| admin pages (`AdminLayout.tsx`, `AdminUsers.tsx`, `AdminPlans.tsx`, `AdminVouchers.tsx`, `AdminAudit.tsx`) over `AdminController` | React state, the listed rows, listings and clicks in flight | open a tab, list, search, grant, create, switch, remove, generate, export | `Dashboard` |
| `AuditService` (`backend/db/audit.service.ts`) | `audit_log` | `log`, after the change it tells of; the listing | `Dashboard` |
| authentication (`backend/auth/`, `backend/common/`, `AuthContext.tsx`, `AdminLogin.tsx`) | accounts with role and password, the cookie, the user each tab believes in | `register`, `login`, `clientLogin`, `logout`, `me`, both guards; the seeding of accounts | `Identity` |
| FAS entry point (`backend/fas/`, `fasContext.ts`) | none in the backend; the context in `localStorage` | decode, sign, redirect; `verify` | `Identity` |
| `MeController` | none | the balance; listings that only read | `Portal` (the balance) |
| application shell (`App.tsx`, `main.ts`), styles, network templates | none of their own | which page a path shows | `Dashboard`, `Identity`, or not modelled |

### How they interact

The backend and the session manager share nothing but the database and OpenNDS:
row locks are the only thing that orders them, and OpenNDS knows no locks at
all.  A handler that talks to both does so in sequence (commit, then
`ndsctl auth`; `ndsctl deauth`, then UPDATE), so a crash, a failure or the other
process can always come between.  The portal polls the backend and calls
`connect`; nothing is pushed to it, nor to the admin's overview, which polls as
well.  The installer changes database, files and configuration under services
that keep running, and systemd restarts these whenever they die.

All tabs of a browser share one cookie and one stored context, while each keeps a
user of its own in memory: what a tab shows and what its requests are worth can
differ.  A device's context is signed at `/fas`, where OpenNDS sends the browser and
anybody else may, and goes back to the backend with `connect`.  An admin's click is a
change, then an entry in the trail, then an answer, and the browser may be gone
for any of them.

### What is hard

* two connects, two redemptions, two decisions, two creates at once;
* a pass whose list of sessions, list of online clients and clock are each from
  another moment, by the time it has its row locks;
* READ COMMITTED: a locked row is re-read in its latest version, a row joined to
  it without a lock is not; a SELECT without FOR UPDATE sees only what was
  committed before it, and an UPDATE by key does not look at the status again;
* failures between the steps of a pass, of `connect` and of `kick`, and restarts
  by systemd;
* answers that reach a page late, in another order, after the account on the
  screen has changed or the component is gone;
* buttons that stay enabled over tables that are already old, answers that are
  lost after the change was made, a backend that dies between change and trail;
* a registration that checks a name, hashes, and inserts, while an installation
  seeds the same name or restarts the backend with another key;
* scripts that stop at any command and are run again, while services crash, the
  box reboots, and another release or another `.env` is on its way.

`PROJECT.json` lists each of these as a hazard, with the line where it bites and
the properties that would catch it going wrong.

### What makes each component correct

* sessions and manager: an account never has more active sessions than its
  limit; none at balance zero; a MAC has one active session; a credited second
  is in the balance or recorded as consumed; closed sessions stay closed;
  orphans are cut off and sessions without a device closed, eventually; a
  session that is just being opened is not closed as gone;
* vouchers and requests: each is paid at most once, to one account, and nothing
  else changes a balance; a decision stands; a plan somebody asked for is not
  deleted; a batch shown to an admin is complete and its own;
* portal: it never shows one account and acts for another; it comes to follow
  the balance; it connects its device by itself;
* counter: no page says "Pay at the counter" without a request; one form sends
  one request at a time; the overview comes to list what is pending, and nothing
  that is decided;
* admin pages: one click is at most one change, the trail tells of nothing that was
  not done, the batch on the screen is whole, and every click ends;
* identity: a token is worth what earned it, only the staff administers, a
  context is accepted only for the address it was signed for;
* deployment: no process runs code whose migrations are missing; a migration
  takes effect once; a run that ends leaves role, accounts, files and services of
  its own release and `.env`; everything survives a reboot.

## 2. Modules

```
CafeState ── Sessions ───────┐
        └─── SessionManager ─┴─ Access ── MCAccess          PayOnce ┄┄ Vouchers ───── MCVouchers
                                     ┆  ┆                         ┄┄ PlanRequests ─ MCPlanRequests
                              Accounts  Portal ─ MCPortal
                                                    Counter ─── MCCounter     Dashboard ─ MCDashboard
                                                    Identity ── MCIdentity    Deploy ──── MCDeploy
                                                    (─ EXTENDS, ┄ refinement by INSTANCE)
```

The proofs about a module extend it: `AccessProofs` (for `CafeState`, `Sessions` and
`SessionManager` too), `VouchersProofs`, `PortalProofs`, `CounterProofs`,
`DashboardProofs`, `IdentityProofs`, `DeployProofs`, and `RequestProofs` for
`PlanRequests`.

**CafeState** holds the shared state: `users` (`balance`, `limit`), `sessions` by
primary key, OpenNDS's `authed`, the position of every connect (`conn`), kick
(`kicking`) and of the pass (`mgr`), and the pass's uncommitted writes
(`draftRows`, `draftBalance`).  Row locks are not variables.  Which transaction
holds which row follows from its position: a connect past its BEGIN holds its
account and the account's active rows, a pass in its transaction the rows it
selected and their accounts.  A statement that would wait is an action whose
guard says that the row is free.  A pass takes its locks in one step
(`TickLock`): taking them one by one and waiting with some in hand only delays
others, except for the cycles PostgreSQL breaks by aborting a transaction, and
every transaction may abort at any of its steps.

**Sessions** follows `sessions.service.ts`: `ConnectStart` (signature, cool-down
query), `ConnectLock` or `ConnectRefuse` (lines 46 to 69, the two SELECTs FOR
UPDATE with the checks under their locks), `ConnectRefresh` (the UPDATE of an
active row) or `ConnectOpen` (displacement of the MAC's session under another
account, INSERT), each with the COMMIT, `ConnectAuth` or `ConnectAuthFail`
(`ndsctl auth`), `ConnectAbort`; `KickDeauth`, `KickMark`, `KickMiss`;
`BackendCrash`.

**SessionManager** follows `tick` statement by statement: `TickPoll`,
`TickBegin` (the snapshot of active rows, and the moment `now()` will name),
`TickLock` (latest versions, then `Date.now()`), `TickSettle` for each row of the
loop, `TickExhausted` (the second SELECT, no locks, which also sees rows
committed since the first), `TickCommit` (UPDATE by key, COMMIT), `TickCut`,
`TickReview` (the SELECT for the orphans), `TickOrphan`, `TickSleep`, and
`TickAbort` at any point.

**Access** composes the two with the environment (time, OpenNDS dropping a
client, purchases), states the properties and the inductive invariant.
**Accounts** is what the portal promises: balance, limit, and for each device the
account it is online for.  `Access` implements it under `Owner`, the account of
the MAC's active session.  `Access` also implements what `Portal` has of the
backend: `Page(u)` is Portal with the one account u and without the page, over
whether u has a balance and whether it has an active session.

**Vouchers** and **PlanRequests** have the same shape; both implement
**PayOnce**, in which an entitlement is paid once, into one balance.  `Least` is
the least a payment adds: the worth of a voucher, but 0 for requests, because an
approval can credit nothing (section 5).  In PlanRequests a decide takes its
snapshot when it starts (`DecideStart`) and re-reads the request, but not the
joined plan, when it has the lock (`Worth`).

**Portal** is the page in one device's browser.  Each fetch is a step when it is
sent (with the cookie of that moment), when the backend answers, and when the
answer is used; setting React state and what re-rendering makes of it (mounting
and unmounting `OnlineStatus`, its effect) are one step, `Show`.  Of the backend
it has only what the page can tell apart, `time` and `online`; that sessions,
passes and purchases change these as Portal's `Server` does is `FeedsPage` in
Access.

**Counter** is the other half of the page, the form that asks for time, together
with the admin's overview and `plan_requests` between them.  Fetches are taken
apart as in Portal, the backend's handlers are not (PlanRequests does that).  A
`POST` remembers whether the component that sent it is still mounted: if not, the
backend does its work all the same and nobody hears of it.

**Dashboard** has the pages an admin changes things on.  A click is a record with a
place in the backend (`srv`: sent, done, logged) and one in the browser (`ui`:
waiting or over), which go apart when the answer is lost (`Lose`), the page is
left (`Deaf`) or the backend dies (`Crash`).  It is made on a row as the table
showed it; no button is disabled meanwhile.  `Execute` is the change, for
`generate` one INSERT at a time, `Log` the entry, whose failure
`audit.service.ts` swallows, `Answer` what the page makes of the answer: it
closes the dialog, whosever it is by then, announces the batch, lists its rows
again.  Listings are steps when they are sent, answered and used, and the last
to arrive is shown.  `AdminLayout` mounts each page afresh.

**Identity** has the accounts by name, with their role, whether somebody knows the
password and who made them (`by`), the token in the cookie with what earned it
(`via`) and the key it was signed with, the user in each tab and the stored
context.  `/fas` has no guard: `Redirect` is OpenNDS's call of it, `Visit` anybody
else's, and the context keeps in two ghost fields what was asked and by whom.
`RegisterCheck` and `RegisterInsert` are the SELECT and the INSERT with
the hashing between; `SeedAdmin` and `SeedSeats` are `seed-admin.ts` under a
backend that runs, whose `Restart` reads the new keys.  `AdminCall` is any
endpoint of `AdminController` called from a tab that shows the dashboard, with
the cookie the browser has by then.  `acts` and `done` (in Dashboard) are history
variables: no guard reads them, but `Log` for its mutant's sake.

**Deploy** follows the two scripts command by command: `script.at` is the position
in `Install` or `Uninstall`, and `Interrupt` (a command that fails under `set -e`,
or the operator) can come anywhere, also between a migration's statements and its
COMMIT (`MigrateApply`, `MigrateCommit`).  The services load code and environment
when they start and keep them until they are restarted; systemd restarts them at
any moment, with whatever is in `/opt` and `/etc` then.

`PROJECT.json` maps every definition to the lines it stands for.

### Abstractions

* Time is whole seconds, as `Math.round` leaves them.  `Date.now()` of the two
  Node processes and `now()` of PostgreSQL are one clock: they run on one
  machine.
* Left out because nothing decides on them: `audit_log` (except that an audit
  INSERT in the cut-off loop can throw), `devices` and `last_seen`, conntrack,
  logs, IP addresses, prices, names, the letters of a voucher code.
* `started_at` and `last_tick` of closed rows are 0, `ended_at` is kept for
  kicked rows only, and so on: what nothing reads is not state.
* The minutes handed to `ndsctl auth` are not counted down; `NdsDrop` lets
  OpenNDS drop any client at any moment.
* `kick`'s `ended_at` is the moment its UPDATE takes effect, where `now()` is the
  start of the statement: with a wait for a row lock the cool-down is a little
  shorter in the code.
* Portal: the two SELECTs of the balance handler are taken together; the cookie
  does not expire (what the page does without one happens after a logout as
  well); staff logins and the countdown between polls are left out.
* Counter: `Mount` and `Unmount` at any moment stand for what Portal's balance
  polls do; approving and rejecting are both "decided"; which plan is asked for,
  the list of plans, and the overview's table of sessions are left out; a
  refresh beyond the bound is dropped, which the next interval makes up for.
* Dashboard: names, prices, minutes and the text of a form are left out (a click
  that the DTOs refuse is `Refuse`); a search matches any set of accounts; a
  listing beyond the bound counts as failed; an INSERT of a batch adds one code or
  several, because a code that collides is drawn again; `LIMIT` is never reached.
* Identity: a password is known to somebody or random, a signature is the key and
  the pair it covers.  The 7 days of a token and the throttler are left out:
  either only takes calls away.  The browser is one; `Tabs` are its tabs.  The
  separate secrets of tokens and contexts are one key per edition.  The third part
  of a context, `hid`, is left out.  So is `uninstall.sh --drop-db`, whatever the
  `.env` afterwards: accounts are never removed, and `TokensAreEarned` and
  `StaffOnly` say nothing of a token that outlives its database (Deploy has the
  drop, section 5 what it means for tokens).
* Deploy: a release is a number and brings the migrations up to it, an edition of
  `.env` likewise; both change between runs only (`install.sh` reads `.env` at
  line 31 and copies it at line 150: an edit in between is not modelled).  The
  admin's name is the same in every edition and no number.  `systemctl disable`
  succeeds.  What Debian's package does with OpenNDS before the script starts it,
  the packages themselves and the network are left out.

## 3. Runs

Each run takes less than four minutes with two workers, and every action fires in
some passing run.

| run | properties | what it shows |
|---|---|---|
| `access_account` | `TypeOK`, `DeviceLimit`, `ZeroBalanceHasNoSession`, `NoSecondIsLost`, `FeedsPage` | one account, two devices, two connects at once, two kinds of purchase, passes, crashes; each step is one of the backend Portal assumes |
| `access_device` | `OneSessionPerMac`, `KeepsPromise`, `ClosedStaysClosed` | two accounts want one device, which is also kicked; `Access` implements `Accounts` |
| `access_live` | `OrphansAreCut`, `GoneSessionsAreClosed`, `GraceCoversConnect` | passes repair what failures leave, and the grace protects young sessions |
| `vouchers` | `TypeOK`, `BatchesAreComplete`, `PaysOnce` | two batches over three codes, two redemptions at once, expiry |
| `requests` | `TypeOK`, `RequestedPlansExist`, `PaysOnce`, `DecisionStands` | two creates, two decides, a plan edited and removed meanwhile |
| `portal` | `TypeOK`, `OneAccountOnScreen`, `ViewFollowsBalance`, `DeviceTriesByItself` | two customers, two polls, a connect, a login and a logout in flight, reloads and failures |
| `counter` | `TypeOK`, `BannerIsEarned`, `OneAtATime`, `CounterSeesRequests`, `DecidedLeaveTheTable` | a form and an overview over one table: two POSTs, two refreshes and a decision in flight, all of them late, lost or unheard |
| `deploy` | `TypeOK`, `SchemaCoversCode`, `MigratedOnce`, `DoneIsCurrent`, `SurvivesReboot` | two releases and two editions of `.env`, installed, updated, downgraded, removed, interrupted, with crashes and reboots |
| `dashboard` | `TypeOK`, `ClicksAreAccounted`, `BatchIsWhole`, `EveryClickEnds` | two clicks and a listing in flight while tabs change, answers get lost, the backend dies and another dashboard edits the plan |
| `identity` | `TypeOK`, `TokensAreEarned`, `StaffOnly`, `TamperedIsUseless` | two tabs log in, register and log out while three editions of `.env` are installed, one of which makes a seat's number the admin's name; contexts signed for OpenNDS and for others, links with other addresses |
| `access_twice`, `requests_replaced` | one each | what a comment says and the code does not do (section 5) |

Each property has a mutant: one definition changed the way a plausible bug would
change it (a SELECT without FOR UPDATE, a subtraction without GREATEST, a
displacement that only looks at one account, a grace the wrong way round, a poll
that stops), under which TLC finds the property violated.  The mutated forms
stand beside the definitions, named `..._Mutant` or, where there are several,
for what they do.

### Bounds, and why they are enough

* *Users, Macs, Calls.*  A conflict needs two parties: two connects of one
  account that compete for its last place (`access_account`, which needs two
  devices), or two accounts for one device (`access_device`).  Three session
  rows let a device be displaced, or closed and connected again, beside another
  session.  The runs of `Access` split these roles because all of them at once
  are out of TLC's reach; the theorems hold for any number.
* *Grants.*  `access_account` sells one second at a time with one or two
  devices: a purchase may raise the limit between two connects, and a balance of
  one is what two devices can overdraw in one pass.  The other runs sell two
  seconds at once.
* *MaxClock.*  One tick of the clock is enough for every property that depends
  on order and not on durations.  In `access_live` the clock goes to 4 so that
  sessions can outlive the grace.
* *MaxKicks.*  Kicks in flight; 0 in `access_account`, where kicks only add
  states.
* *ConnectTime, PollTime.*  9 in the safety runs, which is no bound at all.  In
  `access_live` both are 1 and *Grace* is 2, the least that covers a connect
  and a poll one after the other; with a grace of 1 TLC finds
  `GraceCoversConnect` violated.  In the code these are up to ten seconds (the
  timeout of `execFile`) against the constant of `main.ts`.
* *Vouchers:* two batches of two over three codes must collide; two
  redemptions.  *PlanRequests:* two rows, so that a customer can have a decided
  and a pending request, or two pending ones.  *Portal:* a stale answer needs
  two polls and two accounts; a second connect, from the button after the
  automatic one, uses the same slot when the first is answered.
* *Counter:* a form that was mounted again beside a POST of its predecessor needs
  two POSTs; a stale answer two refreshes; a decided request beside a pending one
  two rows.  Further customers only add rows, and a second admin is
  `DecideElsewhere`.
* *Dashboard:* two clicks are the least that overlap, a batch of two the least that
  can be half done, two accounts let an answer meet another one's dialog, and one
  listing in flight is already older than the clicks around it.  One plan is
  enough, as no operation touches two.
* *Identity:* two names, of which an edition makes the seat's number the admin's;
  three editions (no seats, a seat, other key and other admin) give every order of
  seeding; two tabs are the least whose cookie and user differ; one MAC with two
  IPs, so that half of a pair can be another.
* *Deploy:* two releases and two editions give an update, a downgrade and a run
  with nothing new; the second edition has fewer accounts than the first.
  *MaxAttempts* is 2 where the script has 5: a failed attempt that is repeated,
  and a last one.
* Symmetry is used only for interchangeable model values and only in runs
  without liveness properties.

### Fairness

`access_live` (`FairSpec`): time passes; a request past its BEGIN ends, since
PostgreSQL answers or fails each statement and `execFile` gives up; the
manager's steps go on, since `loop` catches every error and systemd restarts the
process.  `TickLock` is strongly fair: PostgreSQL queues for a row lock, so a
pass that finds its rows free again and again gets them.  Deauthorizing a device
that keeps being a target succeeds at some time.  Aborts of passes are finitely
many; without this a deadlock or a full disk could end every pass.  Nothing is
assumed of connects that have not begun, of kicks or of OpenNDS.
`GoneSessionsAreClosed` leaves out sessions whose grace the bounded clock would
not reach.

`Portal`: the five-second interval keeps firing, fetches end, answers are used
(strongly, since the bound on connects may hold one up), and neither reloads nor
failing polls go on for ever.  Logins, logouts and clicks are under no
obligation.

`Counter`: the ten-second interval keeps firing, a refresh is answered or fails
and its answer is used, and the network does not fail every refresh for ever.
Nothing is assumed of customers, admins, POSTs and decisions.

`Dashboard`: Express runs a handler to its answer, whether the audit INSERT fails or
not, and the answer reaches a browser that still waits.  Nothing is assumed of
the admin, of listings or of faults.

`Deploy`: systemd starts a service that is enabled and not running (`Restart=` and
`WantedBy=` of the units; three and five seconds between attempts stay below its
start limit).  Nothing is assumed of the operator.

`GraceCoversConnect` is about the connect that opened a session.  A refresh
leaves `started_at` alone, so a session that is old and refreshed has no grace:
its connect's `ndsctl auth` can come after the pass that closes it
(`sessions.service.ts:81`, `main.ts:118-119`).

## 4. Proofs

The theorems are checked by TLAPS for every value of the constants that meets
the assumptions of the module: for `Access`, `NumbersAssumption`,
`GrantsAssumption` (a purchase is at least one second and one device, as the
DTOs and the tables' CHECKs demand) and `NoUserAssumption`; for `Vouchers`, a
positive worth and size of batch and finitely many codes; for `PlanRequests`,
positive durations; for `Dashboard`, a batch of one or more; for `Portal`, that
nobody is not an account; for `Identity`, that the seats and the admin of every
edition are names and no tab is called a way to log in; for `Counter` and
`Deploy`, numbers where numbers are meant. Sets of users, devices, plans and
requests in flight may be infinite; the rows of `sessions` and `plan_requests`
are `1..n` for any natural number n.

| theorem of `AccessProofs` | says |
|---|---|
| `Invariance` | `IInv` is an invariant |
| `TypeCorrect` | every variable keeps its type; no balance is negative |
| `DeviceLimitHolds` | no account has more active sessions than its limit |
| `ZeroBalanceIsOffline` | an account without time has no active session |
| `OneSessionPerMacHolds` | a device has at most one active session |
| `ClosedSessionsStayClosed` | no step revives or charges a closed session |
| `GraceCoversConnectHolds` | if *Grace* is at least *ConnectTime* + *PollTime*, no pass closes a session whose opening connect has yet to authorize its device |
| `PromiseKept` | `Access` implements `Accounts` |
| `FeedsPageHolds` | for each account, every step is a step of the backend `Portal` assumes, or none |
| `NoSecondIsLostHolds` | every second credited is in the balance or recorded as consumed |
| `ChargedTwiceAtMostHolds` | if no refresh sets `last_tick` back, every second of an open session is charged at most twice |

None of the safety properties is inductive.  `ConnectOpen` inserts a row on the
strength of a balance and a count read one step earlier, so `ConnectChecksHold`
says that what a connect checked stays true while it holds its locks: no other
connect and no pass is in the same account.  `TickCommit` writes rows read at
`TickLock`, so `DraftMatches` says that the locked rows are still active and
still belong to the same user and MAC, and `CutIsComplete` that no session of an
exhausted account appears between the second SELECT and the COMMIT: opening one
would need the balance of an account the pass has locked, or of one that is zero
already.  `MacsDiffer` is one session per MAC, row by row.  `ConnectOpen` takes the
displacement, the INSERT and the COMMIT in one step; the interleaving this leaves
out, another INSERT for the MAC between them, is the one in which
`idx_sessions_active_mac` makes the INSERT fail, that is `ConnectAbort`.  What
`MacsDiffer` adds is that the index is never needed for more: the displacement
reaches the session of whichever account has the device.  `IInv` is the
conjunction with `TypeOK`, `DeviceLimit` and `ZeroBalanceHasNoSession`;
`InductiveStep` has one case per action and one lemma per action that matters.

`GraceCoversConnectHolds` rests on `TimesHold`: a connect past its BEGIN is at most
*ConnectTime* old, the pass's `Date.now()` is never ahead of the clock, and the
draft ends a row only when the grace that counts from the row's `started_at` is
over.  So while the opening connect runs, the moment of a pass is at most
`started_at` + *ConnectTime*: too early to end the session, and early enough that
the *PollTime* until its locks also fits into the grace.

For the refinement one more invariant is needed: `DraftOnlyCharges`, the draft
balance of a locked account is never above the committed one.  Then `TickCommit`
is the abstract `Settle`; `ConnectOpen` is `Open` (also when it takes the device
from another account), `KickMark` is `Close` or a stutter, `AddTime` is `Credit`,
and every other step leaves `balance`, `limit` and `Owner` alone.

`FeedsPageHolds` takes the promise as its premise.  A page that polls sees two bits
of an account; what has to be shown is that they never change from "no time,
offline" to "time, online" at once, nor to "no time, online" at all.  The second
is `ZeroBalanceHasNoSession`; the first follows from `Accounts`, in which only
`Credit` makes a balance grow, and `Credit` leaves the owners alone
(`PromiseFeedsPage`).  So what the portal's runs and theorems say over the small
backend of Portal holds over the large one.  A step that changes several accounts
(a displacement, a COMMIT) is one step of Portal's for each: a page sees one
account.  TLC checks `FeedsPage` in `access_account`; without the balance check of
`connect`, or when a pass leaves an exhausted account's sessions, it finds it
violated.

`NoSecondIsLost` compares a balance with a sum over rows.  To be provable without
an induction over the rows, the sum is a cardinality: `Seconds(rows, u)` is the set
of pairs of a row of u and one of its seconds, numbered from 1, and `Used(u)` the
size of that set.  Then what a step does to the sum follows from what it does to
the rows: the set of an account grows when none of its rows loses a second
(`SecondsGrow`, inclusion), and by the charge when a row is charged
(`SecondsCharged`, a disjoint union).  The property is not inductive, because
`TickCommit` replaces balances and rows by the pass's draft.  `DraftLosesNoSecond`
is the same property of the draft laid over the tables: it holds when the pass
has its locks because the draft is then a copy, it is kept by `TickSettle` because
GREATEST takes from a balance at most what the row is charged
(`SettleKeepsSeconds`), it is kept by what others do meanwhile because an account
in the draft is locked and every other account is read from the table
(`CreditKeepsSeconds`, `SessionsGrow`), and at the COMMIT it is `NoSecondIsLost`.
The sum is a lower bound and no more: a wait for locks is charged twice
(section 5), and an exhausted account is recorded to have consumed more than it
had.

How much is charged twice is `ChargedTwiceAtMostHolds`.  A pass charges from the
`last_tick` L it finds to the moment E at which it has its locks, and leaves as
the new `last_tick` the moment B of its BEGIN, so that B to E is charged again.  The next
pass has its BEGIN after this COMMIT, hence after E, and no second is charged a
third time: `ChargesHold` says of an open row, opened at S, that at any moment t no
earlier than the E of the last pass at most (t - S) + (L - S) seconds have been
charged, and the pass turns its own B into t and L, and E into the t of the next.
The premise `RefreshGoesForward` is needed: `connect` too writes the start of its
transaction into `last_tick`, and when it has waited for the account behind a
pass with a later BEGIN it sets it back, by up to that wait, once per refresh.  TLC refutes
`ChargedTwiceAtMost` over `Spec` (one account, one device, one request, three
seconds) and finds it and `ChargesHold` true when the guard of `ConnectRefresh` is
given the premise; the theorem leaves `ConnectRefresh` as the code has it.

| theorem of `VouchersProofs`, `RequestProofs` | says |
|---|---|
| `VouchersPayOnce` | each voucher is paid once, into one balance |
| `BatchesAreCompleteHolds` | a finished batch is complete and its own |
| `RequestsPayOnce` | each request is paid once, by the decide that approves it |
| `DecisionsStand` | a decided request keeps its status |
| `RequestedPlansExistHolds` | a plan somebody asked for exists |
| `TypeCorrect` (in each) | every variable keeps its type |

Both rest on `LocksHold`: whoever holds a lock still sees what it saw when it got
it (the voucher unused, the request pending), and nobody else holds it.
`BatchesOwn` counts a batch while it is being filled, with the cardinality
theorems of the library; `FoundStays` says that the pending request a create has
found is still a row of the table, so that its UPDATE by key changes that row.

| theorem of `PortalProofs` | says |
|---|---|
| `OneAccountOnScreenHolds` | one account is on the screen, and the cookie and the awaited connects are its own or nobody's |
| `TypeCorrect` | every variable keeps its type; no answer is written to an `OnlineStatus` that is gone |

The inductive invariant is `OnlyTheShownConnect`.  Its parts depend on each other: a
login is under way only while nobody is on the screen, so no other login and no
switch of account can put its cookie between the one that `LoginCookie` stores and
the account that `LoginDone` shows; a late logout can, but only takes the cookie
away.  `OnlineStatus` is mounted only for an account on the screen with time, and
a connect that is still awaited belongs to a mounted one, so that it goes, unheard,
with the account it was sent for.  `ShowKeeps` is the one lemma about `setUser` and
`setBalance`; the five actions that show something differ in which account comes
and why the cookie is not another's.  The theorems hold for any number of polls,
connects and logouts in flight, where the run has two, one and one.

| theorem of `CounterProofs` | says |
|---|---|
| `BannerIsEarnedHolds` | "Pay at the counter" is shown only to customers with a row there |
| `OnePostAtATime` | a mounted form has one POST under way at most |

The invariant adds what the answers under way will say (`AnswersAreEarned`): a
listing answered "some" and a POST answered well belong to a customer who has a
row; rows are never freed (`Grow`).  `BusyForOne` is why there is one POST: while
one is awaited its form is mounted and busy, and whatever an earlier mount sent
is awaited no longer.

| theorem of `DeployProofs` | says |
|---|---|
| `Invariance` | `IInv` is an invariant |
| `MigratedOnceHolds` | a migration takes effect once, and in its turn |
| `SchemaCoversCodeHolds` | no process runs code whose migrations are missing |
| `DoneIsCurrentHolds` | a run of `install.sh` that ends leaves everything current |

`Progress` says what each command of `install.sh` leaves for the rest of the run:
the conjunct `Installed(n)` is what the n-th command has established, and no
crash, restart or reboot takes it back.  The services are the delicate part:
systemd may start one with old files until the script launches it, and never
after.  `Covered` extends the schema property to what is built and copied,
`NextInTurn` says that the migration under way is the least one not recorded, and
`Cleared` is why `--drop-db` harms nobody: by then nothing runs, no unit starts
anything, and no file is left.

| theorem of `DashboardProofs`, `IdentityProofs` | says |
|---|---|
| `ClicksAreAccountedHolds` | one click is at most one change; the trail tells of no other |
| `BatchesAreWhole` | the batch on the page is whole, as its click has made it |
| `TokensAreEarnedHolds` | a token is worth what earned it |
| `OnlyStaffAdministers` | only the staff's accounts have administered |
| `TamperedIsUselessHolds` | what `connect` accepts was signed for that address, for whichever caller |

In Dashboard `Backend` relates the place of each click to the history (a click is
done once its handler is past the change, a batch that is done is complete),
`Browser` the page to what it may show.  In Identity `CallsAreEarned` says of a
handler that has found an account what `TokensAreEarned` says of the token it
will sign, and `Grow` that accounts are never removed, never demoted and keep
their maker, so that what was earned stays earned; `SignedForItsOwn` is the
signature of the stored context.  `TypeCorrect` is proved in each module.

Only model-checked: everything under fairness, which is out of the prover's reach
(`OrphansAreCut`, `GoneSessionsAreClosed`, `ViewFollowsBalance`,
`DeviceTriesByItself`, `CounterSeesRequests`, `DecidedLeaveTheTable`,
`SurvivesReboot`, `EveryClickEnds`).  Every safety and action property of a
passing run is proved.

## 5. What the code does and its comments do not say

Each of these is a run that TLC finds violated, with its sources in
`PROJECT.json`.

1. `access_twice`: a pass charges up to the `Date.now()` it reads after its locks
   are granted, but sets `last_tick` to `now()`, the start of its transaction.
   The wait for the locks is charged again by the next pass (`main.ts:115`, `135`).
2. `requests_replaced`: a request replaced by one for a plan while `decide` waits
   for its row is approved with `plan_minutes` NULL and credits nothing
   (`requests.service.ts:82`).

Three more are stated in the modules and refuted at once when they are added to a
configuration:

* the cool-down is looked up before the transaction and not in it: a kick between
  the two is ignored and its MAC gets a session (`sessions.service.ts:33`;
  `KickedMacIsRefused` among the PROPERTIES of `access_device.cfg`);
* two creates of one customer both insert (`requests.service.ts:32`;
  `OnePendingRequest` among the INVARIANTS of `requests.cfg`);
* `GET /fas` has no guard and signs every complete blob, whoever calls it
  (`fas.controller.ts:14-18`), so an accepted context need not have come from
  OpenNDS, as `fas.service.ts:20-21` and the repository's `README.md:103-104` say
  it must (`ContextsCameThrough` among the INVARIANTS of `identity.cfg`).  What the
  signature does keep is `TamperedIsUseless`: the pair is the one it was made for.

Seen while modelling, without a run:

* the orphans of a pass are the polled clients that its second SELECT finds
  without an active session; a client that gets its session after that SELECT
  (`ConnectOpen` after `TickReview`) is deauthorized all the same, and its session
  closed by a later pass (`main.ts:185`; line 94 speaks of clients with no
  session);
* the UPDATE that marks an overdue voucher `expired` is rolled back by the
  exception that follows it (`vouchers.service.ts:43-45`, `RedeemOverdue`): codes
  are never "flipped to 'expired' on touch" (lines 30-31);
* the GET that lists the requests when `TimeRequest` mounts may be answered after
  the customer has sent one, and takes the banner down again although the request
  is pending (`TimeRequest.tsx:31-37`, `ListMineDone` after `PostDone`);
* the admin approves by id what the table showed up to ten seconds ago, while the
  customer may have changed that row to another plan (`AdminOverview.tsx:111`,
  `requests.service.ts:40`);
* the switch of a plan sends the opposite of what its row showed
  (`AdminPlans.tsx:62`), so a click on an old row turns back what another admin
  did meanwhile (`TogglePlan`, `ExecuteSwitch`): no property of Dashboard
  excludes it;
* the answer of a grant closes whichever dialog is open by then, also another
  account's (`AdminUsers.tsx:54`, `Answer`), and a second click on Grant before
  the first is answered grants twice: each is accounted for, neither is refused;
* the vouchers page says that a new batch is "also in the table below"
  (`AdminVouchers.tsx:133`), which an older listing that arrives late, or the
  listing's LIMIT, makes untrue;
* a change whose backend dies before `audit.log` has no entry
  (`ClicksAreAccounted` therefore asks for entries only of what is done, and not
  the other way round);
* the stored context outlives the address it was signed for: after the device got
  another one the page still sends the old pair (`fasContext.ts:17-28`);
* when `.env` names another admin, the account of the former one stays an admin
  (`seed-admin.ts`, `SeedAdmin`), and when it names a name that a customer has
  registered, that account becomes the admin's, with the new password; the
  tokens its customer holds still say "customer";
* tokens are checked by their signature alone (`jwt-auth.guard.ts:23`): a logout, or
  a database that was dropped and made anew with the same key, leaves a copied
  one valid for its seven days, also under an `.env` with other names (Identity
  does not have the drop);
* the throttler of the login counts by IP, and behind the proxy every request comes
  from the same one (`auth.controller.ts:43`): all customers share the limit;
* `db.service.ts` asks that every change of a balance go through `tx`; the grant is
  one UPDATE without, which is atomic all the same;
* the names of registered customers and the seats' numbers share one table, so a
  registered number keeps its owner's password and also opens as a seat
  (`Seated`, `ClientLogin`);
* an installation that stops between ALTER ROLE and the restart of the services
  leaves these with the old password (`install.sh:104`, `245`), until a run ends
  (`DoneIsCurrent`);
* a refresh moves `last_tick` without charging (`sessions.service.ts:81`), while
  `main.ts:95-97` says that the two only advance together (it means its own
  transaction); and as its `now()` is the start of a transaction that may have
  waited for a pass, it can move it back (`RefreshGoesForward`, section 4), so
  that a device which asks again and again while passes run is charged for the
  same seconds more than twice;
* what a session used since its last settlement is not charged when a connect
  displaces it, a kick marks it or its device leaves (`main.ts:120`): up to one
  interval is free;
* `create` updates a request by key even when it was decided meanwhile
  (`requests.service.ts:40`): the ask of a decided request may change, never its
  status (`DecisionStands`);
* the page offers a device neither the automatic connect nor the button while
  another device of the account is online (`OnlineStatus.tsx:61`, `67`), and its
  `connected` is never taken back, so it says "You are online" after a kick until
  it is unmounted;
* one failed balance poll unmounts `OnlineStatus`, and the next good one mounts it
  afresh and may connect again.

## 6. Plan

Done: the core (`CafeState`, `Sessions`, `SessionManager`, `Access`, `Accounts`),
`Vouchers`, `PlanRequests` and `PayOnce`, `Portal`, `Counter`, `Dashboard`, `Identity`
and `Deploy`, all with their proofs.  Left, in this order:

1. *RowLocks.*  PostgreSQL's row locks one by one, with waiting and deadlock
   detection, for the lock orders of `connect` (account, its sessions, another
   account's session), `tick` (sessions and accounts in join order) and `redeem`
   (voucher, account): that a cycle of waits is always broken and everyone else
   goes on, and that `TickLock`, which takes all locks of a pass at once, loses
   nothing but the waits.
2. *Metering.*  The minutes of `ndsctl auth` counted down by OpenNDS against the
   balance of several devices, with rounding up: how far a device can outlive
   its account's balance.
3. *Requests between pages and backend.*  `Counter` takes `create` and `decide` as one
   step each, `PlanRequests` takes them apart: a common abstract table of requests
   that both implement, as `FeedsPage` does it for `Portal` and `Access`.

Runs are merged or re-aimed as these come, so that each keeps asking one
question.

### Not modelled, and why

* the styles (`style.ts`), the types of the API, `main.ts` and `app.module.ts`: layout
  and wiring, no state and no decision;
* the templates of OpenNDS, nftables, dnsmasq and Caddy, the packages and network
  interfaces: read by other programs; Deploy knows only which edition was
  rendered;
* the overview's table of sessions: it lists and calls `kick`, which is
  `Sessions`';
* `devices`, `last_seen`, the listings of `me` and the countdown between polls:
  nothing decides on them;
* the pool's ten connections and the waiting for locks (plan, 1).

## 7. Running

```
tlc -config access_account.cfg MCAccess.tla      # likewise every *.cfg
tlc -config portal.cfg MCPortal.tla
tlc -config dashboard.cfg MCDashboard.tla
tlc -config identity.cfg MCIdentity.tla
tlc -config counter.cfg MCCounter.tla
tlc -config deploy.cfg MCDeploy.tla
tlapm AccessProofs.tla && tlapm PortalProofs.tla
tlapm VouchersProofs.tla && tlapm RequestProofs.tla
tlapm CounterProofs.tla && tlapm DeployProofs.tla
tlapm DashboardProofs.tla && tlapm IdentityProofs.tla
```
