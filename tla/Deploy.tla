------------------------------- MODULE Deploy -------------------------------
(***************************************************************************)
(* Installing, updating and removing the café: install.sh with migrate.ts  *)
(* and seed-admin.ts, uninstall.sh, and the services under systemd.        *)
(* Both scripts stop at the first command that fails, may be interrupted   *)
(* at any step, and are run again; the box may reboot and services crash   *)
(* at any moment, also while a script runs.                                *)
(*                                                                         *)
(* A release is a number: release v brings the migrations 1..v.  Of .env   *)
(* there are numbered editions, 0 standing for none.                       *)
(***************************************************************************)
EXTENDS Naturals, Sequences

CONSTANTS
  MaxRelease,   \* bound: the last release
  MaxEdition,   \* bound: the last edition of .env
  ClientCount,  \* CLIENT_COUNT of each edition
  MaxAttempts   \* how often install.sh tries to start OpenNDS: 5

Releases == 1..MaxRelease
Editions == 1..MaxEdition

ASSUME DeployAssumption ==
  /\ MaxRelease \in Nat /\ MaxEdition \in Nat /\ MaxAttempts \in Nat \ {0}
  /\ ClientCount \in [Editions -> Nat]

VARIABLES
  repo,       \* the release that is checked out
  dotenv,     \* the edition of .env
  script,     \* the script that runs or ran last
  built,      \* the release in backend/dist, 0 for none
  role,       \* the edition whose DB_PASS the database role has, 0 for no role
  recorded,   \* _migrations: the files applied
  effects,    \* how often the statements of each file have taken effect
  admin,      \* the edition whose ADMIN_PASS the admin account has
  clients,    \* customer accounts 1..clients exist
  opt,        \* the releases whose files are in /opt/cybera
  etc,        \* the edition in /etc/cybera/cybera.env
  gateway,    \* the edition in the rendered configuration, /etc/config/opennds
  units,      \* whether the unit files are installed
  enabled,    \* the services systemd starts at boot
  running     \* for each service, what its process has loaded

source   == <<repo, dotenv>>
database == <<role, recorded, effects, admin, clients>>
files    == <<opt, etc, gateway, units>>
services == <<enabled, running>>
vars     == <<source, script, built, database, files, services>>

Services == {"backend", "manager", "opennds"}

Off == [code |-> 0, env |-> 0]

\* No script has run, or the last one was cut short.
NoScript == [name |-> "none", at |-> 0, env |-> 0, turn |-> 0]

\* Mutant: the application is copied before the migrations run.
Install_Mutant ==
  <<"role", "build", "copy", "copied", "migrate", "admin", "clients",
    "gateway", "config", "units", "backend", "manager", "opennds">>

\* The commands of install.sh that matter here, in their order.
Install ==
  <<"role", "build", "migrate", "admin", "clients", "copy", "copied",
    "gateway", "config", "units", "backend", "manager", "opennds">>

\* Mutant: the services are stopped after their files are gone.
Uninstall_Mutant == <<"etc", "opt", "stop", "units", "database">>

\* Those of uninstall.sh.
Uninstall == <<"stop", "units", "opt", "etc", "database">>

Steps == [install |-> Install, uninstall |-> Uninstall]

Running == script.name # "none" /\ script.at <= Len(Steps[script.name])
Done(name) == script.name = name /\ ~Running
At(name, step) ==
  script.name = name /\ Running /\ Steps[name][script.at] = step

TypeOK ==
  /\ repo \in Releases /\ dotenv \in Editions
  /\ \/ script = NoScript
     \/ /\ script \in [name : {"install", "uninstall"}, at : 1..Len(Install) + 1,
                       env : Editions, turn : Nat]
        /\ script.at <= Len(Steps[script.name]) + 1
  /\ built \in 0..MaxRelease
  /\ role \in 0..MaxEdition /\ admin \in 0..MaxEdition 
  /\ etc \in 0..MaxEdition /\ gateway \in 0..MaxEdition
  /\ recorded \subseteq Releases
  /\ effects \in [Releases -> Nat]
  /\ clients \in Nat
  /\ opt \subseteq Releases
  /\ units \in BOOLEAN
  /\ enabled \subseteq Services
  /\ running \in [Services -> [code : 0..MaxRelease, env : Editions] \cup {Off}]

Init ==
  /\ repo \in Releases /\ dotenv \in Editions
  /\ script = NoScript
  /\ built = 0
  /\ role = 0 /\ recorded = {} /\ effects = [f \in Releases |-> 0]
  /\ admin = 0 /\ clients = 0
  /\ opt = {} /\ etc = 0 /\ gateway = 0 /\ units = FALSE
  /\ enabled = {} /\ running = [s \in Services |-> Off]

-----------------------------------------------------------------------------
\* The operator pulls another release or edits .env, between two runs: both
\* scripts read .env when they start, and install.sh copies it later.
Pull(v) ==
  /\ ~Running
  /\ repo' = v
  /\ UNCHANGED <<dotenv, script, built, database, files, services>>

EditEnv(e) ==
  /\ ~Running
  /\ dotenv' = e
  /\ UNCHANGED <<repo, script, built, database, files, services>>

Start(name) ==
  /\ ~Running
  /\ script' = [name |-> name, at |-> 1, env |-> dotenv, turn |-> 0]
  /\ UNCHANGED <<source, built, database, files, services>>

Advance == script' = [script EXCEPT !.at = @ + 1]

\* A command fails, the operator interrupts: what is done stays done, an open
\* transaction is rolled back.
Interrupt ==
  /\ Running
  /\ script' = NoScript
  /\ UNCHANGED <<source, built, database, files, services>>

-----------------------------------------------------------------------------
(***************************************************************************)
(* install.sh                                                              *)
(***************************************************************************)

\* The role and the database, created or kept; the password is set either way.
ConfigureRole ==
  /\ At("install", "role")
  /\ role' = script.env
  /\ Advance
  /\ UNCHANGED <<source, built, recorded, effects, admin, clients, files, services>>

Build ==
  /\ At("install", "build")
  /\ built' = repo
  /\ Advance
  /\ UNCHANGED <<source, database, files, services>>

\* Mutant: _migrations is written but not looked at.
Unapplied_Mutant == 1..built
Unapplied == 1..built \ recorded

\* BEGIN and the statements of the first file not recorded, seen by nobody yet,
MigrateApply(f) ==
  /\ At("install", "migrate") /\ script.turn = 0
  /\ f \in Unapplied /\ \A g \in Unapplied : f <= g
  /\ script' = [script EXCEPT !.turn = f]
  /\ UNCHANGED <<source, built, database, files, services>>

\* the record, and COMMIT of both.
MigrateCommit ==
  /\ At("install", "migrate") /\ script.turn # 0
  /\ recorded' = recorded \cup {script.turn}
  /\ effects' = [effects EXCEPT ![script.turn] = @ + 1]
  /\ script' = [script EXCEPT !.turn = 0]
  /\ UNCHANGED <<source, built, role, admin, clients, files, services>>

MigrateDone ==
  /\ At("install", "migrate") /\ script.turn = 0
  /\ Unapplied = {}
  /\ Advance
  /\ UNCHANGED <<source, built, database, files, services>>

\* INSERT ... ON CONFLICT DO UPDATE
SeedAdmin ==
  /\ At("install", "admin")
  /\ admin' = script.env
  /\ Advance
  /\ UNCHANGED <<source, built, role, recorded, effects, clients, files, services>>

\* INSERT ... ON CONFLICT DO NOTHING: a lower CLIENT_COUNT removes nobody.
SeedClients ==
  /\ At("install", "clients")
  /\ clients' = IF clients < ClientCount[script.env]
                  THEN ClientCount[script.env] ELSE clients
  /\ Advance
  /\ UNCHANGED <<source, built, role, recorded, effects, admin, files, services>>

\* rsync --delete, with the files of two releases side by side meanwhile.
Copy ==
  /\ At("install", "copy")
  /\ opt' = opt \cup {built}
  /\ Advance
  /\ UNCHANGED <<source, built, database, etc, gateway, units, services>>

Copied ==
  /\ At("install", "copied")
  /\ opt' = {built}
  /\ Advance
  /\ UNCHANGED <<source, built, database, etc, gateway, units, services>>

\* The templates take the values the script read when it started,
RenderGateway ==
  /\ At("install", "gateway")
  /\ gateway' = script.env
  /\ Advance
  /\ UNCHANGED <<source, built, database, opt, etc, units, services>>

\* cybera.env the file as it is now.
RenderConfig ==
  /\ At("install", "config")
  /\ etc' = dotenv
  /\ Advance
  /\ UNCHANGED <<source, built, database, opt, gateway, units, services>>

InstallUnits ==
  /\ At("install", "units")
  /\ units' = TRUE
  /\ Advance
  /\ UNCHANGED <<source, built, database, opt, etc, gateway, services>>

\* A process loads its files and its environment once, when it starts.
Loaded(s) ==
  IF s = "opennds" THEN [code : {0}, env : {gateway}]
                   ELSE [code : opt, env : {etc}]

\* Mutant: systemctl enable --now leaves a running process alone.
Restarted_Mutant(s) == IF running[s] = Off THEN Loaded(s) ELSE {running[s]}

\* systemctl restart
Restarted(s) == Loaded(s)

\* Mutant: the unit is started, and not enabled.
Enabled_Mutant(s) == enabled
Enabled(s) == enabled \cup {s}

LaunchService(s) ==
  /\ At("install", s)
  /\ enabled' = Enabled(s)
  /\ \E p \in Restarted(s) : running' = [running EXCEPT ![s] = p]
  /\ script' = [script EXCEPT !.at = @ + 1, !.turn = 0]
  /\ UNCHANGED <<source, built, database, files>>

\* OpenNDS does not come up again after systemctl restart has stopped it: one
\* more attempt, or none is left and the script dies.
LaunchFail ==
  /\ At("install", "opennds")
  /\ enabled' = Enabled("opennds")
  /\ running' = [running EXCEPT !["opennds"] = Off]
  /\ script' = IF script.turn + 1 < MaxAttempts
                 THEN [script EXCEPT !.turn = @ + 1] ELSE NoScript
  /\ UNCHANGED <<source, built, database, files>>

-----------------------------------------------------------------------------
(***************************************************************************)
(* uninstall.sh                                                            *)
(***************************************************************************)
StopServices ==
  /\ At("uninstall", "stop")
  /\ enabled' = {}
  /\ running' = [s \in Services |-> Off]
  /\ Advance
  /\ UNCHANGED <<source, built, database, files>>

RemoveUnits ==
  /\ At("uninstall", "units")
  /\ units' = FALSE
  /\ Advance
  /\ UNCHANGED <<source, built, database, opt, etc, gateway, services>>

RemoveApp ==
  /\ At("uninstall", "opt")
  /\ opt' = {}
  /\ Advance
  /\ UNCHANGED <<source, built, database, etc, gateway, units, services>>

RemoveEnv ==
  /\ At("uninstall", "etc")
  /\ etc' = 0
  /\ Advance
  /\ UNCHANGED <<source, built, database, opt, gateway, units, services>>

KeepDatabase ==
  /\ At("uninstall", "database")
  /\ Advance
  /\ UNCHANGED <<source, built, database, files, services>>

\* --drop-db
DropDatabase ==
  /\ At("uninstall", "database")
  /\ role' = 0 /\ admin' = 0 /\ clients' = 0
  /\ recorded' = {} /\ effects' = [f \in Releases |-> 0]
  /\ Advance
  /\ UNCHANGED <<source, built, files, services>>

-----------------------------------------------------------------------------
(***************************************************************************)
(* systemd                                                                 *)
(***************************************************************************)

\* At boot, and a few seconds after a crash or a failed start (Restart=always,
\* and on-failure in the drop-in for OpenNDS).
ServiceStart(s) ==
  /\ s \in enabled /\ units
  /\ running[s] = Off
  /\ \E p \in Loaded(s) : running' = [running EXCEPT ![s] = p]
  /\ UNCHANGED <<source, script, built, database, files, enabled>>

ServiceCrash(s) ==
  /\ running[s] # Off
  /\ running' = [running EXCEPT ![s] = Off]
  /\ UNCHANGED <<source, script, built, database, files, enabled>>

Reboot ==
  /\ running' = [s \in Services |-> Off]
  /\ script' = IF Running THEN NoScript ELSE script
  /\ UNCHANGED <<source, built, database, files, enabled>>

Operator ==
  \/ \E v \in Releases : Pull(v)
  \/ \E e \in Editions : EditEnv(e)
  \/ \E name \in {"install", "uninstall"} : Start(name)
  \/ Interrupt

Installing ==
  \/ ConfigureRole \/ Build
  \/ (\E f \in Releases : MigrateApply(f)) \/ MigrateCommit \/ MigrateDone
  \/ SeedAdmin \/ SeedClients \/ Copy \/ Copied
  \/ RenderGateway \/ RenderConfig \/ InstallUnits
  \/ (\E s \in Services : LaunchService(s)) \/ LaunchFail

Removing ==
  \/ StopServices \/ RemoveUnits \/ RemoveApp \/ RemoveEnv
  \/ KeepDatabase \/ DropDatabase

Systemd == (\E s \in Services : ServiceStart(s) \/ ServiceCrash(s)) \/ Reboot

Next == Operator \/ Installing \/ Removing \/ Systemd

\* systemd starts what it is to run.
Fairness == \A s \in Services : WF_vars(ServiceStart(s))

Spec == Init /\ [][Next]_vars /\ Fairness

-----------------------------------------------------------------------------
\* No process ever runs code whose migrations are missing from the database,
\* whatever is interrupted, downgraded, removed and installed again, and
\* whenever systemd restarts a service.
SchemaCoversCode ==
  \A s \in Services : running[s] # Off => 1..running[s].code \subseteq recorded

\* "each applied file is recorded ... and never re-run": a file has taken effect
\* once when it is recorded and not at all before, and none is skipped.
MigratedOnce ==
  /\ \A f \in Releases : effects[f] = IF f \in recorded THEN 1 ELSE 0
  /\ \A f \in recorded, g \in Releases : g < f => g \in recorded

\* "re-run it after changing .env or pulling updates": whatever was interrupted
\* before, after a run that ends the role, the admin account, the numbered
\* accounts and every service are those of its release and its .env; OpenNDS and
\* the backend, in particular, have the same FAS_KEY.
DoneIsCurrent ==
  Done("install") =>
    /\ {role, admin, etc, gateway} = {script.env}
    /\ ClientCount[script.env] <= clients
    /\ opt = {built} /\ units
    /\ \A s \in Services :
         running[s] # Off => running[s] =
           [code |-> IF s = "opennds" THEN 0 ELSE built, env |-> script.env]

\* "everything survives a reboot": after a completed run each service comes back
\* from every crash and reboot, until a script is started.
SurvivesReboot ==
  \A s \in Services :
    (Done("install") /\ running[s] = Off) ~> (running[s] # Off \/ ~Done("install"))
=============================================================================
