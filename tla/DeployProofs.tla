---------------------------- MODULE DeployProofs ----------------------------
(***************************************************************************)
(* Theorems about Deploy, for every number of releases, of editions of     *)
(* .env and of attempts to start OpenNDS.                                  *)
(***************************************************************************)
EXTENDS Deploy, TLAPS

\* install.sh is past its first n commands, and uninstall.sh past its own.
Installed(n) == script.name = "install" /\ n < script.at
Removed(n) == script.name = "uninstall" /\ n < script.at

\* The file under way is the first one not recorded.
NextInTurn ==
  /\ script.name = "install" /\ script.at \notin {3, 13} => script.turn = 0
  /\ script.name = "install" /\ script.at = 3 /\ script.turn # 0
       => script.turn \in Unapplied /\ \A g \in Unapplied : script.turn <= g

\* What is built, copied or running has its migrations.
Covered ==
  /\ Installed(2) => built \in Releases
  /\ Installed(3) => 1..built \subseteq recorded
  /\ \A v \in opt : 1..v \subseteq recorded
  /\ SchemaCoversCode

\* uninstall.sh stops what it is going to remove.
Cleared ==
  /\ Removed(1) => enabled = {} /\ \A s \in Services : running[s] = Off
  /\ Removed(2) => ~units
  /\ Removed(3) => opt = {}

\* A unit finds its environment.
Furnished == units => etc \in Editions /\ gateway \in Editions

Fresh(s) == [code |-> IF s = "opennds" THEN 0 ELSE built, env |-> script.env]

\* What each command of install.sh leaves behind for the rest of the run.
Progress ==
  /\ Running => dotenv = script.env
  /\ Installed(1) => role = script.env
  /\ Installed(4) => admin = script.env
  /\ Installed(5) => ClientCount[script.env] <= clients
  /\ Installed(6) => built \in opt
  /\ Installed(7) => opt = {built}
  /\ Installed(8) => gateway = script.env
  /\ Installed(9) => etc = script.env
  /\ Installed(10) => units
  /\ Installed(11) => running["backend"] \in {Off, Fresh("backend")}
  /\ Installed(12) => running["manager"] \in {Off, Fresh("manager")}
  /\ Installed(13) => running["opennds"] \in {Off, Fresh("opennds")}

(***************************************************************************)
(* TypeOK with the lengths of the two scripts worked out.                  *)
(***************************************************************************)
ScriptType ==
  \/ script = NoScript
  \/ /\ script \in [name : {"install", "uninstall"}, at : 1..14,
                    env : Editions, turn : Nat]
     /\ script.name = "uninstall" => script.at <= 6

SystemType ==
  /\ repo \in Releases /\ dotenv \in Editions
  /\ built \in 0..MaxRelease
  /\ role \in 0..MaxEdition /\ admin \in 0..MaxEdition
  /\ etc \in 0..MaxEdition /\ gateway \in 0..MaxEdition
  /\ recorded \subseteq Releases
  /\ effects \in [Releases -> Nat]
  /\ clients \in Nat
  /\ opt \subseteq Releases
  /\ units \in BOOLEAN
  /\ enabled \subseteq Services
  /\ running \in [Services -> [code : 0..MaxRelease, env : Editions] \cup {Off}]

IInv ==
  /\ ScriptType /\ SystemType
  /\ NextInTurn /\ MigratedOnce
  /\ Covered /\ Cleared /\ Furnished /\ Progress

-----------------------------------------------------------------------------
(***************************************************************************)
(* Facts about the scripts.                                                *)
(***************************************************************************)

\* The scripts are 13 and 5 commands long here.
LEMMA Lengths == Len(Install) = 13 /\ Len(Uninstall) = 5
BY DEF Install, Uninstall

\* The commands of the script that runs.
LEMMA Commands ==
  /\ script.name = "install" => Steps[script.name] = Install
  /\ script.name = "uninstall" => Steps[script.name] = Uninstall
BY DEF Steps

\* The worked out types are those of TypeOK.
LEMMA TypesAgree ==
  ASSUME ScriptType, SystemType
  PROVE  TypeOK
<1>1. ASSUME script # NoScript
      PROVE  /\ script \in [name : {"install", "uninstall"}, at : 1..Len(Install) + 1,
                            env : Editions, turn : Nat]
             /\ script.at <= Len(Steps[script.name]) + 1
  <2>1. /\ script \in [name : {"install", "uninstall"}, at : 1..14,
                       env : Editions, turn : Nat]
        /\ script.name = "uninstall" => script.at <= 6
    BY <1>1 DEF ScriptType
  <2>2. 1..Len(Install) + 1 = 1..14
    BY Lengths
  <2>3. CASE script.name = "install"
    <3>1. Len(Steps[script.name]) = 13
      BY <2>3, Commands, Lengths
    <3> QED BY <2>1, <2>2, <3>1
  <2>4. CASE script.name = "uninstall"
    <3>1. Len(Steps[script.name]) = 5
      BY <2>4, Commands, Lengths
    <3> QED BY <2>1, <2>2, <2>4, <3>1
  <2> QED BY <2>1, <2>3, <2>4
<1> QED BY <1>1 DEF SystemType, TypeOK

\* Where a script is before each of its commands.
LEMMA InstallAt ==
  ASSUME ScriptType, NEW step, At("install", step)
  PROVE  /\ script.name = "install" /\ script.at \in 1..13
         /\ script \in [name : {"install"}, at : 1..13, env : Editions, turn : Nat]
         /\ step = Install[script.at]
<1>1. script.name = "install" /\ script # NoScript /\ Steps[script.name] = Install
  BY Commands DEF At, NoScript
<1>2. script.at <= 13 /\ step = Install[script.at]
  BY <1>1, Lengths DEF At, Running, Steps
<1>3. script \in [name : {"install", "uninstall"}, at : 1..14, env : Editions, turn : Nat]
  BY <1>1 DEF ScriptType
<1>4. script.at \in 1..13
  BY <1>2, <1>3
<1> QED BY <1>1, <1>2, <1>3, <1>4

\* The same of uninstall.sh.
LEMMA UninstallAt ==
  ASSUME ScriptType, NEW step, At("uninstall", step)
  PROVE  /\ script.name = "uninstall" /\ script.at \in 1..5
         /\ script \in [name : {"uninstall"}, at : 1..5, env : Editions, turn : Nat]
         /\ step = Uninstall[script.at]
<1>1. script.name = "uninstall" /\ script # NoScript /\ Steps[script.name] = Uninstall
  BY Commands DEF At, NoScript
<1>2. script.at <= 5 /\ step = Uninstall[script.at]
  BY <1>1, Lengths DEF At, Running, Steps
<1>3. script \in [name : {"install", "uninstall"}, at : 1..14, env : Editions, turn : Nat]
  BY <1>1 DEF ScriptType
<1>4. script.at \in 1..5
  BY <1>2, <1>3
<1> QED BY <1>1, <1>2, <1>3, <1>4

\* Each command has one place.
LEMMA InstallPlaces ==
  ASSUME ScriptType
  PROVE  /\ At("install", "role") => script.at = 1
         /\ At("install", "build") => script.at = 2
         /\ At("install", "migrate") => script.at = 3
         /\ At("install", "admin") => script.at = 4
         /\ At("install", "clients") => script.at = 5
         /\ At("install", "copy") => script.at = 6
         /\ At("install", "copied") => script.at = 7
         /\ At("install", "gateway") => script.at = 8
         /\ At("install", "config") => script.at = 9
         /\ At("install", "units") => script.at = 10
         /\ At("install", "backend") => script.at = 11
         /\ At("install", "manager") => script.at = 12
         /\ At("install", "opennds") => script.at = 13
<1> SUFFICES ASSUME NEW step, At("install", step)
             PROVE  /\ step = "role" => script.at = 1
                    /\ step = "build" => script.at = 2
                    /\ step = "migrate" => script.at = 3
                    /\ step = "admin" => script.at = 4
                    /\ step = "clients" => script.at = 5
                    /\ step = "copy" => script.at = 6
                    /\ step = "copied" => script.at = 7
                    /\ step = "gateway" => script.at = 8
                    /\ step = "config" => script.at = 9
                    /\ step = "units" => script.at = 10
                    /\ step = "backend" => script.at = 11
                    /\ step = "manager" => script.at = 12
                    /\ step = "opennds" => script.at = 13
  OBVIOUS
<1> QED BY InstallAt DEF Install

\* The same of uninstall.sh.
LEMMA UninstallPlaces ==
  ASSUME ScriptType
  PROVE  /\ At("uninstall", "stop") => script.at = 1
         /\ At("uninstall", "units") => script.at = 2
         /\ At("uninstall", "opt") => script.at = 3
         /\ At("uninstall", "etc") => script.at = 4
         /\ At("uninstall", "database") => script.at = 5
<1> SUFFICES ASSUME NEW step, At("uninstall", step)
             PROVE  /\ step = "stop" => script.at = 1
                    /\ step = "units" => script.at = 2
                    /\ step = "opt" => script.at = 3
                    /\ step = "etc" => script.at = 4
                    /\ step = "database" => script.at = 5
  OBVIOUS
<1> QED BY UninstallAt DEF Uninstall

\* A script that runs is before its end.
LEMMA RunningAt ==
  ASSUME ScriptType
  PROVE  /\ Running <=> \/ script.name = "install" /\ script.at <= 13
                        \/ script.name = "uninstall" /\ script.at <= 5
         /\ Done("install") => script.name = "install" /\ script.at = 14
<1>1. CASE script = NoScript
  BY <1>1 DEF NoScript, Running, Done
<1>2. CASE script # NoScript
  <2>1. /\ script.name \in {"install", "uninstall"}
        /\ script.at \in 1..14
    BY <1>2 DEF ScriptType
  <2>2. Running <=> script.at <= Len(Steps[script.name])
    BY <2>1 DEF Running
  <2>3. CASE script.name = "install"
    <3>1. Running <=> script.at <= 13
      BY <2>2, <2>3, Commands, Lengths
    <3> QED BY <2>1, <2>3, <3>1 DEF Done
  <2>4. CASE script.name = "uninstall"
    <3>1. Running <=> script.at <= 5
      BY <2>2, <2>4, Commands, Lengths
    <3> QED BY <2>4, <3>1 DEF Done
  <2> QED BY <2>1, <2>3, <2>4
<1> QED BY <1>1, <1>2
\* One command further.
LEMMA AdvanceInstall ==
  ASSUME ScriptType, NEW step, At("install", step), Advance
  PROVE  /\ ScriptType'
         /\ script'.name = "install" /\ script'.at = script.at + 1
         /\ script'.env = script.env /\ script'.turn = script.turn
<1>1. script \in [name : {"install"}, at : 1..13, env : Editions, turn : Nat]
  BY InstallAt
<1>2. script' = [name |-> "install", at |-> script.at + 1,
                 env |-> script.env, turn |-> script.turn]
  BY <1>1 DEF Advance
<1> QED BY <1>1, <1>2 DEF ScriptType

\* The same of uninstall.sh.
LEMMA AdvanceUninstall ==
  ASSUME ScriptType, NEW step, At("uninstall", step), Advance
  PROVE  /\ ScriptType'
         /\ script'.name = "uninstall" /\ script'.at = script.at + 1
         /\ script'.env = script.env
<1>1. script \in [name : {"uninstall"}, at : 1..5, env : Editions, turn : Nat]
  BY UninstallAt
<1>2. script' = [name |-> "uninstall", at |-> script.at + 1,
                 env |-> script.env, turn |-> script.turn]
  BY <1>1 DEF Advance
<1> QED BY <1>1, <1>2 DEF ScriptType

\* The invariant holds initially.
LEMMA InitStep == Init => IInv
<1> SUFFICES ASSUME Init
             PROVE  IInv
  OBVIOUS
<1>1. ScriptType /\ SystemType
  <2>1. /\ \A n \in {0} : n \in 0..MaxRelease /\ n \in 0..MaxEdition
        /\ 0 \in Nat
    BY DeployAssumption
  <2>2. /\ effects \in [Releases -> Nat]
        /\ running \in [Services -> [code : 0..MaxRelease, env : Editions] \cup {Off}]
    BY DEF Init
  <2> QED BY <2>1, <2>2 DEF Init, ScriptType, SystemType
<1>2. NextInTurn /\ Cleared /\ Furnished
  BY DEF Init, NextInTurn, Cleared, Furnished, Removed, NoScript
<1>3. MigratedOnce
  BY DEF Init, MigratedOnce
<1>4. Covered
  BY DEF Init, Covered, Installed, SchemaCoversCode, NoScript, Off
<1>5. Progress
  BY <1>1, RunningAt DEF Init, Progress, Installed, NoScript
<1> QED BY <1>1, <1>2, <1>3, <1>4, <1>5 DEF IInv

-----------------------------------------------------------------------------
(***************************************************************************)
(* The operator.                                                           *)
(***************************************************************************)
LEMMA OperatorStep ==
  ASSUME IInv, Operator
  PROVE  IInv'
<1>1. UNCHANGED <<built, database, files, services>>
  BY DEF Operator, Pull, EditEnv, Start, Interrupt
<1>2. CASE UNCHANGED script
  <2>1. ~Running /\ ~Running'
    BY <1>2, RunningAt DEF Operator, Pull, EditEnv, Start, Interrupt, NoScript, IInv, Running
  <2>2. SystemType'
    BY <1>1, <1>2 DEF Operator, Pull, EditEnv, Start, Interrupt, IInv, SystemType, database, files, services, source
  <2>3. ScriptType' /\ NextInTurn' /\ MigratedOnce' /\ Covered' /\ Cleared' /\ Furnished'
    BY <1>1, <1>2
       DEF IInv, ScriptType, NextInTurn, Unapplied, MigratedOnce, Covered, SchemaCoversCode,
           Cleared, Furnished, Installed, Removed, database, files, services
  <2>4. Progress'
    BY <1>1, <1>2, <2>1
       DEF IInv, Progress, Fresh, Installed, database, files, services
  <2> QED BY <2>2, <2>3, <2>4 DEF IInv
<1>3. CASE UNCHANGED source /\ (\E name \in {"install", "uninstall"} : Start(name))
  <2>1. PICK name \in {"install", "uninstall"} :
          script' = [name |-> name, at |-> 1, env |-> dotenv, turn |-> 0]
    BY <1>3 DEF Start
  <2>2. ScriptType' /\ SystemType'
    BY <1>1, <1>3, <2>1 DEF IInv, ScriptType, SystemType, database, files, services, source
  <2>3. /\ NextInTurn' /\ Cleared' /\ Furnished' /\ MigratedOnce' /\ Covered'
    BY <1>1, <2>1
       DEF IInv, NextInTurn, MigratedOnce, Covered, SchemaCoversCode,
           Cleared, Furnished, Installed, Removed, database, files, services
  <2>4. Progress'
    BY <1>3, <2>1 DEF Progress, Installed, source
  <2> QED BY <2>2, <2>3, <2>4 DEF IInv
<1>4. CASE Interrupt
  <2>1. script' = NoScript /\ UNCHANGED source
    BY <1>4 DEF Interrupt
  <2>2. ScriptType' /\ SystemType'
    BY <1>1, <2>1 DEF IInv, ScriptType, SystemType, database, files, services, source
  <2>3. NextInTurn' /\ Cleared' /\ Furnished' /\ MigratedOnce' /\ Covered'
    BY <1>1, <2>1
       DEF IInv, NextInTurn, MigratedOnce, Covered, SchemaCoversCode, NoScript,
           Cleared, Furnished, Installed, Removed, database, files, services
  <2>4. ~Running'
    BY <2>1 DEF NoScript, Running
  <2>5. Progress'
    BY <2>1, <2>4 DEF Progress, Installed, NoScript
  <2> QED BY <2>2, <2>3, <2>5 DEF IInv
<1> QED BY <1>2, <1>3, <1>4 DEF Operator, Pull, EditEnv, Start, Interrupt

-----------------------------------------------------------------------------
(***************************************************************************)
(* install.sh.  Each command is at its place, and what it writes is what   *)
(* the later ones count on.                                                *)
(***************************************************************************)
LEMMA RoleStep ==
  ASSUME IInv, ConfigureRole
  PROVE  IInv'
<1>1. script.at = 1 /\ At("install", "role") /\ Advance
  BY InstallPlaces DEF ConfigureRole, IInv
<1>2. /\ ScriptType'
      /\ script'.name = "install" /\ script'.at = 2
      /\ script'.env = script.env /\ script'.turn = script.turn
  BY <1>1, AdvanceInstall DEF IInv
<1>3. /\ role' = script.env
      /\ UNCHANGED <<source, built, recorded, effects, admin, clients, files, services>>
  BY DEF ConfigureRole
<1>4. script.env \in 0..MaxEdition /\ script.name = "install"
  BY <1>1, InstallAt, DeployAssumption DEF IInv, Editions
<1>5. Running
  BY <1>1 DEF At
<1>6. SystemType'
  BY <1>3, <1>4 DEF IInv, SystemType, source, files, services
<1>7. NextInTurn' /\ MigratedOnce' /\ Covered' /\ Cleared' /\ Furnished'
  BY <1>1, <1>2, <1>3, <1>4
     DEF IInv, NextInTurn, MigratedOnce, Covered, SchemaCoversCode, Cleared,
         Furnished, Installed, Removed, source, files, services
<1>8. Progress'
  BY <1>2, <1>3, <1>5 DEF IInv, Progress, Installed, source
<1> QED BY <1>2, <1>6, <1>7, <1>8 DEF IInv

\* Another release is built.
LEMMA BuildStep ==
  ASSUME IInv, Build
  PROVE  IInv'
<1>1. script.at = 2 /\ At("install", "build") /\ Advance
  BY InstallPlaces DEF Build, IInv
<1>2. /\ ScriptType'
      /\ script'.name = "install" /\ script'.at = 3
      /\ script'.env = script.env /\ script'.turn = script.turn
  BY <1>1, AdvanceInstall DEF IInv
<1>3. built' = repo /\ UNCHANGED <<source, database, files, services>>
  BY DEF Build
<1>4. Running /\ script.name = "install"
  BY <1>1, InstallAt DEF At, IInv
<1>5. SystemType'
  BY <1>3, DeployAssumption DEF IInv, SystemType, Releases, source, database, files, services
<1>6. NextInTurn'
  BY <1>1, <1>2, <1>4 DEF IInv, NextInTurn
<1>7. MigratedOnce' /\ Covered' /\ Cleared' /\ Furnished'
  BY <1>2, <1>3
     DEF IInv, SystemType, MigratedOnce, Covered, SchemaCoversCode, Cleared,
         Furnished, Installed, Removed, source, database, files, services
<1>8. Progress'
  BY <1>1, <1>2, <1>3, <1>4 DEF IInv, Progress, Installed, source, database
<1> QED BY <1>2, <1>5, <1>6, <1>7, <1>8 DEF IInv

\* The first file not recorded is next in turn, and its record keeps the
\* recorded files without gaps.
LEMMA MigrateStep ==
  ASSUME IInv, (\E f \in Releases : MigrateApply(f)) \/ MigrateCommit \/ MigrateDone
  PROVE  IInv'
<1>1. script.at = 3 /\ At("install", "migrate")
  BY InstallPlaces DEF MigrateApply, MigrateCommit, MigrateDone, IInv
<1>2. /\ Running /\ script.name = "install"
      /\ script \in [name : {"install"}, at : 1..13, env : Editions, turn : Nat]
  BY <1>1, InstallAt DEF At, IInv
<1>3. ASSUME NEW f \in Releases, MigrateApply(f)
      PROVE  IInv'
  <2>1. /\ script' = [script EXCEPT !.turn = f]
        /\ f \in Unapplied /\ \A g \in Unapplied : f <= g
        /\ UNCHANGED <<source, built, database, files, services>>
    BY <1>3 DEF MigrateApply
  <2>2. f \in Nat /\ f # 0
    BY DeployAssumption DEF Releases
  <2>3. /\ script' = [name |-> "install", at |-> 3, env |-> script.env, turn |-> f]
        /\ script.env \in Editions
    BY <1>1, <1>2, <2>1
  <2>4. ScriptType' /\ SystemType'
    <3>1. ScriptType'
      BY <2>2, <2>3 DEF ScriptType
    <3>2. SystemType'
      BY <2>1 DEF IInv, SystemType, source, database, files, services
    <3> QED BY <3>1, <3>2
  <2>5. NextInTurn'
    BY <2>1, <2>3 DEF NextInTurn, Unapplied, database
  <2>6. MigratedOnce' /\ Covered' /\ Cleared' /\ Furnished'
    BY <1>1, <1>2, <2>1, <2>3
       DEF IInv, MigratedOnce, Covered, SchemaCoversCode, Cleared,
           Furnished, Installed, Removed, source, database, files, services
  <2>7. Progress'
    BY <1>1, <1>2, <2>1, <2>3 DEF IInv, Progress, Installed, source, database
  <2> QED BY <2>4, <2>5, <2>6, <2>7 DEF IInv
<1>4. CASE MigrateCommit
  <2>1. /\ script.turn # 0
        /\ recorded' = recorded \cup {script.turn}
        /\ effects' = [effects EXCEPT ![script.turn] = @ + 1]
        /\ script' = [script EXCEPT !.turn = 0]
        /\ UNCHANGED <<source, built, role, admin, clients, files, services>>
    BY <1>4 DEF MigrateCommit
  <2>2. PICK f : f = script.turn
    OBVIOUS
  <2>3. /\ f \in 1..built /\ f \notin recorded
        /\ \A g \in Unapplied : f <= g
    BY <1>1, <1>2, <2>1, <2>2 DEF IInv, NextInTurn, Unapplied
  <2>4. built \in Releases /\ f \in Releases
    BY <1>1, <1>2, <2>3, DeployAssumption DEF IInv, Covered, Installed, Releases
  <2>5. \A g \in Releases : g < f => g \in recorded
    BY <2>3, <2>4, DeployAssumption DEF Releases, Unapplied
  <2>6. /\ script' = [name |-> "install", at |-> 3, env |-> script.env, turn |-> 0]
        /\ script.env \in Editions
    BY <1>1, <1>2, <2>1
  <2>7. effects' \in [Releases -> Nat]
    BY <2>1, <2>2, <2>4 DEF IInv, SystemType
  <2>8. ScriptType' /\ SystemType'
    <3>1. ScriptType'
      BY <2>6 DEF ScriptType
    <3>2. SystemType'
      BY <2>1, <2>2, <2>4, <2>7 DEF IInv, SystemType, source, files, services
    <3> QED BY <3>1, <3>2
  <2>9. MigratedOnce'
    <3>1. \A g \in Releases : effects'[g] = IF g = f THEN effects[f] + 1 ELSE effects[g]
      BY <2>1, <2>2, <2>4 DEF IInv, SystemType
    <3>2. \A g \in Releases : effects'[g] = IF g \in recorded' THEN 1 ELSE 0
      BY <2>1, <2>2, <2>3, <3>1 DEF IInv, MigratedOnce
    <3>3. \A g \in recorded', h \in Releases : h < g => h \in recorded'
      BY <2>1, <2>2, <2>5 DEF IInv, MigratedOnce
    <3> QED BY <3>2, <3>3 DEF MigratedOnce
  <2>10. NextInTurn' /\ Covered' /\ Cleared' /\ Furnished'
    BY <1>1, <1>2, <2>1, <2>4, <2>6
       DEF IInv, NextInTurn, Covered, SchemaCoversCode, Cleared,
           Furnished, Installed, Removed, source, files, services
  <2>11. Progress'
    BY <1>1, <1>2, <2>1, <2>6 DEF IInv, Progress, Installed, source
  <2> QED BY <2>8, <2>9, <2>10, <2>11 DEF IInv
<1>5. CASE MigrateDone
  <2>1. /\ script.turn = 0 /\ Unapplied = {} /\ Advance
        /\ UNCHANGED <<source, built, database, files, services>>
    BY <1>5 DEF MigrateDone
  <2>2. /\ ScriptType'
        /\ script'.name = "install" /\ script'.at = 4
        /\ script'.env = script.env /\ script'.turn = 0
    BY <1>1, <2>1, AdvanceInstall DEF IInv
  <2>3. SystemType'
    BY <2>1 DEF IInv, SystemType, source, database, files, services
  <2>4. 1..built \subseteq recorded
    BY <2>1 DEF Unapplied
  <2>5. NextInTurn' /\ MigratedOnce' /\ Covered' /\ Cleared' /\ Furnished'
    BY <1>1, <1>2, <2>1, <2>2, <2>4
       DEF IInv, NextInTurn, MigratedOnce, Covered, SchemaCoversCode, Cleared,
           Furnished, Installed, Removed, source, database, files, services
  <2>6. Progress'
    BY <1>1, <1>2, <2>1, <2>2 DEF IInv, Progress, Installed, source, database
  <2> QED BY <2>2, <2>3, <2>5, <2>6 DEF IInv
<1> QED BY <1>3, <1>4, <1>5

\* The admin account.
LEMMA SeedAdminStep ==
  ASSUME IInv, SeedAdmin
  PROVE  IInv'
<1>1. script.at = 4 /\ At("install", "admin") /\ Advance
  BY InstallPlaces DEF SeedAdmin, IInv
<1>2. /\ ScriptType'
      /\ script'.name = "install" /\ script'.at = 5
      /\ script'.env = script.env /\ script'.turn = script.turn
  BY <1>1, AdvanceInstall DEF IInv
<1>3. /\ admin' = script.env
      /\ UNCHANGED <<source, built, role, recorded, effects, clients, files, services>>
  BY DEF SeedAdmin
<1>4. /\ Running /\ script.name = "install" /\ script.env \in Editions
      /\ script.turn = 0
  BY <1>1, InstallAt DEF At, IInv, NextInTurn
<1>5. SystemType'
  BY <1>3, <1>4, DeployAssumption
     DEF IInv, SystemType, Editions, source, database, files, services
<1>6. NextInTurn' /\ MigratedOnce' /\ Covered' /\ Cleared' /\ Furnished'
  BY <1>1, <1>2, <1>3, <1>4
     DEF IInv, SystemType, NextInTurn, MigratedOnce, Covered, SchemaCoversCode, Cleared,
         Furnished, Installed, Removed, source, database, files, services
<1>7. Progress'
  BY <1>1, <1>2, <1>3, <1>4
     DEF IInv, Progress, Installed, Fresh, source, database, files, services
<1> QED BY <1>2, <1>5, <1>6, <1>7 DEF IInv

\* The numbered accounts, never fewer.
LEMMA SeedClientsStep ==
  ASSUME IInv, SeedClients
  PROVE  IInv'
<1>1. script.at = 5 /\ At("install", "clients") /\ Advance
  BY InstallPlaces DEF SeedClients, IInv
<1>2. /\ ScriptType'
      /\ script'.name = "install" /\ script'.at = 6
      /\ script'.env = script.env /\ script'.turn = script.turn
  BY <1>1, AdvanceInstall DEF IInv
<1>3. /\ clients' \in {clients, ClientCount[script.env]}
      /\ ClientCount[script.env] <= clients'
      /\ UNCHANGED <<source, built, role, recorded, effects, admin, files, services>>
  BY <1>1, InstallAt, DeployAssumption DEF SeedClients, IInv, SystemType
<1>4. /\ Running /\ script.name = "install" /\ script.env \in Editions
      /\ script.turn = 0
  BY <1>1, InstallAt DEF At, IInv, NextInTurn
<1>5. SystemType'
  BY <1>3, <1>4, DeployAssumption
     DEF IInv, SystemType, Editions, source, database, files, services
<1>6. NextInTurn' /\ MigratedOnce' /\ Covered' /\ Cleared' /\ Furnished'
  BY <1>1, <1>2, <1>3, <1>4
     DEF IInv, SystemType, NextInTurn, MigratedOnce, Covered, SchemaCoversCode, Cleared,
         Furnished, Installed, Removed, source, database, files, services
<1>7. Progress'
  BY <1>1, <1>2, <1>3, <1>4
     DEF IInv, Progress, Installed, Fresh, source, database, files, services
<1> QED BY <1>2, <1>5, <1>6, <1>7 DEF IInv

\* The new files beside the old ones: both have their migrations.
LEMMA CopyStep ==
  ASSUME IInv, Copy
  PROVE  IInv'
<1>1. script.at = 6 /\ At("install", "copy") /\ Advance
  BY InstallPlaces DEF Copy, IInv
<1>2. /\ ScriptType'
      /\ script'.name = "install" /\ script'.at = 7
      /\ script'.env = script.env /\ script'.turn = script.turn
  BY <1>1, AdvanceInstall DEF IInv
<1>3. /\ opt' = opt \cup {built}
      /\ UNCHANGED <<source, built, database, etc, gateway, units, services>>
  BY DEF Copy
<1>4. /\ Running /\ script.name = "install" /\ script.env \in Editions
      /\ script.turn = 0
  BY <1>1, InstallAt DEF At, IInv, NextInTurn
<1>5. SystemType'
  BY <1>1, <1>3, <1>4
     DEF IInv, SystemType, Covered, Installed, source, database, services
<1>6. NextInTurn' /\ MigratedOnce' /\ Covered' /\ Cleared' /\ Furnished'
  BY <1>1, <1>2, <1>3, <1>4
     DEF IInv, SystemType, NextInTurn, MigratedOnce, Covered, SchemaCoversCode, Cleared,
         Furnished, Installed, Removed, source, database, files, services
<1>7. Progress'
  BY <1>1, <1>2, <1>3, <1>4
     DEF IInv, Progress, Installed, Fresh, source, database, files, services
<1> QED BY <1>2, <1>5, <1>6, <1>7 DEF IInv

\* The new files alone.
LEMMA CopiedStep ==
  ASSUME IInv, Copied
  PROVE  IInv'
<1>1. script.at = 7 /\ At("install", "copied") /\ Advance
  BY InstallPlaces DEF Copied, IInv
<1>2. /\ ScriptType'
      /\ script'.name = "install" /\ script'.at = 8
      /\ script'.env = script.env /\ script'.turn = script.turn
  BY <1>1, AdvanceInstall DEF IInv
<1>3. /\ opt' = {built}
      /\ UNCHANGED <<source, built, database, etc, gateway, units, services>>
  BY DEF Copied
<1>4. /\ Running /\ script.name = "install" /\ script.env \in Editions
      /\ script.turn = 0
  BY <1>1, InstallAt DEF At, IInv, NextInTurn
<1>5. SystemType'
  BY <1>1, <1>3, <1>4
     DEF IInv, SystemType, Covered, Installed, source, database, services
<1>6. NextInTurn' /\ MigratedOnce' /\ Covered' /\ Cleared' /\ Furnished'
  BY <1>1, <1>2, <1>3, <1>4
     DEF IInv, SystemType, NextInTurn, MigratedOnce, Covered, SchemaCoversCode, Cleared,
         Furnished, Installed, Removed, source, database, files, services
<1>7. Progress'
  BY <1>1, <1>2, <1>3, <1>4
     DEF IInv, Progress, Installed, Fresh, source, database, files, services
<1> QED BY <1>2, <1>5, <1>6, <1>7 DEF IInv

\* OpenNDS's configuration.
LEMMA GatewayStep ==
  ASSUME IInv, RenderGateway
  PROVE  IInv'
<1>1. script.at = 8 /\ At("install", "gateway") /\ Advance
  BY InstallPlaces DEF RenderGateway, IInv
<1>2. /\ ScriptType'
      /\ script'.name = "install" /\ script'.at = 9
      /\ script'.env = script.env /\ script'.turn = script.turn
  BY <1>1, AdvanceInstall DEF IInv
<1>3. /\ gateway' = script.env
      /\ UNCHANGED <<source, built, database, opt, etc, units, services>>
  BY DEF RenderGateway
<1>4. /\ Running /\ script.name = "install" /\ script.env \in Editions
      /\ script.turn = 0
  BY <1>1, InstallAt DEF At, IInv, NextInTurn
<1>5. SystemType'
  BY <1>3, <1>4, DeployAssumption
     DEF IInv, SystemType, Editions, source, database, files, services
<1>6. NextInTurn' /\ MigratedOnce' /\ Covered' /\ Cleared' /\ Furnished'
  BY <1>1, <1>2, <1>3, <1>4
     DEF IInv, SystemType, NextInTurn, MigratedOnce, Covered, SchemaCoversCode, Cleared,
         Furnished, Installed, Removed, source, database, files, services
<1>7. Progress'
  BY <1>1, <1>2, <1>3, <1>4
     DEF IInv, Progress, Installed, Fresh, source, database, files, services
<1> QED BY <1>2, <1>5, <1>6, <1>7 DEF IInv

\* cybera.env, which has not changed since the script started.
LEMMA ConfigStep ==
  ASSUME IInv, RenderConfig
  PROVE  IInv'
<1>1. script.at = 9 /\ At("install", "config") /\ Advance
  BY InstallPlaces DEF RenderConfig, IInv
<1>2. /\ ScriptType'
      /\ script'.name = "install" /\ script'.at = 10
      /\ script'.env = script.env /\ script'.turn = script.turn
  BY <1>1, AdvanceInstall DEF IInv
<1>3. /\ etc' = dotenv
      /\ UNCHANGED <<source, built, database, opt, gateway, units, services>>
  BY DEF RenderConfig
<1>4. /\ Running /\ script.name = "install" /\ script.env \in Editions
      /\ script.turn = 0
  BY <1>1, InstallAt DEF At, IInv, NextInTurn
<1>5. SystemType'
  BY <1>3, DeployAssumption
     DEF IInv, SystemType, Editions, source, database, files, services
<1>6. NextInTurn' /\ MigratedOnce' /\ Covered' /\ Cleared' /\ Furnished'
  BY <1>1, <1>2, <1>3, <1>4
     DEF IInv, SystemType, NextInTurn, MigratedOnce, Covered, SchemaCoversCode, Cleared,
         Furnished, Installed, Removed, source, database, files, services
<1>7. Progress'
  BY <1>1, <1>2, <1>3, <1>4
     DEF IInv, Progress, Installed, Fresh, source, database, files, services
<1> QED BY <1>2, <1>5, <1>6, <1>7 DEF IInv

\* The units, whose environment is in place by now.
LEMMA UnitsStep ==
  ASSUME IInv, InstallUnits
  PROVE  IInv'
<1>1. script.at = 10 /\ At("install", "units") /\ Advance
  BY InstallPlaces DEF InstallUnits, IInv
<1>2. /\ ScriptType'
      /\ script'.name = "install" /\ script'.at = 11
      /\ script'.env = script.env /\ script'.turn = script.turn
  BY <1>1, AdvanceInstall DEF IInv
<1>3. /\ units' = TRUE
      /\ UNCHANGED <<source, built, database, opt, etc, gateway, services>>
  BY DEF InstallUnits
<1>4. /\ Running /\ script.name = "install" /\ script.env \in Editions
      /\ script.turn = 0
  BY <1>1, InstallAt DEF At, IInv, NextInTurn
<1>5. SystemType'
  BY <1>3
     DEF IInv, SystemType, Editions, source, database, files, services
<1>6. NextInTurn' /\ MigratedOnce' /\ Covered' /\ Cleared'
  BY <1>1, <1>2, <1>3, <1>4
     DEF IInv, SystemType, NextInTurn, MigratedOnce, Covered, SchemaCoversCode, Cleared,
         Installed, Removed, source, database, files, services
<1>7. Progress'
  BY <1>1, <1>2, <1>3, <1>4
     DEF IInv, Progress, Installed, Fresh, source, database, files, services
<1>8. Furnished'
  BY <1>1, <1>3, <1>4 DEF IInv, Progress, Installed, Furnished
<1> QED BY <1>2, <1>5, <1>6, <1>7, <1>8 DEF IInv

\* A process loads what is in place, which an install.sh under way has put there.
LEMMA LoadedFits ==
  ASSUME IInv, units, NEW s \in Services, NEW p \in Loaded(s)
  PROVE  /\ p \in [code : 0..MaxRelease, env : Editions]
         /\ 1..p.code \subseteq recorded
         /\ Installed(9) => p = Fresh(s)
<1>0. script.at \in Nat
  <2>1. CASE script = NoScript
    BY <2>1 DEF NoScript
  <2>2. CASE script # NoScript
    <3>1. script.at \in 1..14
      BY <2>2 DEF IInv, ScriptType
    <3> QED BY <3>1
  <2> QED BY <2>1, <2>2
<1>1. CASE s = "opennds"
  <2>1. p = [code |-> 0, env |-> gateway]
    BY <1>1 DEF Loaded
  <2>2. 0 \in 0..MaxRelease /\ 1..0 = {}
    BY DeployAssumption
  <2>3. p \in [code : 0..MaxRelease, env : Editions] /\ 1..p.code \subseteq recorded
    BY <2>1, <2>2 DEF IInv, Furnished
  <2>4. Installed(9) => gateway = script.env
    BY <1>0 DEF IInv, Progress, Installed
  <2> QED BY <1>1, <2>1, <2>3, <2>4 DEF Fresh
<1>2. CASE s # "opennds"
  <2>1. p \in [code : opt, env : {etc}]
    BY <1>2 DEF Loaded
  <2>2. p.code \in opt /\ p.env = etc /\ p = [code |-> p.code, env |-> p.env]
    BY <2>1
  <2>3. p.code \in 0..MaxRelease /\ etc \in Editions
    BY <2>2, DeployAssumption DEF IInv, SystemType, Furnished, Releases
  <2>4. p \in [code : 0..MaxRelease, env : Editions] /\ 1..p.code \subseteq recorded
    BY <2>2, <2>3 DEF IInv, Covered
  <2>5. Installed(9) => opt = {built} /\ etc = script.env
    BY <1>0 DEF IInv, Progress, Installed
  <2>6. Installed(9) => p = Fresh(s)
    BY <1>2, <2>2, <2>5 DEF Fresh
  <2> QED BY <2>4, <2>6
<1> QED BY <1>1, <1>2

\* The units are installed by now; what is started is fresh, and the place of
\* the script says which services have been.
LEMMA LaunchStep ==
  ASSUME IInv, NEW s \in Services, LaunchService(s)
  PROVE  IInv'
<1>1. PICK p \in Loaded(s) :
        /\ At("install", s)
        /\ running' = [running EXCEPT ![s] = p]
        /\ enabled' = enabled \cup {s}
        /\ script' = [script EXCEPT !.at = @ + 1, !.turn = 0]
        /\ UNCHANGED <<source, built, database, files>>
  BY DEF LaunchService, Restarted, Enabled
<1>2. /\ script.at \in {11, 12, 13}
      /\ \/ s = "backend" /\ script.at = 11
         \/ s = "manager" /\ script.at = 12
         \/ s = "opennds" /\ script.at = 13
  <2>1. ScriptType
    BY DEF IInv
  <2>2. CASE s = "backend"
    BY <1>1, <2>1, <2>2, InstallPlaces
  <2>3. CASE s = "manager"
    BY <1>1, <2>1, <2>3, InstallPlaces
  <2>4. CASE s = "opennds"
    BY <1>1, <2>1, <2>4, InstallPlaces
  <2> QED BY <2>2, <2>3, <2>4 DEF Services
<1>3. /\ Running /\ script.name = "install"
      /\ script \in [name : {"install"}, at : 1..13, env : Editions, turn : Nat]
  BY <1>1, InstallAt DEF At, IInv
<1>4. script' = [name |-> "install", at |-> script.at + 1, env |-> script.env, turn |-> 0]
  BY <1>1, <1>3
<1>5. ScriptType'
  BY <1>2, <1>3, <1>4 DEF ScriptType
<1>6. units
  BY <1>2, <1>3 DEF IInv, Progress, Installed
<1>7. /\ p \in [code : 0..MaxRelease, env : Editions]
      /\ 1..p.code \subseteq recorded
      /\ p = Fresh(s)
  BY <1>2, <1>3, <1>6, LoadedFits DEF Installed
<1>8. \A z \in Services : running'[z] = IF z = s THEN p ELSE running[z]
  BY <1>1 DEF IInv, SystemType
<1>9. SystemType'
  <2>1. running' \in [Services -> [code : 0..MaxRelease, env : Editions] \cup {Off}]
    BY <1>1, <1>7 DEF IInv, SystemType
  <2> QED BY <1>1, <2>1 DEF IInv, SystemType, source, database, files
<1>10. NextInTurn' /\ MigratedOnce' /\ Cleared' /\ Furnished'
  BY <1>1, <1>2, <1>3, <1>4
     DEF IInv, NextInTurn, MigratedOnce, Cleared, Furnished, Removed, database, files
<1>11. Covered'
  BY <1>1, <1>2, <1>3, <1>4, <1>7, <1>8
     DEF IInv, Covered, SchemaCoversCode, Installed, database, files
<1>12. /\ running'["backend"] \in {Off, Fresh("backend")}
       /\ script.at >= 12 => running'["manager"] \in {Off, Fresh("manager")}
       /\ script.at >= 13 => running'["opennds"] \in {Off, Fresh("opennds")}
  BY <1>2, <1>3, <1>7, <1>8 DEF IInv, Progress, Installed, Services
<1>13. Fresh("backend")' = Fresh("backend") /\ Fresh("manager")' = Fresh("manager")
       /\ Fresh("opennds")' = Fresh("opennds")
  BY <1>1, <1>4 DEF Fresh
<1>14. Progress'
  BY <1>1, <1>2, <1>3, <1>4, <1>12, <1>13
     DEF IInv, Progress, Installed, source, database, files
<1> QED BY <1>5, <1>9, <1>10, <1>11, <1>14 DEF IInv

\* OpenNDS stays down for this attempt, and the script may die of it.
LEMMA LaunchFailStep ==
  ASSUME IInv, LaunchFail
  PROVE  IInv'
<1>1. /\ At("install", "opennds") /\ script.at = 13
      /\ running' = [running EXCEPT !["opennds"] = Off]
      /\ enabled' = enabled \cup {"opennds"}
      /\ script' \in {[script EXCEPT !.turn = @ + 1], NoScript}
      /\ UNCHANGED <<source, built, database, files>>
  BY InstallPlaces DEF LaunchFail, Enabled, IInv
<1>2. /\ Running /\ script.name = "install"
      /\ script \in [name : {"install"}, at : 1..13, env : Editions, turn : Nat]
  BY <1>1, InstallAt DEF At, IInv
<1>3. \/ script' = [name |-> "install", at |-> 13, env |-> script.env, turn |-> script.turn + 1]
      \/ script' = NoScript
  BY <1>1, <1>2
<1>4. ScriptType'
  BY <1>2, <1>3 DEF ScriptType
<1>5. \A z \in Services : running'[z] = IF z = "opennds" THEN Off ELSE running[z]
  BY <1>1 DEF IInv, SystemType
<1>6. SystemType'
  BY <1>1 DEF IInv, SystemType, Services, source, database, files
<1>7. NextInTurn' /\ MigratedOnce' /\ Cleared' /\ Furnished'
  BY <1>1, <1>2, <1>3
     DEF IInv, NextInTurn, MigratedOnce, Cleared, Furnished, Removed, NoScript, database, files
<1>8. Covered'
  BY <1>1, <1>2, <1>3, <1>5
     DEF IInv, Covered, SchemaCoversCode, Installed, NoScript, database, files
<1>9. /\ running'["backend"] = running["backend"]
      /\ running'["manager"] = running["manager"]
  BY <1>5 DEF Services
<1>10. CASE script' = NoScript
  <2>1. ~Running'
    BY <1>10 DEF NoScript, Running
  <2>2. Progress'
    BY <1>10, <2>1 DEF Progress, Installed, NoScript
  <2> QED BY <1>4, <1>6, <1>7, <1>8, <2>2 DEF IInv
<1>11. CASE script' # NoScript
  <2>1. Progress'
    BY <1>1, <1>2, <1>3, <1>9, <1>11
       DEF IInv, Progress, Installed, Fresh, source, database, files
  <2> QED BY <1>4, <1>6, <1>7, <1>8, <2>1 DEF IInv
<1> QED BY <1>10, <1>11

-----------------------------------------------------------------------------
(***************************************************************************)
(* uninstall.sh.  When the database goes, so have the processes and the    *)
(* files that count on it.                                                 *)
(***************************************************************************)
LEMMA RemovingFrame ==
  ASSUME IInv, Removing
  PROVE  /\ ScriptType' /\ script'.name = "uninstall" /\ script.name = "uninstall"
         /\ script'.at = script.at + 1 /\ script.at \in 1..5
         /\ UNCHANGED <<source, built>>
         /\ script'.env = script.env /\ Running
<1>1. PICK step : At("uninstall", step)
  BY DEF Removing, StopServices, RemoveUnits, RemoveApp, RemoveEnv,
         KeepDatabase, DropDatabase
<1>2. Advance /\ UNCHANGED <<source, built>>
  BY DEF Removing, StopServices, RemoveUnits, RemoveApp, RemoveEnv,
         KeepDatabase, DropDatabase
<1>3. ScriptType /\ Running
  BY <1>1 DEF IInv, At
<1> QED BY <1>1, <1>2, <1>3, AdvanceUninstall, UninstallAt

\* The commands of uninstall.sh.
LEMMA RemovingStep ==
  ASSUME IInv, Removing
  PROVE  IInv'
<1>1. /\ ScriptType' /\ script'.name = "uninstall" /\ script.name = "uninstall"
      /\ script'.at = script.at + 1 /\ script.at \in 1..5
      /\ UNCHANGED <<source, built>>
      /\ script'.env = script.env /\ Running
  BY RemovingFrame
<1>2. NextInTurn' /\ Progress'
  BY <1>1 DEF IInv, NextInTurn, Progress, Installed, source
<1>3. CASE StopServices
  <2>1. script.at = 1
    BY <1>3, UninstallPlaces DEF StopServices, IInv
  <2>2. /\ enabled' = {} /\ running' = [s \in Services |-> Off]
        /\ UNCHANGED <<database, files>>
    BY <1>3 DEF StopServices
  <2>3. SystemType'
    BY <1>1, <2>2 DEF IInv, SystemType, source, database, files
  <2>4. MigratedOnce' /\ Covered' /\ Cleared' /\ Furnished'
    BY <1>1, <2>1, <2>2 DEF IInv, MigratedOnce, Covered, SchemaCoversCode, Cleared,
       Furnished, Installed, Removed, database, files
  <2> QED BY <1>1, <1>2, <2>3, <2>4 DEF IInv
<1>4. CASE RemoveUnits
  <2>1. script.at = 2
    BY <1>4, UninstallPlaces DEF RemoveUnits, IInv
  <2>2. /\ units' = FALSE
        /\ UNCHANGED <<database, opt, etc, gateway, services>>
    BY <1>4 DEF RemoveUnits
  <2>3. SystemType'
    BY <1>1, <2>2 DEF IInv, SystemType, source, database, services
  <2>4. MigratedOnce' /\ Covered' /\ Cleared' /\ Furnished'
    BY <1>1, <2>1, <2>2 DEF IInv, MigratedOnce, Covered, SchemaCoversCode, Cleared,
       Furnished, Installed, Removed, database, services
  <2> QED BY <1>1, <1>2, <2>3, <2>4 DEF IInv
<1>5. CASE RemoveApp
  <2>1. script.at = 3
    BY <1>5, UninstallPlaces DEF RemoveApp, IInv
  <2>2. /\ opt' = {}
        /\ UNCHANGED <<database, etc, gateway, units, services>>
    BY <1>5 DEF RemoveApp
  <2>3. SystemType'
    BY <1>1, <2>2 DEF IInv, SystemType, source, database, services
  <2>4. MigratedOnce' /\ Covered' /\ Cleared' /\ Furnished'
    BY <1>1, <2>1, <2>2 DEF IInv, MigratedOnce, Covered, SchemaCoversCode, Cleared,
       Furnished, Installed, Removed, database, services
  <2> QED BY <1>1, <1>2, <2>3, <2>4 DEF IInv
<1>6. CASE RemoveEnv
  <2>1. script.at = 4
    BY <1>6, UninstallPlaces DEF RemoveEnv, IInv
  <2>2. /\ etc' = 0
        /\ UNCHANGED <<database, opt, gateway, units, services>>
    BY <1>6 DEF RemoveEnv
  <2>3. SystemType'
    BY <1>1, <2>2, DeployAssumption DEF IInv, SystemType, source, database, services
  <2>4. MigratedOnce' /\ Covered' /\ Cleared' /\ Furnished'
    BY <1>1, <2>1, <2>2 DEF IInv, MigratedOnce, Covered, SchemaCoversCode, Cleared,
       Furnished, Installed, Removed, database, services
  <2> QED BY <1>1, <1>2, <2>3, <2>4 DEF IInv
<1>7. CASE KeepDatabase
  <2>1. script.at = 5 /\ UNCHANGED <<database, files, services>>
    BY <1>7, UninstallPlaces DEF KeepDatabase, IInv
  <2>2. SystemType'
    BY <1>1, <2>1 DEF IInv, SystemType, source, database, files, services
  <2>3. MigratedOnce' /\ Covered' /\ Cleared' /\ Furnished'
    BY <1>1, <2>1 DEF IInv, MigratedOnce, Covered, SchemaCoversCode, Cleared,
       Furnished, Installed, Removed, database, files, services
  <2> QED BY <1>1, <1>2, <2>2, <2>3 DEF IInv
<1>8. CASE DropDatabase
  <2>1. script.at = 5
    BY <1>8, UninstallPlaces DEF DropDatabase, IInv
  <2>2. /\ role' = 0 /\ admin' = 0 /\ clients' = 0
        /\ recorded' = {} /\ effects' = [f \in Releases |-> 0]
        /\ UNCHANGED <<files, services>>
    BY <1>8 DEF DropDatabase
  <2>3. opt = {} /\ ~units /\ \A s \in Services : running[s] = Off
    BY <1>1, <2>1 DEF IInv, Cleared, Removed
  <2>4. SystemType'
    <3>1. 0 \in 0..MaxEdition /\ 0 \in Nat /\ effects' \in [Releases -> Nat]
      BY <2>2, DeployAssumption
    <3> QED BY <1>1, <2>2, <3>1 DEF IInv, SystemType, source, files, services
  <2>5. MigratedOnce' /\ Covered' /\ Cleared' /\ Furnished'
    BY <1>1, <2>1, <2>2, <2>3 DEF IInv, MigratedOnce, Covered, SchemaCoversCode, Cleared,
       Furnished, Installed, Removed, files, services
  <2> QED BY <1>1, <1>2, <2>4, <2>5 DEF IInv
<1> QED BY <1>3, <1>4, <1>5, <1>6, <1>7, <1>8 DEF Removing

-----------------------------------------------------------------------------
(***************************************************************************)
(* systemd.  It starts a service only while the unit files are there, so   *)
(* with what the scripts have put in place.                                *)
(***************************************************************************)

\* A service comes or goes, and a reboot ends a script with the processes.
LEMMA ServicesFrame ==
  ASSUME IInv,
         UNCHANGED <<source, built, database, files, enabled>>,
         running' \in [Services -> [code : 0..MaxRelease, env : Editions] \cup {Off}],
         \A s \in Services :
           \/ running'[s] \in {Off, running[s]}
           \/ /\ s \in enabled /\ 1..running'[s].code \subseteq recorded
              /\ Installed(9) => running'[s] = Fresh(s),
         script' = script \/ script' = NoScript
  PROVE  IInv'
<1>1. SystemType'
  BY DEF IInv, SystemType, source, database, files
<1>2. ScriptType' /\ NextInTurn' /\ MigratedOnce' /\ Furnished'
  BY DEF IInv, ScriptType, NextInTurn, Unapplied, MigratedOnce, Furnished,
         NoScript, database, files
<1>3. Covered'
  BY DEF IInv, Covered, SchemaCoversCode, Installed, NoScript, database, files
<1>4. Cleared'
  BY DEF IInv, Cleared, Removed, NoScript, files
<1>5. CASE script' = NoScript
  <2>1. ~Running'
    BY <1>5 DEF NoScript, Running
  <2>2. Progress'
    BY <1>5, <2>1 DEF Progress, Installed, NoScript
  <2> QED BY <1>1, <1>2, <1>3, <1>4, <2>2 DEF IInv
<1>6. CASE script' = script
  <2>1. Running' <=> Running
    BY <1>6 DEF Running
  <2>2. \A s \in Services : Fresh(s)' = Fresh(s)
    BY <1>6 DEF Fresh
  <2>3. \A n : Installed(n)' <=> Installed(n)
    BY <1>6 DEF Installed
  <2>4. \A n \in {11, 12, 13} : Installed(n) => Installed(9)
    BY DEF IInv, ScriptType, Installed, NoScript
  <2>5. {"backend", "manager", "opennds"} \subseteq Services
    BY DEF Services
  <2>6. /\ Installed(11) => running'["backend"] \in {Off, Fresh("backend")}
        /\ Installed(12) => running'["manager"] \in {Off, Fresh("manager")}
        /\ Installed(13) => running'["opennds"] \in {Off, Fresh("opennds")}
    BY <2>4, <2>5 DEF IInv, Progress
  <2>7. Progress'
    BY <1>6, <2>1, <2>2, <2>3, <2>5, <2>6
       DEF IInv, Progress, source, database, files
  <2> QED BY <1>1, <1>2, <1>3, <1>4, <2>7 DEF IInv
<1> QED BY <1>5, <1>6

\* Starts, crashes and reboots.
LEMMA SystemdStep ==
  ASSUME IInv, Systemd
  PROVE  IInv'
<1>1. UNCHANGED <<source, built, database, files, enabled>>
  BY DEF Systemd, ServiceStart, ServiceCrash, Reboot
<1>2. script' = script \/ script' = NoScript
  BY DEF Systemd, ServiceStart, ServiceCrash, Reboot
<1>3. ASSUME NEW s \in Services, ServiceStart(s)
      PROVE  IInv'
  <2>1. PICK p \in Loaded(s) : running' = [running EXCEPT ![s] = p]
    BY <1>3 DEF ServiceStart
  <2>2. s \in enabled /\ units
    BY <1>3 DEF ServiceStart
  <2>3. /\ p \in [code : 0..MaxRelease, env : Editions]
        /\ 1..p.code \subseteq recorded
        /\ Installed(9) => p = Fresh(s)
    BY <2>2, LoadedFits
  <2>4. /\ running' \in [Services -> [code : 0..MaxRelease, env : Editions] \cup {Off}]
        /\ \A z \in Services : running'[z] = IF z = s THEN p ELSE running[z]
    BY <2>1, <2>3 DEF IInv, SystemType
  <2> QED BY <1>1, <1>2, <2>2, <2>3, <2>4, ServicesFrame
<1>4. CASE (\E s \in Services : ServiceCrash(s)) \/ Reboot
  <2>1. /\ running' \in [Services -> [code : 0..MaxRelease, env : Editions] \cup {Off}]
        /\ \A z \in Services : running'[z] \in {Off, running[z]}
    BY <1>4 DEF ServiceCrash, Reboot, IInv, SystemType
  <2> QED BY <1>1, <1>2, <2>1, ServicesFrame
<1> QED BY <1>3, <1>4 DEF Systemd

-----------------------------------------------------------------------------
\* Steps that change nothing.
LEMMA StutterStep ==
  ASSUME IInv, UNCHANGED vars
  PROVE  IInv'
<1>1. /\ running' \in [Services -> [code : 0..MaxRelease, env : Editions] \cup {Off}]
      /\ \A z \in Services : running'[z] \in {Off, running[z]}
  BY DEF vars, services, IInv, SystemType
<1> QED BY <1>1, ServicesFrame DEF vars, services

\* The whole invariant, on every behaviour.
THEOREM Invariance == Spec => []IInv
<1>1. IInv /\ [Next]_vars => IInv'
  <2> SUFFICES ASSUME IInv, [Next]_vars
               PROVE  IInv'
    OBVIOUS
  <2>1. CASE Installing
    BY <2>1, RoleStep, BuildStep, MigrateStep, SeedAdminStep, SeedClientsStep,
       CopyStep, CopiedStep, GatewayStep, ConfigStep, UnitsStep,
       LaunchStep, LaunchFailStep DEF Installing
  <2> QED BY <2>1, OperatorStep, RemovingStep, SystemdStep, StutterStep DEF Next
<1> QED BY <1>1, InitStep, PTL DEF Spec

\* Every variable keeps its type.
THEOREM TypeCorrect == Spec => []TypeOK
<1>1. IInv => TypeOK
  BY TypesAgree DEF IInv
<1> QED BY <1>1, Invariance, PTL

\* A migration takes effect once, with its record, and none before the ones
\* that come before it.
THEOREM MigratedOnceHolds == Spec => []MigratedOnce
BY Invariance, PTL DEF IInv

\* No process runs code whose migrations the database lacks.
THEOREM SchemaCoversCodeHolds == Spec => []SchemaCoversCode
<1>1. IInv => SchemaCoversCode
  BY DEF IInv, Covered
<1> QED BY <1>1, Invariance, PTL

\* A run of install.sh that ends has brought everything up to date, whatever
\* was interrupted before it.
THEOREM DoneIsCurrentHolds == Spec => []DoneIsCurrent
<1>1. IInv => DoneIsCurrent
  <2> SUFFICES ASSUME IInv, Done("install")
               PROVE  /\ {role, admin, etc, gateway} = {script.env}
                      /\ ClientCount[script.env] <= clients
                      /\ opt = {built} /\ units
                      /\ \A s \in Services : running[s] # Off => running[s] = Fresh(s)
    BY DEF DoneIsCurrent, Fresh
  <2>1. script.name = "install" /\ script.at = 14
    BY RunningAt DEF IInv
  <2> QED BY <2>1 DEF IInv, Progress, Installed, Services
<1> QED BY <1>1, Invariance, PTL
=============================================================================
