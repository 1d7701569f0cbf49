------------------------------ MODULE Installation ------------------------------
(***************************************************************************)
(* The first installation: cloud-browser setup (internal/manager/          *)
(* manager.go), the wizard it starts (internal/setup/server.go), the       *)
(* installer behind it (internal/manager/installer.go) and the command     *)
(* that creates the administrator (cmd/admin/main.go).                     *)
(*                                                                         *)
(* Handlers of the wizard run at once: POST complete and POST              *)
(* database/test.  An accepted completion goes on as a goroutine, one step *)
(* of this module per effect on the disk, on Docker or on the database;    *)
(* any of them may fail, and the wizard may die between any two.  What the *)
(* steps have left stays, commands that were killed may still take effect, *)
(* and the user submits again, with any configuration.  The wizard itself  *)
(* is a process of its own: the launcher waits for it, but not for ever.   *)
(***************************************************************************)
EXTENDS Naturals, FiniteSets

CONSTANTS
  Handlers,    \* requests the wizard handles at a time
  Launchers,   \* terminals on which cloud-browser setup runs
  Dbs,         \* databases a configuration may name
  Internal,    \* the one the installer creates itself
  Admins,      \* administrators (address and password) a configuration may name
  Passwords,   \* passwords auth.Token gives for the database's own user
  Tokens,      \* tokens auth.Token gives for the link of the wizard
  Existing,    \* what accounts a database may have before the installation
  NoDb, NoAdmin, NoPassword, NoToken, NoLauncher,
  MaxExtras    \* bound on tests of databases, crashes of the wizard, commands that
               \* outlive their installation and launchers that give up, all together

ASSUME DatabasesAssumption ==
  Internal \in Dbs /\ NoDb \notin Dbs /\ Existing \subseteq SUBSET Admins
ASSUME NobodyAssumption ==
  /\ NoAdmin \notin Admins
  /\ NoPassword \notin Passwords
  /\ NoToken \notin Tokens
  /\ NoLauncher \notin Launchers
\* auth.Token is random: it gives what nobody has.
ASSUME FreshAssumption ==
  /\ \A p \in Passwords \cup {NoPassword} : Passwords \ {p} # {}
  /\ \A t \in Tokens \cup {NoToken} : Tokens \ {t} # {}
ASSUME BoundsAssumption == MaxExtras \in Nat

VARIABLES
  status,      \* Status.State of the wizard; "starting" when it has the lock and
               \* does not listen yet, "down" when none runs
  srvToken,    \* token the wizard accepts
  tokenFile,   \* setup-token
  lpc,         \* position of a launcher
  wizardOf,    \* launcher that has started the wizard, unless it has given up on it
  strays,      \* started processes not yet at the lock whose launcher has gone
  links,       \* printed tokens that the wizard has, or one to come may have
  pc,          \* position of a handler, or of the installation it has started
  db, admin,   \* its configuration (a test of a database has no administrator)
  pw,          \* config.DatabasePassword, when the installer has found it
  temp,        \* compose.yaml.tmp.<pid of the wizard> exists
  network,     \* cloud-browser-control exists
  envDb, envPw,  \* .env: DATABASE_MODE with its URL, POSTGRES_PASSWORD
  kept,        \* .database-password
  installed,   \* installation.json
  marker,      \* .setup-complete
  container,   \* cloud-browser-postgres-1 exists
  volume,      \* password that cloud-browser-database was initialised with
  accounts,    \* accounts[d]: the accounts in d
  before,      \* those that were in d before anything was installed
  lateUp, lateInsert,  \* commands whose installation has ended before them:
                       \* compose up postgres with a password, the insert of an
                       \* administrator in a database
  calm,        \* the environment does no more harm
  extras      \* counter for the bound

handlerVars == <<pc, db, admin, pw>>
launchVars == <<lpc, srvToken, tokenFile, wizardOf, strays, links>>
hostVars == <<temp, network>>
files == <<envDb, envPw, kept, installed, marker>>
docker == <<container, volume>>
people == <<accounts, before>>
late == <<lateUp, lateInsert>>
bounds == <<calm, extras>>
vars == <<status, launchVars, handlerVars, hostVars, files, docker, people,
          late, bounds>>

\* The steps of Install; those of TestDatabase are the first four.
Steps == {"assets", "rename", "see", "make", "inspect", "password", "env", "up",
          "dbtest", "admin", "insert", "services", "record", "mark", "finish"}

Init ==
  /\ status = "down"
  /\ srvToken = NoToken /\ tokenFile = NoToken
  /\ lpc = [l \in Launchers |-> "idle"]
  /\ wizardOf = NoLauncher /\ strays = 0 /\ links = {}
  /\ pc = [h \in Handlers |-> "idle"]
  /\ db = [h \in Handlers |-> NoDb]
  /\ admin = [h \in Handlers |-> NoAdmin]
  /\ pw = [h \in Handlers |-> NoPassword]
  /\ temp = FALSE /\ network = FALSE
  /\ envDb = NoDb /\ envPw = NoPassword /\ kept = NoPassword
  /\ installed = FALSE /\ marker = FALSE
  /\ container = FALSE /\ volume = NoPassword
  /\ before \in [Dbs -> Existing \cup {{}}] /\ before[Internal] = {}
  /\ accounts = before
  /\ lateUp = {} /\ lateInsert = {}
  /\ calm = FALSE /\ extras = 0

\* The state of an installation: all but the launching and the bounds.
installVars == <<handlerVars, hostVars, files, docker, people, late>>

Goto(h, step) == pc' = [pc EXCEPT ![h] = step] /\ UNCHANGED <<db, admin, pw>>

Leave(h) ==
  /\ pc' = [pc EXCEPT ![h] = "idle"]
  /\ db' = [db EXCEPT ![h] = NoDb]
  /\ admin' = [admin EXCEPT ![h] = NoAdmin]
  /\ pw' = [pw EXCEPT ![h] = NoPassword]

IsTest(h) == admin[h] = NoAdmin

\* Fault: nobody learns that an installation has failed.
FailedSilently(h) == Leave(h) /\ UNCHANGED status

\* An error ends a test with an answer, an installation with FAILED.
Failed(h) ==
  /\ Leave(h)
  /\ status' = IF IsTest(h) THEN status ELSE "FAILED"

--------------------------------------------------------------------------------
(***************************************************************************)
(* The launcher: launchSetup looks for an installation and for a wizard,   *)
(* and otherwise starts one with a new token, as a process of its own.     *)
(***************************************************************************)
\* A connection to the port succeeds (activeSetup).
Up == status \notin {"down", "starting"}
Found == installed \/ marker

GotoL(l, place) == lpc' = [lpc EXCEPT ![l] = place]

\* A token is new when it is written.  One that neither the file nor the wizard has
\* any more opens nothing: its value may stand for a new one.
Forget(inFile, ofWizard) == links' = links \cap {inFile, ofWizard}

\* printSetupLink
ShowLink == links' = links \cup ({tokenFile} \ {NoToken})

\* Fault: the launcher does not ask whether a wizard runs.
LookForNobody(l) ==
  /\ lpc[l] = "idle" /\ ~Found
  /\ GotoL(l, "write")
  /\ UNCHANGED <<status, srvToken, tokenFile, wizardOf, strays, links, installVars, bounds>>

Look(l) ==
  /\ lpc[l] = "idle" /\ ~Found /\ ~Up
  /\ GotoL(l, "write")
  /\ UNCHANGED <<status, srvToken, tokenFile, wizardOf, strays, links, installVars, bounds>>

\* A wizard answers already.
PrintAgain(l) ==
  /\ lpc[l] = "idle" /\ ~Found /\ Up
  /\ tokenFile \notin links \cup {NoToken}
  /\ ShowLink
  /\ UNCHANGED <<status, lpc, srvToken, tokenFile, wizardOf, strays, installVars, bounds>>

FreshToken == CHOOSE t \in Tokens : t # srvToken

WriteToken(l) ==
  /\ lpc[l] = "write"
  /\ tokenFile' = FreshToken
  /\ GotoL(l, "start")
  /\ Forget(srvToken, srvToken)
  /\ UNCHANGED <<status, srvToken, wizardOf, strays, installVars, bounds>>

StartChild(l) ==
  /\ lpc[l] = "start"
  /\ GotoL(l, "wait")
  /\ UNCHANGED <<status, srvToken, tokenFile, wizardOf, strays, links, installVars, bounds>>

\* serveSetup: the flock lets one process on, and it reads the token under it.
\* Whatever else may fail ends the process.
TakesLock(parent) ==
  \/ /\ status = "down" /\ tokenFile # NoToken
     /\ status' = "starting"
     /\ srvToken' = tokenFile
     /\ wizardOf' = parent
     /\ Forget(tokenFile, tokenFile)
  \/ /\ status = "down" /\ tokenFile # NoToken => ~calm
     /\ UNCHANGED <<status, srvToken, wizardOf, links>>

ChildLocks(l) ==
  /\ lpc[l] = "wait"
  /\ GotoL(l, "watch")
  /\ TakesLock(l)
  /\ UNCHANGED <<tokenFile, strays, installVars, bounds>>

StrayLocks ==
  /\ strays > 0
  /\ strays' = strays - 1
  /\ TakesLock(NoLauncher)
  /\ UNCHANGED <<lpc, tokenFile, installVars, bounds>>

\* setup.New looks for the marker, and the process listens, or cannot.
Listens ==
  /\ status = "starting"
  /\ \/ /\ status' = IF marker THEN "COMPLETE" ELSE "READY"
        /\ UNCHANGED <<srvToken, wizardOf, links>>
     \/ /\ ~calm
        /\ status' = "down" /\ srvToken' = NoToken /\ wizardOf' = NoLauncher
        /\ Forget(tokenFile, NoToken)
  /\ UNCHANGED <<lpc, tokenFile, strays, installVars, bounds>>

\* Some wizard answers; it need not be the process this launcher has started.
PrintLink(l) ==
  /\ lpc[l] \in {"wait", "watch"} /\ Up
  /\ GotoL(l, "idle")
  /\ strays' = IF lpc[l] = "wait" THEN strays + 1 ELSE strays
  /\ ShowLink
  /\ UNCHANGED <<status, srvToken, tokenFile, wizardOf, installVars, bounds>>

\* Five seconds have passed, and the process has gone.
TimesOut(l) ==
  /\ lpc[l] = "watch" /\ ~Up /\ wizardOf # l
  /\ calm => status = "down"
  /\ GotoL(l, "idle")
  /\ UNCHANGED <<status, srvToken, tokenFile, wizardOf, strays, links, installVars, bounds>>

\* Five seconds have passed, and the process, in a session of its own, goes on.
GivesUp(l) ==
  /\ ~Up /\ ~calm /\ extras < MaxExtras
  /\ extras' = extras + 1
  /\ GotoL(l, "idle")
  /\ \/ lpc[l] = "wait" /\ strays' = strays + 1 /\ UNCHANGED wizardOf
     \/ /\ lpc[l] = "watch" /\ wizardOf = l
        /\ wizardOf' = NoLauncher /\ UNCHANGED strays
  /\ UNCHANGED <<status, srvToken, tokenFile, links, installVars, calm>>

\* The system fails to start the process, or to write a file.
LaunchFails(l) ==
  /\ lpc[l] \in {"write", "start"} /\ ~calm
  /\ GotoL(l, "idle")
  /\ UNCHANGED <<status, srvToken, tokenFile, wizardOf, strays, links, installVars, bounds>>

--------------------------------------------------------------------------------
(***************************************************************************)
(* The requests of the wizard.  complete looks at the status, decodes and  *)
(* validates the configuration, and looks at the status again under the    *)
(* write lock.                                                             *)
(***************************************************************************)
\* Fault: only a running installation keeps another one out.
OpenUnlessRunning == status \notin {"RUNNING", "down"}

Open == status \in {"READY", "FAILED"}

\* authorized: the user has a link with the wizard's token.
Authorized == srvToken \in links

\* Requests are handled in the first place that is free; which one makes no
\* difference.
IsNewHandler(h) == pc[h] = "idle" /\ h = CHOOSE i \in Handlers : pc[i] = "idle"

\* In calm times the user submits what the wizard can still install.
Admissible(d, a) ==
  /\ container => d = Internal
  /\ accounts[d] = {} \/ a \in accounts[d]

BeginComplete(h) ==
  /\ IsNewHandler(h) /\ Authorized /\ Open
  /\ Goto(h, "checked")
  /\ UNCHANGED <<status, launchVars, hostVars, files, docker, people, late, bounds>>

\* INVALID_REQUEST, INVALID_CONFIGURATION or SETUP_STATE_CHANGED
RefuseComplete(h) ==
  /\ pc[h] = "checked" /\ (Open => ~calm)
  /\ Leave(h)
  /\ UNCHANGED <<status, launchVars, hostVars, files, docker, people, late, bounds>>

\* Fault: complete does not look at the status again.
AcceptUnchecked(h, d, a) ==
  /\ pc[h] = "checked" /\ Up
  /\ calm => Admissible(d, a)
  /\ status' = "RUNNING"
  /\ pc' = [pc EXCEPT ![h] = "assets"]
  /\ db' = [db EXCEPT ![h] = d]
  /\ admin' = [admin EXCEPT ![h] = a]
  /\ UNCHANGED <<pw, launchVars, hostVars, files, docker, people, late, bounds>>

Accept(h, d, a) ==
  /\ pc[h] = "checked" /\ Open
  /\ calm => Admissible(d, a)
  /\ status' = "RUNNING"
  /\ pc' = [pc EXCEPT ![h] = "assets"]
  /\ db' = [db EXCEPT ![h] = d]
  /\ admin' = [admin EXCEPT ![h] = a]
  /\ UNCHANGED <<pw, launchVars, hostVars, files, docker, people, late, bounds>>

\* Fault: a test runs without a valid database.
BeginTestOfAnything(h, d) ==
  /\ IsNewHandler(h) /\ Authorized /\ Up /\ ~calm /\ extras < MaxExtras
  /\ extras' = extras + 1
  /\ Goto(h, "assets")
  /\ UNCHANGED <<status, launchVars, hostVars, files, docker, people, late, calm>>

\* A test of the internal database is answered at once; others run any time.
BeginTest(h, d) ==
  /\ IsNewHandler(h) /\ Authorized /\ Up /\ ~calm /\ extras < MaxExtras
  /\ extras' = extras + 1
  /\ d # Internal
  /\ pc' = [pc EXCEPT ![h] = "assets"]
  /\ db' = [db EXCEPT ![h] = d]
  /\ UNCHANGED <<status, admin, pw, launchVars, hostVars, files, docker, people,
                 late, calm>>

--------------------------------------------------------------------------------
(***************************************************************************)
(* The steps Install and TestDatabase share.                               *)
(***************************************************************************)
\* ensureDocker; writeAssets writes the temporary file ...
WriteTemp(h) ==
  /\ pc[h] = "assets"
  /\ temp' = TRUE
  /\ Goto(h, "rename")
  /\ UNCHANGED <<status, launchVars, network, files, docker, people, late, bounds>>

\* ... and renames it, unless another handler of the process has done so.
RenameTemp(h) ==
  /\ pc[h] = "rename"
  /\ IF temp THEN Goto(h, "see") /\ UNCHANGED status ELSE Failed(h)
  /\ temp' = FALSE
  /\ UNCHANGED <<launchVars, network, files, docker, people, late, bounds>>

\* The rest of a test, dbcheck in a container, changes nothing.
NetworkReady(h) == IF IsTest(h) THEN Leave(h) ELSE Goto(h, "inspect")

\* prepareHost; docker network inspect
SeeNetwork(h) ==
  /\ pc[h] = "see"
  /\ IF network THEN NetworkReady(h) ELSE Goto(h, "make")
  /\ UNCHANGED <<status, launchVars, hostVars, files, docker, people, late, bounds>>

\* docker network create fails when the network exists.
MakeNetwork(h) ==
  /\ pc[h] = "make"
  /\ IF network
     THEN Failed(h)
     ELSE NetworkReady(h) /\ UNCHANGED status
  /\ network' = TRUE
  /\ UNCHANGED <<launchVars, temp, files, docker, people, late, bounds>>

--------------------------------------------------------------------------------
(***************************************************************************)
(* The steps of Install alone.                                             *)
(***************************************************************************)
\* An external database is refused when the container of the internal one is
\* seen; a docker inspect that fails sees none.
InspectContainer(h) ==
  /\ pc[h] = "inspect"
  /\ IF db[h] = Internal
     THEN Goto(h, "password") /\ UNCHANGED status
     ELSE \/ container /\ Failed(h)
          \/ (container => ~calm) /\ Goto(h, "env") /\ UNCHANGED status
  /\ UNCHANGED <<launchVars, hostVars, files, docker, people, late, bounds>>

FreshPassword == CHOOSE p \in Passwords : p \notin {volume, kept, envPw}

\* Fault: the password is looked up in .env only, and kept nowhere else.
FindPasswordInEnv(h) ==
  LET found == IF envPw # NoPassword THEN envPw ELSE FreshPassword
  IN /\ pc[h] = "password"
     /\ pw' = [pw EXCEPT ![h] = found]
     /\ pc' = [pc EXCEPT ![h] = "env"]
     /\ UNCHANGED <<status, db, admin, launchVars, hostVars, files, docker, people,
                    late, bounds>>

\* internalDatabasePassword: from .env, from .database-password, or a new one
FindPassword(h) ==
  LET found == IF envPw # NoPassword THEN envPw
               ELSE IF kept # NoPassword THEN kept ELSE FreshPassword
  IN /\ pc[h] = "password"
     /\ pw' = [pw EXCEPT ![h] = found]
     /\ kept' = IF {envPw, kept} = {NoPassword} THEN found ELSE kept
     /\ pc' = [pc EXCEPT ![h] = "env"]
     /\ UNCHANGED <<status, db, admin, launchVars, hostVars, envDb, envPw, installed,
                    marker, docker, people, late, bounds>>

\* writeEnvironment: an external configuration has no POSTGRES_PASSWORD.
WriteEnv(h) ==
  /\ pc[h] = "env"
  /\ envDb' = db[h] /\ envPw' = pw[h]
  /\ Goto(h, IF db[h] = Internal THEN "up" ELSE "dbtest")
  /\ UNCHANGED <<status, launchVars, hostVars, kept, installed, marker, docker,
                 people, late, bounds>>

\* compose up postgres: the first start initialises the volume, and every other
\* one finds the container.
Postgres(p) ==
  /\ container' = TRUE
  /\ volume' = IF volume = NoPassword THEN p ELSE volume
  /\ lateUp' = {}

UpDatabase(h) ==
  /\ pc[h] = "up"
  /\ Postgres(pw[h])
  /\ Goto(h, "dbtest")
  /\ UNCHANGED <<status, launchVars, hostVars, files, people, lateInsert, bounds>>

\* dbcheck in a container: the internal database wants the password of its volume.
CheckDatabase(h) ==
  /\ pc[h] = "dbtest"
  /\ IF db[h] = Internal /\ ~(container /\ volume = pw[h])
     THEN Failed(h)
     ELSE Goto(h, "admin") /\ UNCHANGED status
  /\ UNCHANGED <<launchVars, hostVars, files, docker, people, late, bounds>>

\* Fault: any account of the database is as good as the administrator.
CheckAnybody(h) ==
  /\ pc[h] = "admin"
  /\ Goto(h, IF accounts[envDb] = {} THEN "insert" ELSE "services")
  /\ UNCHANGED <<status, launchVars, hostVars, files, docker, people, late, bounds>>

\* admin create, with the .env: is the administrator there, is anybody?
CheckAccounts(h) ==
  /\ pc[h] = "admin"
  /\ CASE admin[h] \in accounts[envDb] -> Goto(h, "services") /\ UNCHANGED status
       [] accounts[envDb] = {} -> Goto(h, "insert") /\ UNCHANGED status
       [] OTHER -> Failed(h)
  /\ UNCHANGED <<launchVars, hostVars, files, docker, people, late, bounds>>

Create(d, a) == accounts' = [accounts EXCEPT ![d] = @ \cup {a}] /\ UNCHANGED before

\* One transaction; the address is UNIQUE.
InsertAdmin(h) ==
  /\ pc[h] = "insert"
  /\ IF admin[h] \in accounts[envDb]
     THEN Failed(h)
     ELSE Goto(h, "services") /\ UNCHANGED status
  /\ Create(envDb, admin[h])
  /\ UNCHANGED <<launchVars, hostVars, files, docker, late, bounds>>

\* compose up with the .env, and the public entry answers
StartServices(h) ==
  /\ pc[h] = "services"
  /\ Goto(h, "record")
  /\ UNCHANGED <<status, launchVars, hostVars, files, docker, people, late, bounds>>

WriteRecord(h) ==
  /\ pc[h] = "record"
  /\ installed' = TRUE
  /\ Goto(h, "mark")
  /\ UNCHANGED <<status, launchVars, hostVars, envDb, envPw, kept, marker, docker,
                 people, late, bounds>>

WriteMarker(h) ==
  /\ pc[h] = "mark"
  /\ marker' = TRUE
  /\ Goto(h, "finish")
  /\ UNCHANGED <<status, launchVars, hostVars, envDb, envPw, kept, installed, docker,
                 people, late, bounds>>

\* The marker is created and writing its text fails: Install returns an error.
TearMarker(h) ==
  /\ pc[h] = "mark" /\ ~calm
  /\ marker' = TRUE
  /\ Failed(h)
  /\ UNCHANGED <<launchVars, hostVars, envDb, envPw, kept, installed, docker, people,
                 late, bounds>>

\* The secrets are removed, the status is COMPLETE and Install returns.
Finish(h) ==
  /\ pc[h] = "finish"
  /\ kept' = NoPassword /\ tokenFile' = NoToken
  /\ status' = "COMPLETE"
  /\ Leave(h)
  /\ Forget(NoToken, srvToken)
  /\ UNCHANGED <<srvToken, lpc, wizardOf, strays, hostVars, envDb, envPw, installed,
                 marker, docker, people, late, bounds>>

--------------------------------------------------------------------------------
(***************************************************************************)
(* Failures, and what is left of a dead wizard.                            *)
(***************************************************************************)
\* The commands of the handlers H, killed while they were executed.
Cut(H) ==
  /\ lateUp' = lateUp \cup {pw[h] : h \in {i \in H : pc[i] = "up" /\ ~container}}
  /\ lateInsert' = lateInsert \cup {<<envDb, admin[h]>> : h \in {i \in H : pc[i] = "insert"}}

\* Any step may fail, before its effect or (being the next one) after that of
\* the step before: dependencies, downloads, commands, health checks, timeouts.
StepFails(h) ==
  /\ pc[h] \in Steps \ {"finish"} /\ ~calm
  /\ Failed(h)
  /\ UNCHANGED <<launchVars, hostVars, files, docker, people, late, bounds>>

\* The 30 minutes of Install are over: its docker command is killed, and what the
\* command has asked of Docker goes on.
TimeIsUp(h) ==
  /\ pc[h] \in {"up", "insert"} /\ ~calm /\ extras < MaxExtras
  /\ extras' = extras + 1
  /\ Failed(h)
  /\ Cut({h})
  /\ UNCHANGED <<launchVars, hostVars, files, docker, people, calm>>

\* The process ends; a command it has started goes on.
Dies ==
  /\ status' = "down" /\ srvToken' = NoToken /\ wizardOf' = NoLauncher
  /\ pc' = [h \in Handlers |-> "idle"]
  /\ db' = [h \in Handlers |-> NoDb]
  /\ admin' = [h \in Handlers |-> NoAdmin]
  /\ pw' = [h \in Handlers |-> NoPassword]
  /\ temp' = FALSE
  /\ Cut(Handlers)
  /\ Forget(tokenFile, NoToken)
  /\ UNCHANGED <<tokenFile, lpc, strays, network, files, docker, people, calm>>

WizardCrash ==
  /\ Up /\ ~calm /\ extras < MaxExtras
  /\ extras' = extras + 1
  /\ Dies

\* serveSetup ends ten minutes after it has seen the marker.
CloseWizard ==
  /\ Up /\ marker
  /\ Dies
  /\ UNCHANGED extras

\* What was asked of Docker happens, some time or never.
LateUp(p) ==
  /\ p \in lateUp
  /\ Postgres(p)
  /\ UNCHANGED <<status, launchVars, handlerVars, hostVars, files, people, lateInsert,
                 bounds>>

LateInsert(d, a) ==
  /\ <<d, a>> \in lateInsert /\ a \notin accounts[d]
  /\ Create(d, a)
  /\ UNCHANGED <<status, launchVars, handlerVars, hostVars, files, docker, late, bounds>>

\* From here on nothing fails, and the user submits what can be installed.
CalmDown ==
  /\ ~calm /\ calm' = TRUE
  /\ UNCHANGED <<status, launchVars, handlerVars, hostVars, files, docker, people,
                 late, extras>>

--------------------------------------------------------------------------------
LauncherStep(l) ==
  \/ Look(l) \/ PrintAgain(l) \/ WriteToken(l) \/ StartChild(l) \/ ChildLocks(l)
  \/ PrintLink(l) \/ TimesOut(l)

Launching ==
  \/ \E l \in Launchers : LauncherStep(l)
  \/ StrayLocks \/ Listens

Submit(h) ==
  \/ BeginComplete(h)
  \/ RefuseComplete(h)
  \/ \E d \in Dbs, a \in Admins : Accept(h, d, a)

SharedStep(h) ==
  WriteTemp(h) \/ RenameTemp(h) \/ SeeNetwork(h) \/ MakeNetwork(h)

InstallStep(h) ==
  \/ InspectContainer(h) \/ FindPassword(h) \/ WriteEnv(h) \/ UpDatabase(h)
  \/ CheckDatabase(h) \/ CheckAccounts(h) \/ InsertAdmin(h) \/ StartServices(h)
  \/ WriteRecord(h) \/ WriteMarker(h) \/ Finish(h)

LateStep ==
  \/ \E p \in Passwords : LateUp(p)
  \/ \E d \in Dbs, a \in Admins : LateInsert(d, a)

Progress ==
  \/ \E h \in Handlers : InstallStep(h) \/ SharedStep(h) \/ Submit(h)
  \/ Launching
  \/ LateStep

Next ==
  \/ Progress
  \/ \E l \in Launchers : LaunchFails(l) \/ GivesUp(l)
  \/ \E h \in Handlers : \/ StepFails(h) \/ TimeIsUp(h) \/ TearMarker(h)
                         \/ \E d \in Dbs : BeginTest(h, d)
  \/ WizardCrash \/ CloseWizard \/ CalmDown

Spec == Init /\ [][Next]_vars

\* In the end the environment does no more harm; the user who has no installation
\* runs setup and submits, goroutines and commands go on.  That some step of these
\* follows as long as one can is enough: none of them can be repeated for ever.
FairSpec == Spec /\ WF_vars(CalmDown) /\ WF_vars(Progress)

--------------------------------------------------------------------------------
HandlersTyped ==
  /\ pc \in [Handlers -> Steps \cup {"idle", "checked"}]
  /\ db \in [Handlers -> Dbs \cup {NoDb}]
  /\ \A h \in Handlers : pc[h] \in Steps => db[h] \in Dbs
  /\ admin \in [Handlers -> Admins \cup {NoAdmin}]
  /\ pw \in [Handlers -> Passwords \cup {NoPassword}]

LaunchTyped ==
  /\ status \in {"down", "starting", "READY", "RUNNING", "FAILED", "COMPLETE"}
  /\ srvToken \in Tokens \cup {NoToken} /\ tokenFile \in Tokens \cup {NoToken}
  /\ lpc \in [Launchers -> {"idle", "write", "start", "wait", "watch"}]
  /\ wizardOf \in Launchers \cup {NoLauncher}
  /\ strays \in Nat
  /\ links \subseteq Tokens

HostTyped ==
  /\ temp \in BOOLEAN /\ network \in BOOLEAN
  /\ envDb \in Dbs \cup {NoDb} /\ envPw \in Passwords \cup {NoPassword}
  /\ kept \in Passwords \cup {NoPassword}
  /\ installed \in BOOLEAN /\ marker \in BOOLEAN
  /\ container \in BOOLEAN /\ volume \in Passwords \cup {NoPassword}

RestTyped ==
  /\ accounts \in [Dbs -> SUBSET Admins] /\ before \in [Dbs -> SUBSET Admins]
  /\ lateUp \subseteq Passwords /\ lateInsert \subseteq Dbs \X Admins
  /\ calm \in BOOLEAN /\ extras \in 0..MaxExtras

\* Every variable has its type; what an installation or a test works on is a
\* configuration that validate has let through.
InstallTypeOK == HandlersTyped /\ LaunchTyped /\ HostTyped /\ RestTyped

\* One installation runs while the status is RUNNING, and none at other times:
\* however requests overlap, the files and containers have one writer.
Installing(h) == pc[h] \in Steps /\ ~IsTest(h)

OneInstallation ==
  /\ \A h, i \in Handlers : Installing(h) /\ Installing(i) => h = i
  /\ (status = "RUNNING") <=> \E h \in Handlers : Installing(h)

\* The volume of the internal database and the secrets on the disk agree, whatever
\* was tried before: the configuration has the volume's password, and as long as an
\* installation may still have to look it up, it is kept.
\* (installation-guide.md:47 "a new submission reuses the same container, volume
\* and credentials")
OnePassword ==
  volume # NoPassword =>
    /\ envDb = Internal => envPw = volume
    /\ kept = volume \/ (kept = NoPassword /\ marker)

\* When Install reports success, everything it was asked for is there: the record,
\* the services on the database of this configuration with this administrator,
\* and the password of the internal database.  Nobody was added to a database
\* that had accounts before; in another one nobody else has an account, unless
\* the insert of an earlier installation was killed and took effect after all.
CompleteIsWhole ==
  \A h \in Handlers : pc[h] = "finish" =>
    /\ installed /\ marker
    /\ envDb = db[h]
    /\ admin[h] \in accounts[envDb]
    /\ envDb = Internal => container /\ volume = envPw
    /\ IF before[envDb] # {}
       THEN accounts[envDb] = before[envDb]
       ELSE \/ accounts[envDb] = {admin[h]}
            \/ \E a \in Admins : <<envDb, a>> \in lateInsert

\* Once an installation is complete, or its wizard has gone after the marker, no
\* request and no setup command changes what it has installed (deployment.md:32
\* "the wizard refuses a second initialisation for ever").
Closed == marker /\ status \in {"COMPLETE", "down", "starting"}

CompleteIsFinal ==
  [][Closed => Closed' /\ UNCHANGED files]_vars

\* The link that setup prints on a terminal opens the wizard that runs, for a user
\* with one terminal (installation-guide.md:28 and 104 "run setup again to get the
\* link"), if setup has not given up waiting for this very wizard; there is none
\* to print only when the wizard has finished.
LinkIsAccepted ==
  Up /\ wizardOf # NoLauncher /\ (\A l \in Launchers : lpc[l] = "idle") =>
    tokenFile = srvToken \/ (tokenFile = NoToken /\ marker)

\* The wizard runs and nobody can enter: its token was printed by no setup, and is
\* no longer in the file (manager.go:134 over 198).
LockedOut == Up /\ srvToken \notin links \cup {tokenFile}

\* Whatever failed or died before, wherever it stopped: when nothing fails any
\* more, the user gets an installation that is complete (or recorded, when its
\* wizard has died after writing the record, or no link was printed before that),
\* unless locked out.
InstallationCompletes ==
  calm ~> \/ status = "COMPLETE"
          \/ Found /\ ~(Up /\ Authorized)
          \/ LockedOut
================================================================================
