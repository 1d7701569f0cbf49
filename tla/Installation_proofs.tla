-------------------------- MODULE Installation_proofs --------------------------
(***************************************************************************)
(* Theorems about the first installation, for every set of databases,      *)
(* administrators, requests and terminals, whatever the databases had      *)
(* before, and any number of crashes, killed commands and launchers that   *)
(* give up.  The argument: the status under the lock admits one            *)
(* installation; of the password there is one value on its way through     *)
(* .database-password, .env, the volume and the killed commands, and it is *)
(* kept until nothing can ask for it any more; only an insert that was     *)
(* killed can bring a second account.  The link: a launcher that waits for *)
(* the wizard it has started writes no other token.                        *)
(***************************************************************************)
EXTENDS Installation, TLAPS

TestSteps == {"assets", "rename", "see", "make"}

\* Idle handlers hold nothing, and a test takes no step of Install alone.
Roles ==
  \A h \in Handlers :
    /\ pc[h] \notin Steps => admin[h] = NoAdmin /\ pw[h] = NoPassword
    /\ pc[h] \in Steps /\ IsTest(h) =>
         /\ pc[h] \in TestSteps
         /\ db[h] # Internal /\ pw[h] = NoPassword
    /\ pc[h] \in Steps => Up

Control == Roles /\ OneInstallation

\* Passwords that are, or may still become, the one of the volume.
InUse(p) == \/ p = volume /\ volume # NoPassword
            \/ p \in lateUp
            \/ p = envPw /\ envDb = Internal

AfterPassword == {"env", "up", "dbtest", "admin", "insert", "services", "record",
                  "mark", "finish"}
AfterEnv == AfterPassword \ {"env"}
AfterTest == AfterEnv \ {"up", "dbtest"}

\* They are one: the kept one, or nobody will look it up again.
OneSecret ==
  /\ envDb = Internal <=> envPw # NoPassword
  /\ \A p, q \in Passwords : InUse(p) /\ InUse(q) => p = q
  /\ \A p \in Passwords : InUse(p) => kept = p \/ (kept = NoPassword /\ Closed)

\* An installation on the internal database holds it too, and the .env is its own.
SecretHeld ==
  \A h \in Handlers : Installing(h) =>
    /\ pc[h] \in {"password", "up"} => db[h] = Internal
    /\ pw[h] = IF db[h] = Internal /\ pc[h] \in AfterPassword THEN kept ELSE NoPassword
    /\ db[h] = Internal /\ pc[h] \in AfterPassword => kept # NoPassword
    /\ pc[h] \in AfterEnv => envDb = db[h] /\ envPw = pw[h]

\* What an installation has behind it is there.
Achieved ==
  \A h \in Handlers : Installing(h) =>
    /\ pc[h] \in AfterTest /\ db[h] = Internal => container /\ volume = envPw
    /\ pc[h] \in {"services", "record", "mark", "finish"} => admin[h] \in accounts[envDb]
    /\ pc[h] \in {"mark", "finish"} => installed
    /\ pc[h] = "finish" => marker

NoLateInsert(d) == \A a \in Admins : <<d, a>> \notin lateInsert

\* A database that had accounts gets none; another one gets a second account from
\* the insert of a killed command only.
AccountsKnown ==
  /\ \A d \in Dbs : before[d] \subseteq accounts[d]
  /\ \A d \in Dbs : before[d] # {} => accounts[d] = before[d] /\ NoLateInsert(d)
  /\ \A d \in Dbs : before[d] = {} /\ NoLateInsert(d) =>
       \A a, b \in Admins : a \in accounts[d] /\ b \in accounts[d] => a = b
  /\ \A h \in Handlers : pc[h] = "insert" =>
       /\ before[envDb] = {}
       /\ NoLateInsert(envDb) => accounts[envDb] = {}

InstallInv ==
  /\ InstallTypeOK /\ Control
  /\ OneSecret /\ SecretHeld
  /\ Achieved /\ AccountsKnown

--------------------------------------------------------------------------------
\* A handler that goes on, or leaves, keeps the type of its locals.
LEMMA GotoTyped ==
  ASSUME HandlersTyped, NEW h \in Handlers, NEW step \in Steps \cup {"idle", "checked"},
         step \in Steps => db[h] \in Dbs, Goto(h, step)
  PROVE  HandlersTyped'
  BY DEF HandlersTyped, Goto

LEMMA LeaveTyped ==
  ASSUME HandlersTyped, NEW h \in Handlers, Leave(h)
  PROVE  HandlersTyped'
  BY DEF HandlersTyped, Leave, Steps

\* A token the wizard does not have, and a password nobody has, exist.
LEMMA FreshTokenExists == LaunchTyped => FreshToken \in Tokens
  BY FreshAssumption DEF FreshToken, LaunchTyped

LEMMA FreshPasswordExists ==
  HostTyped /\ kept = NoPassword /\ envPw = NoPassword => FreshPassword \in Passwords
  BY FreshAssumption, NobodyAssumption DEF FreshPassword, HostTyped

\* The steps of the launchers and of the processes they start.
LaunchStep == Launching \/ \E l \in Launchers : LaunchFails(l) \/ GivesUp(l)

\* What they do to the wizard: it gets the lock, and it listens or ends.
WizardStarts ==
  \/ UNCHANGED status
  \/ status = "down" /\ status' = "starting"
  \/ status = "starting" /\ status' = "down"
  \/ status = "starting" /\ status' = IF marker THEN "COMPLETE" ELSE "READY"

LEMMA LaunchFrame ==
  ASSUME LaunchStep
  PROVE  /\ UNCHANGED <<installVars, calm>>
         /\ extras' = extras \/ (extras < MaxExtras /\ extras' = extras + 1)
         /\ WizardStarts
  <1> DEFINE Frame == /\ UNCHANGED <<installVars, calm>>
                      /\ extras' = extras \/ (extras < MaxExtras /\ extras' = extras + 1)
                      /\ WizardStarts
  <1>1. ASSUME NEW l \in Launchers,
               \/ Look(l) \/ PrintAgain(l) \/ WriteToken(l) \/ StartChild(l)
               \/ PrintLink(l) \/ TimesOut(l) \/ LaunchFails(l)
        PROVE  Frame
    BY <1>1
       DEF Look, PrintAgain, WriteToken, StartChild, PrintLink, TimesOut, LaunchFails,
                WizardStarts, bounds
  <1>2. ASSUME NEW l \in Launchers, ChildLocks(l)
        PROVE  Frame
    BY <1>2 DEF ChildLocks, TakesLock, WizardStarts, bounds
  <1>3. ASSUME StrayLocks
        PROVE  Frame
    BY <1>3 DEF StrayLocks, TakesLock, WizardStarts, bounds
  <1>4. ASSUME Listens
        PROVE  Frame
    BY <1>4 DEF Listens, WizardStarts, bounds
  <1>5. ASSUME NEW l \in Launchers, GivesUp(l)
        PROVE  Frame
    BY <1>5 DEF GivesUp, WizardStarts
  <1> QED
    BY <1>1, <1>2, <1>3, <1>4, <1>5 DEF LaunchStep, Launching, LauncherStep

LEMMA LaunchKeepsTypes ==
  ASSUME LaunchTyped, LaunchStep
  PROVE  LaunchTyped'
  <1> USE DEF LaunchTyped, GotoL
  <1>1. ASSUME NEW l \in Launchers, Look(l) \/ StartChild(l) \/ TimesOut(l) \/ LaunchFails(l)
        PROVE  LaunchTyped'
    BY <1>1 DEF Look, StartChild, TimesOut, LaunchFails
  <1>2. ASSUME NEW l \in Launchers, PrintAgain(l)
        PROVE  LaunchTyped'
    BY <1>2 DEF PrintAgain, ShowLink
  <1>3. ASSUME NEW l \in Launchers, WriteToken(l)
        PROVE  LaunchTyped'
    BY <1>3, FreshTokenExists DEF WriteToken, Forget
  <1>4. ASSUME NEW l \in Launchers, ChildLocks(l)
        PROVE  LaunchTyped'
    BY <1>4 DEF ChildLocks, TakesLock, Forget
  <1>5. ASSUME StrayLocks
        PROVE  LaunchTyped'
    BY <1>5 DEF StrayLocks, TakesLock, Forget
  <1>6. ASSUME Listens
        PROVE  LaunchTyped'
    BY <1>6 DEF Listens, Forget
  <1>7. ASSUME NEW l \in Launchers, PrintLink(l)
        PROVE  LaunchTyped'
    BY <1>7 DEF PrintLink, ShowLink
  <1>8. ASSUME NEW l \in Launchers, GivesUp(l)
        PROVE  LaunchTyped'
    BY <1>8 DEF GivesUp
  <1> QED
    BY <1>1, <1>2, <1>3, <1>4, <1>5, <1>6, <1>7, <1>8
       DEF LaunchStep, Launching, LauncherStep

\* Positions and configurations after every step.
LEMMA HandlersTypedStep ==
  ASSUME HostTyped, HandlersTyped, [Next]_vars
  PROVE  HandlersTyped'
  <1> USE NobodyAssumption, DatabasesAssumption, FreshAssumption, BoundsAssumption
          DEF HandlersTyped, Steps
  <1>1. ASSUME LaunchStep
        PROVE  HandlersTyped'
    BY <1>1, LaunchFrame DEF installVars, handlerVars
  <1>2. ASSUME NEW h \in Handlers, TimeIsUp(h)
        PROVE  HandlersTyped'
    BY <1>2, GotoTyped, LeaveTyped DEF TimeIsUp, Failed
  <1>3. ASSUME NEW h \in Handlers, BeginComplete(h)
        PROVE  HandlersTyped'
    BY <1>3 DEF BeginComplete, Goto, Open
  <1>4. ASSUME NEW h \in Handlers, RefuseComplete(h)
        PROVE  HandlersTyped'
    BY <1>4 DEF RefuseComplete, Leave
  <1>5. ASSUME NEW h \in Handlers, NEW d \in Dbs, NEW a \in Admins, Accept(h, d, a)
        PROVE  HandlersTyped'
    BY <1>5 DEF Accept, Open
  <1>6. ASSUME NEW h \in Handlers, NEW d \in Dbs, BeginTest(h, d)
        PROVE  HandlersTyped'
    BY <1>6 DEF BeginTest
  <1>7. ASSUME NEW h \in Handlers, WriteTemp(h)
        PROVE  HandlersTyped'
    BY <1>7 DEF WriteTemp, Goto
  <1>8. ASSUME NEW h \in Handlers, RenameTemp(h)
        PROVE  HandlersTyped'
    BY <1>8, GotoTyped, LeaveTyped DEF RenameTemp, Failed
  <1>9. ASSUME NEW h \in Handlers, SeeNetwork(h)
        PROVE  HandlersTyped'
    BY <1>9, GotoTyped, LeaveTyped DEF SeeNetwork, NetworkReady
  <1>10. ASSUME NEW h \in Handlers, MakeNetwork(h)
         PROVE  HandlersTyped'
    BY <1>10, GotoTyped, LeaveTyped DEF MakeNetwork, NetworkReady, Failed
  <1>11. ASSUME NEW h \in Handlers, CheckDatabase(h)
         PROVE  HandlersTyped'
    BY <1>11, GotoTyped, LeaveTyped DEF CheckDatabase, Failed
  <1>12. ASSUME NEW h \in Handlers, InspectContainer(h)
         PROVE  HandlersTyped'
    BY <1>12, GotoTyped, LeaveTyped DEF InspectContainer, Failed
  <1>13. ASSUME NEW h \in Handlers, FindPassword(h)
         PROVE  HandlersTyped'
    BY <1>13, FreshPasswordExists DEF FindPassword, HostTyped
  <1>14. ASSUME NEW h \in Handlers, WriteEnv(h)
         PROVE  HandlersTyped'
    BY <1>14 DEF WriteEnv, Goto
  <1>15. ASSUME NEW h \in Handlers, UpDatabase(h)
         PROVE  HandlersTyped'
    BY <1>15 DEF UpDatabase, Postgres, Goto
  <1>16. ASSUME NEW h \in Handlers, CheckAccounts(h)
         PROVE  HandlersTyped'
    BY <1>16, GotoTyped, LeaveTyped DEF CheckAccounts, Failed
  <1>17. ASSUME NEW h \in Handlers, InsertAdmin(h)
         PROVE  HandlersTyped'
    BY <1>17, GotoTyped, LeaveTyped DEF InsertAdmin, Failed
  <1>18. ASSUME NEW h \in Handlers, StartServices(h)
         PROVE  HandlersTyped'
    BY <1>18 DEF StartServices, Goto
  <1>19. ASSUME NEW h \in Handlers, WriteRecord(h)
         PROVE  HandlersTyped'
    BY <1>19 DEF WriteRecord, Goto
  <1>20. ASSUME NEW h \in Handlers, WriteMarker(h)
         PROVE  HandlersTyped'
    BY <1>20 DEF WriteMarker, Goto
  <1>21. ASSUME NEW h \in Handlers, TearMarker(h)
         PROVE  HandlersTyped'
    BY <1>21 DEF TearMarker, Failed, Leave
  <1>22. ASSUME NEW h \in Handlers, Finish(h)
         PROVE  HandlersTyped'
    BY <1>22 DEF Finish, Leave, Forget
  <1>23. ASSUME NEW h \in Handlers, StepFails(h)
         PROVE  HandlersTyped'
    BY <1>23 DEF StepFails, Failed, Leave
  <1>24. ASSUME WizardCrash
         PROVE  HandlersTyped'
    BY <1>24 DEF WizardCrash, Dies, Cut, Forget
  <1>25. ASSUME CloseWizard
         PROVE  HandlersTyped'
    BY <1>25 DEF CloseWizard, Dies, Cut, Forget
  <1>26. ASSUME NEW p \in Passwords, LateUp(p)
         PROVE  HandlersTyped'
    BY <1>26 DEF LateUp, handlerVars
  <1>27. ASSUME NEW d \in Dbs, NEW a \in Admins, LateInsert(d, a)
         PROVE  HandlersTyped'
    BY <1>27 DEF LateInsert, handlerVars
  <1>28. ASSUME CalmDown
         PROVE  HandlersTyped'
    BY <1>28 DEF CalmDown, handlerVars
  <1>29. CASE UNCHANGED vars
    BY <1>29
       DEF vars, launchVars, handlerVars, hostVars, files, docker, people, late, bounds
  <1> QED
    BY <1>1, <1>2, <1>3, <1>4, <1>5, <1>6, <1>7, <1>8, <1>9, <1>10,
       <1>11, <1>12, <1>13, <1>14, <1>15, <1>16, <1>17, <1>18, <1>19, <1>20, <1>21,
       <1>22, <1>23, <1>24, <1>25, <1>26, <1>27, <1>28, <1>29
       DEF Next, Progress, LaunchStep, Submit, SharedStep, InstallStep, LateStep

\* Status, tokens and terminals after every step.
LEMMA LaunchTypedStep ==
  ASSUME LaunchTyped, [Next]_vars
  PROVE  LaunchTyped'
  <1> USE DEF LaunchTyped, launchVars, handlerVars, hostVars, files, docker, people,
          late, bounds
  <1>1. ASSUME LaunchStep
        PROVE  LaunchTyped'
    BY <1>1, LaunchKeepsTypes
  <1>2. ASSUME NEW h \in Handlers, TimeIsUp(h)
        PROVE  LaunchTyped'
    BY <1>2 DEF TimeIsUp, Failed, Leave
  <1>3. ASSUME NEW h \in Handlers, BeginComplete(h)
        PROVE  LaunchTyped'
    BY <1>3 DEF BeginComplete, Goto, Open
  <1>4. ASSUME NEW h \in Handlers, RefuseComplete(h)
        PROVE  LaunchTyped'
    BY <1>4 DEF RefuseComplete, Leave
  <1>5. ASSUME NEW h \in Handlers, NEW d \in Dbs, NEW a \in Admins, Accept(h, d, a)
        PROVE  LaunchTyped'
    BY <1>5 DEF Accept, Open
  <1>6. ASSUME NEW h \in Handlers, NEW d \in Dbs, BeginTest(h, d)
        PROVE  LaunchTyped'
    BY <1>6 DEF BeginTest
  <1>7. ASSUME NEW h \in Handlers, WriteTemp(h)
        PROVE  LaunchTyped'
    BY <1>7 DEF WriteTemp, Goto
  <1>8. ASSUME NEW h \in Handlers, RenameTemp(h)
        PROVE  LaunchTyped'
    BY <1>8 DEF RenameTemp, Goto, Failed, Leave
  <1>9. ASSUME NEW h \in Handlers, SeeNetwork(h)
        PROVE  LaunchTyped'
    BY <1>9 DEF SeeNetwork, NetworkReady, Goto, Leave
  <1>10. ASSUME NEW h \in Handlers, MakeNetwork(h)
         PROVE  LaunchTyped'
    BY <1>10 DEF MakeNetwork, NetworkReady, Goto, Failed, Leave
  <1>11. ASSUME NEW h \in Handlers, CheckDatabase(h)
         PROVE  LaunchTyped'
    BY <1>11 DEF CheckDatabase, Goto, Failed, Leave
  <1>12. ASSUME NEW h \in Handlers, InspectContainer(h)
         PROVE  LaunchTyped'
    BY <1>12 DEF InspectContainer, Goto, Failed, Leave
  <1>13. ASSUME NEW h \in Handlers, FindPassword(h)
         PROVE  LaunchTyped'
    BY <1>13 DEF FindPassword
  <1>14. ASSUME NEW h \in Handlers, WriteEnv(h)
         PROVE  LaunchTyped'
    BY <1>14 DEF WriteEnv, Goto
  <1>15. ASSUME NEW h \in Handlers, UpDatabase(h)
         PROVE  LaunchTyped'
    BY <1>15 DEF UpDatabase, Postgres, Goto
  <1>16. ASSUME NEW h \in Handlers, CheckAccounts(h)
         PROVE  LaunchTyped'
    BY <1>16 DEF CheckAccounts, Goto, Failed, Leave
  <1>17. ASSUME NEW h \in Handlers, InsertAdmin(h)
         PROVE  LaunchTyped'
    BY <1>17 DEF InsertAdmin, Create, Goto, Failed, Leave
  <1>18. ASSUME NEW h \in Handlers, StartServices(h)
         PROVE  LaunchTyped'
    BY <1>18 DEF StartServices, Goto
  <1>19. ASSUME NEW h \in Handlers, WriteRecord(h)
         PROVE  LaunchTyped'
    BY <1>19 DEF WriteRecord, Goto
  <1>20. ASSUME NEW h \in Handlers, WriteMarker(h)
         PROVE  LaunchTyped'
    BY <1>20 DEF WriteMarker, Goto
  <1>21. ASSUME NEW h \in Handlers, TearMarker(h)
         PROVE  LaunchTyped'
    BY <1>21 DEF TearMarker, Failed, Leave
  <1>22. ASSUME NEW h \in Handlers, Finish(h)
         PROVE  LaunchTyped'
    BY <1>22 DEF Finish, Leave, Forget
  <1>23. ASSUME NEW h \in Handlers, StepFails(h)
         PROVE  LaunchTyped'
    BY <1>23 DEF StepFails, Failed, Leave
  <1>24. ASSUME WizardCrash
         PROVE  LaunchTyped'
    BY <1>24 DEF WizardCrash, Dies, Cut, Forget
  <1>25. ASSUME CloseWizard
         PROVE  LaunchTyped'
    BY <1>25 DEF CloseWizard, Dies, Cut, Forget
  <1>26. ASSUME NEW p \in Passwords, LateUp(p)
         PROVE  LaunchTyped'
    BY <1>26 DEF LateUp, Postgres
  <1>27. ASSUME NEW d \in Dbs, NEW a \in Admins, LateInsert(d, a)
         PROVE  LaunchTyped'
    BY <1>27 DEF LateInsert, Create
  <1>28. ASSUME CalmDown
         PROVE  LaunchTyped'
    BY <1>28 DEF CalmDown
  <1>29. CASE UNCHANGED vars
    BY <1>29
       DEF vars, launchVars, handlerVars, hostVars, files, docker, people, late, bounds
  <1> QED
    BY <1>1, <1>2, <1>3, <1>4, <1>5, <1>6, <1>7, <1>8, <1>9, <1>10,
       <1>11, <1>12, <1>13, <1>14, <1>15, <1>16, <1>17, <1>18, <1>19, <1>20, <1>21,
       <1>22, <1>23, <1>24, <1>25, <1>26, <1>27, <1>28, <1>29
       DEF Next, Progress, LaunchStep, Submit, SharedStep, InstallStep, LateStep

\* What is on the host after every step.
LEMMA HostTypedStep ==
  ASSUME HandlersTyped, HostTyped, [Next]_vars
  PROVE  HostTyped'
  <1> USE NobodyAssumption, DatabasesAssumption, FreshAssumption, BoundsAssumption
          DEF HandlersTyped, HostTyped, Steps, launchVars, handlerVars, hostVars,
              files, docker, people, late, bounds
  <1>1. ASSUME LaunchStep
        PROVE  HostTyped'
    BY <1>1, LaunchFrame DEF installVars
  <1>2. ASSUME NEW h \in Handlers, TimeIsUp(h)
        PROVE  HostTyped'
    BY <1>2 DEF TimeIsUp
  <1>3. ASSUME NEW h \in Handlers, BeginComplete(h)
        PROVE  HostTyped'
    BY <1>3 DEF BeginComplete, Goto, Open
  <1>4. ASSUME NEW h \in Handlers, RefuseComplete(h)
        PROVE  HostTyped'
    BY <1>4 DEF RefuseComplete, Leave
  <1>5. ASSUME NEW h \in Handlers, NEW d \in Dbs, NEW a \in Admins, Accept(h, d, a)
        PROVE  HostTyped'
    BY <1>5 DEF Accept, Open
  <1>6. ASSUME NEW h \in Handlers, NEW d \in Dbs, BeginTest(h, d)
        PROVE  HostTyped'
    BY <1>6 DEF BeginTest
  <1>7. ASSUME NEW h \in Handlers, WriteTemp(h)
        PROVE  HostTyped'
    BY <1>7 DEF WriteTemp, Goto
  <1>8. ASSUME NEW h \in Handlers, RenameTemp(h)
        PROVE  HostTyped'
    BY <1>8 DEF RenameTemp, Goto, Failed, Leave
  <1>9. ASSUME NEW h \in Handlers, SeeNetwork(h)
        PROVE  HostTyped'
    BY <1>9 DEF SeeNetwork, NetworkReady, Goto, Leave
  <1>10. ASSUME NEW h \in Handlers, MakeNetwork(h)
         PROVE  HostTyped'
    BY <1>10 DEF MakeNetwork, NetworkReady, Goto, Failed, Leave
  <1>11. ASSUME NEW h \in Handlers, CheckDatabase(h)
         PROVE  HostTyped'
    BY <1>11 DEF CheckDatabase, Goto, Failed, Leave
  <1>12. ASSUME NEW h \in Handlers, InspectContainer(h)
         PROVE  HostTyped'
    BY <1>12 DEF InspectContainer, Goto, Failed, Leave
  <1>13. ASSUME NEW h \in Handlers, FindPassword(h)
         PROVE  HostTyped'
    BY <1>13, FreshPasswordExists DEF FindPassword
  <1>14. ASSUME NEW h \in Handlers, WriteEnv(h)
         PROVE  HostTyped'
    BY <1>14 DEF WriteEnv, Goto
  <1>15. ASSUME NEW h \in Handlers, UpDatabase(h)
         PROVE  HostTyped'
    BY <1>15 DEF UpDatabase, Postgres, Goto
  <1>16. ASSUME NEW h \in Handlers, CheckAccounts(h)
         PROVE  HostTyped'
    BY <1>16 DEF CheckAccounts, Goto, Failed, Leave
  <1>17. ASSUME NEW h \in Handlers, InsertAdmin(h)
         PROVE  HostTyped'
    BY <1>17 DEF InsertAdmin, Create, Goto, Failed, Leave
  <1>18. ASSUME NEW h \in Handlers, StartServices(h)
         PROVE  HostTyped'
    BY <1>18 DEF StartServices, Goto
  <1>19. ASSUME NEW h \in Handlers, WriteRecord(h)
         PROVE  HostTyped'
    BY <1>19 DEF WriteRecord, Goto
  <1>20. ASSUME NEW h \in Handlers, WriteMarker(h)
         PROVE  HostTyped'
    BY <1>20 DEF WriteMarker, Goto
  <1>21. ASSUME NEW h \in Handlers, TearMarker(h)
         PROVE  HostTyped'
    BY <1>21 DEF TearMarker, Failed, Leave
  <1>22. ASSUME NEW h \in Handlers, Finish(h)
         PROVE  HostTyped'
    BY <1>22 DEF Finish, Leave, Forget
  <1>23. ASSUME NEW h \in Handlers, StepFails(h)
         PROVE  HostTyped'
    BY <1>23 DEF StepFails, Failed, Leave
  <1>24. ASSUME WizardCrash
         PROVE  HostTyped'
    BY <1>24 DEF WizardCrash, Dies, Cut, Forget
  <1>25. ASSUME CloseWizard
         PROVE  HostTyped'
    BY <1>25 DEF CloseWizard, Dies, Cut, Forget
  <1>26. ASSUME NEW p \in Passwords, LateUp(p)
         PROVE  HostTyped'
    BY <1>26 DEF LateUp, Postgres
  <1>27. ASSUME NEW d \in Dbs, NEW a \in Admins, LateInsert(d, a)
         PROVE  HostTyped'
    BY <1>27 DEF LateInsert, Create
  <1>28. ASSUME CalmDown
         PROVE  HostTyped'
    BY <1>28 DEF CalmDown
  <1>29. CASE UNCHANGED vars
    BY <1>29
       DEF vars, launchVars, handlerVars, hostVars, files, docker, people, late, bounds
  <1> QED
    BY <1>1, <1>2, <1>3, <1>4, <1>5, <1>6, <1>7, <1>8, <1>9, <1>10,
       <1>11, <1>12, <1>13, <1>14, <1>15, <1>16, <1>17, <1>18, <1>19, <1>20, <1>21,
       <1>22, <1>23, <1>24, <1>25, <1>26, <1>27, <1>28, <1>29
       DEF Next, Progress, LaunchStep, Submit, SharedStep, InstallStep, LateStep

\* Outside of TestSteps there are only installations.
LEMMA InstallationsOnly ==
  ASSUME InstallInv, NEW h \in Handlers, pc[h] \in Steps \ TestSteps
  PROVE  Installing(h)
  BY DEF InstallInv, Control, Roles, Installing

\* What a command of the installation takes with it.
LEMMA CommandData ==
  ASSUME InstallInv, NEW h \in Handlers
  PROVE  /\ pc[h] = "up" => pw[h] \in Passwords
         /\ pc[h] = "insert" => envDb \in Dbs /\ admin[h] \in Admins
  <1> USE DEF InstallInv, InstallTypeOK, HandlersTyped, Steps, TestSteps
  <1>1. ASSUME pc[h] = "up"
        PROVE  pw[h] \in Passwords
    <2>1. Installing(h)
      BY <1>1, InstallationsOnly
    <2> QED
      BY <1>1, <2>1 DEF SecretHeld, AfterPassword, HostTyped
  <1>2. ASSUME pc[h] = "insert"
        PROVE  envDb \in Dbs /\ admin[h] \in Admins
    <2>1. Installing(h)
      BY <1>2, InstallationsOnly
    <2> QED
      BY <1>2, <2>1 DEF SecretHeld, AfterPassword, AfterEnv, Installing, IsTest
  <1> QED
    BY <1>1, <1>2

\* Commands that outlive their installation are such commands.
LEMMA CutTyped ==
  ASSUME InstallInv, NEW H \in SUBSET Handlers, Cut(H)
  PROVE  lateUp' \subseteq Passwords /\ lateInsert' \subseteq Dbs \X Admins
  <1>1. \A h \in Handlers : pc[h] = "up" => pw[h] \in Passwords
    BY CommandData
  <1>2. \A h \in Handlers : pc[h] = "insert" => <<envDb, admin[h]>> \in Dbs \X Admins
    BY CommandData
  <1>3. lateUp \subseteq Passwords /\ lateInsert \subseteq Dbs \X Admins
    BY DEF InstallInv, InstallTypeOK, RestTyped
  <1>4. lateUp' \subseteq Passwords
    BY <1>1, <1>3 DEF Cut
  <1>5. lateInsert' \subseteq Dbs \X Admins
    BY <1>2, <1>3 DEF Cut
  <1> QED
    BY <1>4, <1>5

\* Accounts, late commands and counters after every step.
LEMMA RestTypedStep ==
  ASSUME InstallInv, RestTyped, [Next]_vars
  PROVE  RestTyped'
  <1> USE NobodyAssumption, DatabasesAssumption, FreshAssumption, BoundsAssumption
          DEF RestTyped, people, late, bounds
  <1>1. ASSUME LaunchStep
        PROVE  RestTyped'
    BY <1>1, LaunchFrame DEF installVars, people
  <1>2. ASSUME NEW h \in Handlers, TimeIsUp(h)
        PROVE  RestTyped'
    BY <1>2, CutTyped DEF TimeIsUp, people
  <1>3. ASSUME NEW h \in Handlers, BeginComplete(h)
        PROVE  RestTyped'
    BY <1>3 DEF BeginComplete, Goto, Open
  <1>4. ASSUME NEW h \in Handlers, RefuseComplete(h)
        PROVE  RestTyped'
    BY <1>4 DEF RefuseComplete, Leave
  <1>5. ASSUME NEW h \in Handlers, NEW d \in Dbs, NEW a \in Admins, Accept(h, d, a)
        PROVE  RestTyped'
    BY <1>5 DEF Accept, Open
  <1>6. ASSUME NEW h \in Handlers, NEW d \in Dbs, BeginTest(h, d)
        PROVE  RestTyped'
    BY <1>6 DEF BeginTest
  <1>7. ASSUME NEW h \in Handlers, WriteTemp(h)
        PROVE  RestTyped'
    BY <1>7 DEF WriteTemp, Goto
  <1>8. ASSUME NEW h \in Handlers, RenameTemp(h)
        PROVE  RestTyped'
    BY <1>8 DEF RenameTemp, Goto, Failed, Leave
  <1>9. ASSUME NEW h \in Handlers, SeeNetwork(h)
        PROVE  RestTyped'
    BY <1>9 DEF SeeNetwork, NetworkReady, Goto, Leave
  <1>10. ASSUME NEW h \in Handlers, MakeNetwork(h)
         PROVE  RestTyped'
    BY <1>10 DEF MakeNetwork, NetworkReady, Goto, Failed, Leave
  <1>11. ASSUME NEW h \in Handlers, CheckDatabase(h)
         PROVE  RestTyped'
    BY <1>11 DEF CheckDatabase, Goto, Failed, Leave
  <1>12. ASSUME NEW h \in Handlers, InspectContainer(h)
         PROVE  RestTyped'
    BY <1>12 DEF InspectContainer, Goto, Failed, Leave
  <1>13. ASSUME NEW h \in Handlers, FindPassword(h)
         PROVE  RestTyped'
    BY <1>13 DEF FindPassword
  <1>14. ASSUME NEW h \in Handlers, WriteEnv(h)
         PROVE  RestTyped'
    BY <1>14 DEF WriteEnv, Goto
  <1>15. ASSUME NEW h \in Handlers, UpDatabase(h)
         PROVE  RestTyped'
    BY <1>15 DEF UpDatabase, Postgres, Goto
  <1>16. ASSUME NEW h \in Handlers, CheckAccounts(h)
         PROVE  RestTyped'
    BY <1>16 DEF CheckAccounts, Goto, Failed, Leave
  <1>17. ASSUME NEW h \in Handlers, InsertAdmin(h)
         PROVE  RestTyped'
    BY <1>17, CommandData DEF InsertAdmin, Create
  <1>18. ASSUME NEW h \in Handlers, StartServices(h)
         PROVE  RestTyped'
    BY <1>18 DEF StartServices, Goto
  <1>19. ASSUME NEW h \in Handlers, WriteRecord(h)
         PROVE  RestTyped'
    BY <1>19 DEF WriteRecord, Goto
  <1>20. ASSUME NEW h \in Handlers, WriteMarker(h)
         PROVE  RestTyped'
    BY <1>20 DEF WriteMarker, Goto
  <1>21. ASSUME NEW h \in Handlers, TearMarker(h)
         PROVE  RestTyped'
    BY <1>21 DEF TearMarker, Failed, Leave
  <1>22. ASSUME NEW h \in Handlers, Finish(h)
         PROVE  RestTyped'
    BY <1>22 DEF Finish, Leave, Forget
  <1>23. ASSUME NEW h \in Handlers, StepFails(h)
         PROVE  RestTyped'
    BY <1>23 DEF StepFails, Failed, Leave
  <1>24. ASSUME WizardCrash
         PROVE  RestTyped'
    BY <1>24, CutTyped DEF WizardCrash, Dies, people
  <1>25. ASSUME CloseWizard
         PROVE  RestTyped'
    BY <1>25, CutTyped DEF CloseWizard, Dies, people
  <1>26. ASSUME NEW p \in Passwords, LateUp(p)
         PROVE  RestTyped'
    BY <1>26 DEF LateUp, Postgres
  <1>27. ASSUME NEW d \in Dbs, NEW a \in Admins, LateInsert(d, a)
         PROVE  RestTyped'
    BY <1>27 DEF LateInsert, Create
  <1>28. ASSUME CalmDown
         PROVE  RestTyped'
    BY <1>28 DEF CalmDown
  <1>29. CASE UNCHANGED vars
    BY <1>29
       DEF vars, launchVars, handlerVars, hostVars, files, docker, people, late, bounds
  <1> QED
    BY <1>1, <1>2, <1>3, <1>4, <1>5, <1>6, <1>7, <1>8, <1>9, <1>10,
       <1>11, <1>12, <1>13, <1>14, <1>15, <1>16, <1>17, <1>18, <1>19, <1>20, <1>21,
       <1>22, <1>23, <1>24, <1>25, <1>26, <1>27, <1>28, <1>29
       DEF Next, Progress, LaunchStep, Submit, SharedStep, InstallStep, LateStep

\* The steps of a test or an installation keep the roles and the one installation,
\* whether they go on or fail.
LEMMA GotoControl ==
  ASSUME InstallInv, NEW h \in Handlers, NEW step \in Steps, pc[h] \in Steps,
         IsTest(h) => step \in TestSteps, Goto(h, step), UNCHANGED status
  PROVE  Control'
  BY DEF Control, InstallInv, InstallTypeOK, HandlersTyped, Roles, OneInstallation,
         Installing, IsTest, Up, Goto

LEMMA FailedControl ==
  ASSUME InstallInv, NEW h \in Handlers, pc[h] \in Steps, Failed(h)
  PROVE  Control'
  <1> USE NobodyAssumption DEF Control, InstallInv, InstallTypeOK, HandlersTyped, Roles,
          OneInstallation, Installing, IsTest, Up, Failed, Leave, Steps
  <1>1. CASE IsTest(h)
    BY <1>1
  <1>2. CASE ~IsTest(h)
    BY <1>2
  <1> QED
    BY <1>1, <1>2

\* Roles and the one installation after every step.
LEMMA ControlStep ==
  ASSUME InstallInv, [Next]_vars
  PROVE  Control'
  <1> USE DEF Steps, TestSteps
  <1>1. ASSUME LaunchStep
        PROVE  Control'
    <2>1. UNCHANGED <<pc, db, admin, pw>> /\ WizardStarts
      BY <1>1, LaunchFrame DEF installVars, handlerVars
    <2>2. (Up => Up') /\ (status = "RUNNING" <=> status' = "RUNNING")
      BY <2>1 DEF WizardStarts, Up
    <2> QED
      BY <2>1, <2>2 DEF Control, InstallInv, Roles, OneInstallation, Installing, IsTest
  <1>2. ASSUME NEW h \in Handlers, TimeIsUp(h)
        PROVE  Control'
    BY <1>2, FailedControl DEF TimeIsUp
  <1>3. ASSUME NEW h \in Handlers, BeginComplete(h)
        PROVE  Control'
    BY <1>3, NobodyAssumption
       DEF BeginComplete, Goto, Open, Control, InstallInv, InstallTypeOK,
           HandlersTyped, LaunchTyped, Roles, OneInstallation,
           Installing, IsTest, Up
  <1>4. ASSUME NEW h \in Handlers, RefuseComplete(h)
        PROVE  Control'
    BY <1>4, NobodyAssumption
       DEF RefuseComplete, Leave, Control, InstallInv, InstallTypeOK, HandlersTyped,
           LaunchTyped, Roles, OneInstallation,
           Installing, IsTest, Up
  <1>5. ASSUME NEW h \in Handlers, NEW d \in Dbs, NEW a \in Admins, Accept(h, d, a)
        PROVE  Control'
    BY <1>5, NobodyAssumption
       DEF Accept, Open, Control, InstallInv, InstallTypeOK, HandlersTyped,
           LaunchTyped, Roles, OneInstallation,
           Installing, IsTest, Up
  <1>6. ASSUME NEW h \in Handlers, NEW d \in Dbs, BeginTest(h, d)
        PROVE  Control'
    BY <1>6, NobodyAssumption
       DEF BeginTest, Control, InstallInv, InstallTypeOK, HandlersTyped, LaunchTyped,
           Roles, OneInstallation,
           Installing, IsTest, Up
  <1>7. ASSUME NEW h \in Handlers, WriteTemp(h)
        PROVE  Control'
    BY <1>7, GotoControl, FailedControl, InstallationsOnly DEF WriteTemp, Installing
  <1>8. ASSUME NEW h \in Handlers, RenameTemp(h)
        PROVE  Control'
    BY <1>8, GotoControl, FailedControl, InstallationsOnly DEF RenameTemp, Installing
  <1>9. ASSUME NEW h \in Handlers, SeeNetwork(h)
        PROVE  Control'
    BY <1>9, GotoControl, FailedControl, InstallationsOnly
       DEF SeeNetwork, NetworkReady, Failed, Installing
  <1>10. ASSUME NEW h \in Handlers, MakeNetwork(h)
         PROVE  Control'
    BY <1>10, GotoControl, FailedControl, InstallationsOnly
       DEF MakeNetwork, NetworkReady, Failed, Installing
  <1>11. ASSUME NEW h \in Handlers, CheckDatabase(h)
         PROVE  Control'
    BY <1>11, GotoControl, FailedControl, InstallationsOnly
       DEF CheckDatabase, Installing
  <1>12. ASSUME NEW h \in Handlers, InspectContainer(h)
         PROVE  Control'
    BY <1>12, GotoControl, FailedControl, InstallationsOnly
       DEF InspectContainer, Installing
  <1>13. ASSUME NEW h \in Handlers, FindPassword(h)
         PROVE  Control'
    BY <1>13, NobodyAssumption
       DEF FindPassword, Control, InstallInv, InstallTypeOK, HandlersTyped,
           LaunchTyped, Roles, OneInstallation,
           Installing, IsTest, Up
  <1>14. ASSUME NEW h \in Handlers, WriteEnv(h)
         PROVE  Control'
    BY <1>14, GotoControl, FailedControl, InstallationsOnly DEF WriteEnv, Installing
  <1>15. ASSUME NEW h \in Handlers, UpDatabase(h)
         PROVE  Control'
    BY <1>15, GotoControl, FailedControl, InstallationsOnly DEF UpDatabase, Installing
  <1>16. ASSUME NEW h \in Handlers, CheckAccounts(h)
         PROVE  Control'
    BY <1>16, GotoControl, FailedControl, InstallationsOnly
       DEF CheckAccounts, Installing
  <1>17. ASSUME NEW h \in Handlers, InsertAdmin(h)
         PROVE  Control'
    BY <1>17, GotoControl, FailedControl, InstallationsOnly DEF InsertAdmin, Installing
  <1>18. ASSUME NEW h \in Handlers, StartServices(h)
         PROVE  Control'
    BY <1>18, GotoControl, FailedControl, InstallationsOnly
       DEF StartServices, Installing
  <1>19. ASSUME NEW h \in Handlers, WriteRecord(h)
         PROVE  Control'
    BY <1>19, GotoControl, FailedControl, InstallationsOnly DEF WriteRecord, Installing
  <1>20. ASSUME NEW h \in Handlers, WriteMarker(h)
         PROVE  Control'
    BY <1>20, GotoControl, FailedControl, InstallationsOnly DEF WriteMarker, Installing
  <1>21. ASSUME NEW h \in Handlers, TearMarker(h)
         PROVE  Control'
    BY <1>21, GotoControl, FailedControl, InstallationsOnly DEF TearMarker, Installing
  <1>22. ASSUME NEW h \in Handlers, Finish(h)
         PROVE  Control'
    BY <1>22, NobodyAssumption
       DEF Finish, Leave, Control, InstallInv, InstallTypeOK, HandlersTyped,
           LaunchTyped, Roles, OneInstallation,
           Installing, IsTest, Up
  <1>23. ASSUME NEW h \in Handlers, StepFails(h)
         PROVE  Control'
    BY <1>23, GotoControl, FailedControl, InstallationsOnly DEF StepFails, Installing
  <1>24. ASSUME WizardCrash
         PROVE  Control'
    BY <1>24
       DEF WizardCrash, Dies, Control, InstallInv, InstallTypeOK, HandlersTyped,
           LaunchTyped, Roles, OneInstallation,
           Installing, IsTest, Up
  <1>25. ASSUME CloseWizard
         PROVE  Control'
    BY <1>25
       DEF CloseWizard, Dies, Control, InstallInv, InstallTypeOK, HandlersTyped,
           LaunchTyped, Roles, OneInstallation,
           Installing, IsTest, Up
  <1>26. ASSUME NEW p \in Passwords, LateUp(p)
         PROVE  Control'
    BY <1>26
       DEF LateUp, launchVars, handlerVars, Control, InstallInv, InstallTypeOK,
           HandlersTyped, LaunchTyped, Roles, OneInstallation,
           Installing, IsTest, Up
  <1>27. ASSUME NEW d \in Dbs, NEW a \in Admins, LateInsert(d, a)
         PROVE  Control'
    BY <1>27
       DEF LateInsert, launchVars, handlerVars, Control, InstallInv, InstallTypeOK,
           HandlersTyped, LaunchTyped, Roles, OneInstallation,
           Installing, IsTest, Up
  <1>28. ASSUME CalmDown
         PROVE  Control'
    BY <1>28
       DEF CalmDown, launchVars, handlerVars, Control, InstallInv, InstallTypeOK,
           HandlersTyped, LaunchTyped, Roles, OneInstallation,
           Installing, IsTest, Up
  <1>29. CASE UNCHANGED vars
    BY <1>29
       DEF vars, launchVars, handlerVars, hostVars, files, docker, people, late,
           bounds, Control, InstallInv, Roles, OneInstallation, Installing, IsTest, Up
  <1> QED
    BY <1>1, <1>2, <1>3, <1>4, <1>5, <1>6, <1>7, <1>8, <1>9, <1>10,
       <1>11, <1>12, <1>13, <1>14, <1>15, <1>16, <1>17, <1>18, <1>19, <1>20, <1>21,
       <1>22, <1>23, <1>24, <1>25, <1>26, <1>27, <1>28, <1>29
       DEF Next, Progress, LaunchStep, Submit, SharedStep, InstallStep, LateStep

\* In a closed installation nobody installs.
LEMMA NobodyInstalls ==
  ASSUME InstallInv, Closed, NEW h \in Handlers
  PROVE  ~Installing(h)
  BY DEF InstallInv, Control, OneInstallation, Closed

\* A closed installation stays closed, with all its files.
LEMMA ClosedStays ==
  ASSUME InstallInv, Closed, [Next]_vars
  PROVE  Closed' /\ UNCHANGED files
  <1> USE DEF Closed, files
  <1>1. ASSUME LaunchStep
        PROVE  Closed' /\ UNCHANGED files
    BY <1>1, LaunchFrame DEF installVars, WizardStarts
  <1>2. ASSUME NEW h \in Handlers, TimeIsUp(h)
        PROVE  Closed' /\ UNCHANGED files
    BY <1>2, NobodyInstalls DEF TimeIsUp, Failed, Installing, Steps
  <1>3. ASSUME NEW h \in Handlers, BeginComplete(h)
        PROVE  Closed' /\ UNCHANGED files
    BY <1>3 DEF BeginComplete
  <1>4. ASSUME NEW h \in Handlers, RefuseComplete(h)
        PROVE  Closed' /\ UNCHANGED files
    BY <1>4 DEF RefuseComplete
  <1>5. ASSUME NEW h \in Handlers, NEW d \in Dbs, NEW a \in Admins, Accept(h, d, a)
        PROVE  Closed' /\ UNCHANGED files
    BY <1>5 DEF Accept, Open
  <1>6. ASSUME NEW h \in Handlers, NEW d \in Dbs, BeginTest(h, d)
        PROVE  Closed' /\ UNCHANGED files
    BY <1>6 DEF BeginTest
  <1>7. ASSUME NEW h \in Handlers, WriteTemp(h)
        PROVE  Closed' /\ UNCHANGED files
    BY <1>7 DEF WriteTemp
  <1>8. ASSUME NEW h \in Handlers, RenameTemp(h)
        PROVE  Closed' /\ UNCHANGED files
    BY <1>8, NobodyInstalls DEF RenameTemp, Failed, Installing, Steps
  <1>9. ASSUME NEW h \in Handlers, SeeNetwork(h)
        PROVE  Closed' /\ UNCHANGED files
    BY <1>9 DEF SeeNetwork
  <1>10. ASSUME NEW h \in Handlers, MakeNetwork(h)
         PROVE  Closed' /\ UNCHANGED files
    BY <1>10, NobodyInstalls DEF MakeNetwork, NetworkReady, Failed, Installing, Steps
  <1>11. ASSUME NEW h \in Handlers, CheckDatabase(h)
         PROVE  Closed' /\ UNCHANGED files
    BY <1>11, NobodyInstalls, InstallationsOnly DEF CheckDatabase, Steps, TestSteps
  <1>12. ASSUME NEW h \in Handlers, InspectContainer(h)
         PROVE  Closed' /\ UNCHANGED files
    BY <1>12, NobodyInstalls, InstallationsOnly DEF InspectContainer, Steps, TestSteps
  <1>13. ASSUME NEW h \in Handlers, FindPassword(h)
         PROVE  Closed' /\ UNCHANGED files
    BY <1>13, NobodyInstalls, InstallationsOnly DEF FindPassword, Steps, TestSteps
  <1>14. ASSUME NEW h \in Handlers, WriteEnv(h)
         PROVE  Closed' /\ UNCHANGED files
    BY <1>14, NobodyInstalls, InstallationsOnly DEF WriteEnv, Steps, TestSteps
  <1>15. ASSUME NEW h \in Handlers, UpDatabase(h)
         PROVE  Closed' /\ UNCHANGED files
    BY <1>15, NobodyInstalls, InstallationsOnly DEF UpDatabase, Steps, TestSteps
  <1>16. ASSUME NEW h \in Handlers, CheckAccounts(h)
         PROVE  Closed' /\ UNCHANGED files
    BY <1>16, NobodyInstalls, InstallationsOnly DEF CheckAccounts, Steps, TestSteps
  <1>17. ASSUME NEW h \in Handlers, InsertAdmin(h)
         PROVE  Closed' /\ UNCHANGED files
    BY <1>17, NobodyInstalls, InstallationsOnly DEF InsertAdmin, Steps, TestSteps
  <1>18. ASSUME NEW h \in Handlers, StartServices(h)
         PROVE  Closed' /\ UNCHANGED files
    BY <1>18, NobodyInstalls, InstallationsOnly DEF StartServices, Steps, TestSteps
  <1>19. ASSUME NEW h \in Handlers, WriteRecord(h)
         PROVE  Closed' /\ UNCHANGED files
    BY <1>19, NobodyInstalls, InstallationsOnly DEF WriteRecord, Steps, TestSteps
  <1>20. ASSUME NEW h \in Handlers, WriteMarker(h)
         PROVE  Closed' /\ UNCHANGED files
    BY <1>20, NobodyInstalls, InstallationsOnly DEF WriteMarker, Steps, TestSteps
  <1>21. ASSUME NEW h \in Handlers, TearMarker(h)
         PROVE  Closed' /\ UNCHANGED files
    BY <1>21, NobodyInstalls, InstallationsOnly DEF TearMarker, Steps, TestSteps
  <1>22. ASSUME NEW h \in Handlers, Finish(h)
         PROVE  Closed' /\ UNCHANGED files
    BY <1>22, NobodyInstalls, InstallationsOnly DEF Finish, Steps, TestSteps
  <1>23. ASSUME NEW h \in Handlers, StepFails(h)
         PROVE  Closed' /\ UNCHANGED files
    BY <1>23, NobodyInstalls DEF StepFails, Failed, Installing, Steps
  <1>24. ASSUME WizardCrash
         PROVE  Closed' /\ UNCHANGED files
    BY <1>24 DEF WizardCrash, Dies, Cut, Forget
  <1>25. ASSUME CloseWizard
         PROVE  Closed' /\ UNCHANGED files
    BY <1>25 DEF CloseWizard, Dies, Cut, Forget
  <1>26. ASSUME NEW p \in Passwords, LateUp(p)
         PROVE  Closed' /\ UNCHANGED files
    BY <1>26 DEF LateUp
  <1>27. ASSUME NEW d \in Dbs, NEW a \in Admins, LateInsert(d, a)
         PROVE  Closed' /\ UNCHANGED files
    BY <1>27 DEF LateInsert
  <1>28. ASSUME CalmDown
         PROVE  Closed' /\ UNCHANGED files
    BY <1>28 DEF CalmDown
  <1>29. CASE UNCHANGED vars
    BY <1>29
       DEF vars, launchVars, handlerVars, hostVars, files, docker, people, late, bounds
  <1> QED
    BY <1>1, <1>2, <1>3, <1>4, <1>5, <1>6, <1>7, <1>8, <1>9, <1>10,
       <1>11, <1>12, <1>13, <1>14, <1>15, <1>16, <1>17, <1>18, <1>19, <1>20, <1>21,
       <1>22, <1>23, <1>24, <1>25, <1>26, <1>27, <1>28, <1>29
       DEF Next, Progress, LaunchStep, Submit, SharedStep, InstallStep, LateStep

\* The passwords stay one as long as nothing touches them.
LEMMA SecretFrame ==
  ASSUME OneSecret, UNCHANGED <<envDb, envPw, kept, volume, lateUp>>, Closed => Closed'
  PROVE  OneSecret'
  BY DEF OneSecret, InUse

\* While an installation runs, the password in use is the kept one.
LEMMA KeptInUse ==
  ASSUME InstallInv, NEW h \in Handlers, Installing(h), NEW p \in Passwords, InUse(p)
  PROVE  kept = p
  BY NobodyInstalls DEF InstallInv, OneSecret

\* When a password joins those in use that is the kept one, they stay one.
LEMMA SecretJoins ==
  ASSUME InstallInv, NEW h \in Handlers, Installing(h), UNCHANGED kept,
         envDb' = Internal <=> envPw' # NoPassword,
         \A p \in Passwords : InUse(p)' => InUse(p) \/ p = kept
  PROVE  OneSecret'
  BY KeptInUse DEF OneSecret

\* Commands that outlive their installation bring no password but the kept one.
LEMMA CutSecret ==
  ASSUME InstallInv, NEW H \in SUBSET Handlers, Cut(H), Closed => Closed',
         UNCHANGED <<kept, envDb, envPw, volume>>
  PROVE  OneSecret'
  <1>1. ASSUME NEW h \in Handlers, pc[h] = "up"
        PROVE  Installing(h) /\ pw[h] = kept
    <2>1. Installing(h)
      BY <1>1, InstallationsOnly DEF Steps, TestSteps
    <2> QED
      BY <1>1, <2>1 DEF InstallInv, SecretHeld, AfterPassword
  <1>2. CASE \E h \in H : pc[h] = "up"
    <2>1. PICK h \in H : pc[h] = "up"
      BY <1>2
    <2>2. \A p \in Passwords : InUse(p)' => InUse(p) \/ p = kept
      BY <1>1 DEF Cut, InUse
    <2> QED
      BY <1>1, <2>1, <2>2, SecretJoins DEF InstallInv, OneSecret
  <1>3. CASE ~ \E h \in H : pc[h] = "up"
    BY <1>3, SecretFrame DEF InstallInv, Cut
  <1> QED
    BY <1>2, <1>3

\* The one password after every step.
LEMMA OneSecretStep ==
  ASSUME InstallInv, [Next]_vars
  PROVE  OneSecret'
  <1>0. OneSecret /\ (Closed => Closed')
    BY ClosedStays DEF InstallInv
  <1>1. ASSUME LaunchStep
        PROVE  OneSecret'
    BY <1>1, <1>0, LaunchFrame, SecretFrame DEF installVars, files, docker, late
  <1>2. ASSUME NEW h \in Handlers, TimeIsUp(h)
        PROVE  OneSecret'
    <2>1. Cut({h}) /\ UNCHANGED <<kept, envDb, envPw, volume>>
      BY <1>2 DEF TimeIsUp, files, docker
    <2> QED
      BY <1>0, <2>1, CutSecret
  <1>3. ASSUME NEW h \in Handlers, BeginComplete(h)
        PROVE  OneSecret'
    BY <1>3, <1>0, SecretFrame DEF BeginComplete, files, docker, late
  <1>4. ASSUME NEW h \in Handlers, RefuseComplete(h)
        PROVE  OneSecret'
    BY <1>4, <1>0, SecretFrame DEF RefuseComplete, files, docker, late
  <1>5. ASSUME NEW h \in Handlers, NEW d \in Dbs, NEW a \in Admins, Accept(h, d, a)
        PROVE  OneSecret'
    BY <1>5, <1>0, SecretFrame DEF Accept, files, docker, late
  <1>6. ASSUME NEW h \in Handlers, NEW d \in Dbs, BeginTest(h, d)
        PROVE  OneSecret'
    BY <1>6, <1>0, SecretFrame DEF BeginTest, files, docker, late
  <1>7. ASSUME NEW h \in Handlers, WriteTemp(h)
        PROVE  OneSecret'
    BY <1>7, <1>0, SecretFrame DEF WriteTemp, files, docker, late
  <1>8. ASSUME NEW h \in Handlers, RenameTemp(h)
        PROVE  OneSecret'
    BY <1>8, <1>0, SecretFrame DEF RenameTemp, files, docker, late
  <1>9. ASSUME NEW h \in Handlers, SeeNetwork(h)
        PROVE  OneSecret'
    BY <1>9, <1>0, SecretFrame DEF SeeNetwork, files, docker, late
  <1>10. ASSUME NEW h \in Handlers, MakeNetwork(h)
         PROVE  OneSecret'
    BY <1>10, <1>0, SecretFrame DEF MakeNetwork, files, docker, late
  <1>11. ASSUME NEW h \in Handlers, CheckDatabase(h)
         PROVE  OneSecret'
    BY <1>11, <1>0, SecretFrame DEF CheckDatabase, files, docker, late
  <1>12. ASSUME NEW h \in Handlers, InspectContainer(h)
         PROVE  OneSecret'
    BY <1>12, <1>0, SecretFrame DEF InspectContainer, files, docker, late
  <1>13. ASSUME NEW h \in Handlers, FindPassword(h)
         PROVE  OneSecret'
    <2>1. Installing(h)
      BY <1>13, InstallationsOnly DEF FindPassword, Steps, TestSteps
    <2>2. CASE {envPw, kept} = {NoPassword}
      <3>1. \A p \in Passwords : ~InUse(p)
        BY <2>1, <2>2, KeptInUse, NobodyAssumption
      <3> QED
        BY <1>13, <1>0, <3>1 DEF FindPassword, OneSecret, InUse, docker, late
    <2>3. CASE {envPw, kept} # {NoPassword}
      BY <1>13, <1>0, <2>3, SecretFrame DEF FindPassword, docker, late
    <2> QED
      BY <2>2, <2>3
  <1>14. ASSUME NEW h \in Handlers, WriteEnv(h)
         PROVE  OneSecret'
    <2>1. Installing(h)
      BY <1>14, InstallationsOnly DEF WriteEnv, Steps, TestSteps
    <2>2. pw[h] = IF db[h] = Internal THEN kept ELSE NoPassword
      BY <1>14, <2>1 DEF WriteEnv, InstallInv, SecretHeld, AfterPassword
    <2>3. db[h] = Internal => kept # NoPassword
      BY <1>14, <2>1 DEF WriteEnv, InstallInv, SecretHeld, AfterPassword
    <2>4. envDb' = Internal <=> envPw' # NoPassword
      BY <1>14, <2>2, <2>3 DEF WriteEnv
    <2>5. \A p \in Passwords : InUse(p)' => InUse(p) \/ p = kept
      BY <1>14, <2>2 DEF WriteEnv, InUse, docker, late
    <2>6. UNCHANGED kept
      BY <1>14 DEF WriteEnv
    <2> QED
      BY <2>1, <2>4, <2>5, <2>6, SecretJoins
  <1>15. ASSUME NEW h \in Handlers, UpDatabase(h)
         PROVE  OneSecret'
    <2>1. Installing(h)
      BY <1>15, InstallationsOnly DEF UpDatabase, Steps, TestSteps
    <2>2. pw[h] = kept
      BY <1>15, <2>1 DEF UpDatabase, InstallInv, SecretHeld, AfterPassword
    <2>3. \A p \in Passwords : InUse(p)' => InUse(p) \/ p = kept
      BY <1>15, <2>2 DEF UpDatabase, Postgres, InUse, files, late
    <2>4. UNCHANGED <<kept, envDb, envPw>>
      BY <1>15 DEF UpDatabase, files
    <2> QED
      BY <1>0, <2>1, <2>3, <2>4, SecretJoins DEF OneSecret
  <1>16. ASSUME NEW h \in Handlers, CheckAccounts(h)
         PROVE  OneSecret'
    BY <1>16, <1>0, SecretFrame DEF CheckAccounts, files, docker, late
  <1>17. ASSUME NEW h \in Handlers, InsertAdmin(h)
         PROVE  OneSecret'
    BY <1>17, <1>0, SecretFrame DEF InsertAdmin, files, docker, late
  <1>18. ASSUME NEW h \in Handlers, StartServices(h)
         PROVE  OneSecret'
    BY <1>18, <1>0, SecretFrame DEF StartServices, files, docker, late
  <1>19. ASSUME NEW h \in Handlers, WriteRecord(h)
         PROVE  OneSecret'
    BY <1>19, <1>0, SecretFrame DEF WriteRecord, files, docker, late
  <1>20. ASSUME NEW h \in Handlers, WriteMarker(h)
         PROVE  OneSecret'
    BY <1>20, <1>0, SecretFrame DEF WriteMarker, files, docker, late
  <1>21. ASSUME NEW h \in Handlers, TearMarker(h)
         PROVE  OneSecret'
    BY <1>21, <1>0, SecretFrame DEF TearMarker, files, docker, late
  <1>22. ASSUME NEW h \in Handlers, Finish(h)
         PROVE  OneSecret'
    <2>1. Installing(h)
      BY <1>22, InstallationsOnly DEF Finish, Steps, TestSteps
    <2>2. Closed'
      BY <1>22, <2>1 DEF Finish, InstallInv, Achieved, Closed
    <2> QED
      BY <1>22, <1>0, <2>2 DEF Finish, OneSecret, InUse, docker, late
  <1>23. ASSUME NEW h \in Handlers, StepFails(h)
         PROVE  OneSecret'
    BY <1>23, <1>0, SecretFrame DEF StepFails, files, docker, late
  <1>24. ASSUME WizardCrash
         PROVE  OneSecret'
    <2>1. Cut(Handlers) /\ UNCHANGED <<kept, envDb, envPw, volume>>
      BY <1>24 DEF WizardCrash, Dies, files, docker
    <2> QED
      BY <1>0, <2>1, CutSecret
  <1>25. ASSUME CloseWizard
         PROVE  OneSecret'
    <2>1. Cut(Handlers) /\ UNCHANGED <<kept, envDb, envPw, volume>>
      BY <1>25 DEF CloseWizard, Dies, files, docker
    <2> QED
      BY <1>0, <2>1, CutSecret
  <1>26. ASSUME NEW p \in Passwords, LateUp(p)
         PROVE  OneSecret'
    BY <1>26, <1>0 DEF LateUp, Postgres, OneSecret, InUse, files
  <1>27. ASSUME NEW d \in Dbs, NEW a \in Admins, LateInsert(d, a)
         PROVE  OneSecret'
    BY <1>27, <1>0, SecretFrame DEF LateInsert, files, docker, late
  <1>28. ASSUME CalmDown
         PROVE  OneSecret'
    BY <1>28, <1>0, SecretFrame DEF CalmDown, files, docker, late
  <1>29. CASE UNCHANGED vars
    BY <1>29, <1>0, SecretFrame DEF vars, files, docker, late
  <1> QED
    BY <1>1, <1>2, <1>3, <1>4, <1>5, <1>6, <1>7, <1>8, <1>9, <1>10,
       <1>11, <1>12, <1>13, <1>14, <1>15, <1>16, <1>17, <1>18, <1>19, <1>20, <1>21,
       <1>22, <1>23, <1>24, <1>25, <1>26, <1>27, <1>28, <1>29
       DEF Next, Progress, LaunchStep, Submit, SharedStep, InstallStep, LateStep

\* A handler that goes on inside the same part of the installation, or leaves,
\* does not touch what installations hold.
LEMMA HeldGoto ==
  ASSUME InstallInv, NEW h \in Handlers, NEW step \in Steps, pc[h] \in Steps,
         Goto(h, step), UNCHANGED <<kept, envDb, envPw>>,
         Installing(h) => /\ step \in {"password", "up"} => db[h] = Internal
                          /\ db[h] = Internal =>
                               (step \in AfterPassword <=> pc[h] \in AfterPassword)
                          /\ step \in AfterEnv => pc[h] \in AfterEnv
  PROVE  SecretHeld'
  BY DEF InstallInv, InstallTypeOK, HandlersTyped, SecretHeld, Installing, IsTest, Goto

LEMMA HeldLeave ==
  ASSUME InstallInv, NEW h \in Handlers, Leave(h), UNCHANGED <<kept, envDb, envPw>>
  PROVE  SecretHeld'
  BY DEF InstallInv, InstallTypeOK, HandlersTyped, SecretHeld, Installing, IsTest,
     Leave, Steps

LEMMA HeldFrame ==
  ASSUME SecretHeld, UNCHANGED <<handlerVars, kept, envDb, envPw>>
  PROVE  SecretHeld'
  BY DEF SecretHeld, Installing, IsTest, handlerVars

\* Nobody else installs.
LEMMA OnlyOne ==
  ASSUME InstallInv, NEW h \in Handlers, Installing(h), NEW i \in Handlers, Installing(i)
  PROVE  i = h
  BY DEF InstallInv, Control, OneInstallation

\* What the installation holds after every step.
LEMMA SecretHeldStep ==
  ASSUME InstallInv, [Next]_vars
  PROVE  SecretHeld'
  <1>1. ASSUME LaunchStep
        PROVE  SecretHeld'
    BY <1>1, LaunchFrame, HeldFrame DEF installVars, InstallInv, files
  <1>2. ASSUME NEW h \in Handlers, TimeIsUp(h)
        PROVE  SecretHeld'
    BY <1>2, HeldLeave DEF TimeIsUp, Failed, files
  <1>3. ASSUME NEW h \in Handlers, BeginComplete(h)
        PROVE  SecretHeld'
    BY <1>3
       DEF BeginComplete, Goto, files, Steps, InstallInv, InstallTypeOK, HandlersTyped,
           Control, Roles, SecretHeld, Installing, IsTest
  <1>4. ASSUME NEW h \in Handlers, RefuseComplete(h)
        PROVE  SecretHeld'
    BY <1>4, HeldLeave DEF RefuseComplete, files
  <1>5. ASSUME NEW h \in Handlers, NEW d \in Dbs, NEW a \in Admins, Accept(h, d, a)
        PROVE  SecretHeld'
    <2>1. \A i \in Handlers : i # h => pc'[i] = pc[i] /\ db'[i] = db[i] /\ admin'[i] = admin[i]
      BY <1>5 DEF Accept, InstallInv, InstallTypeOK, HandlersTyped
    <2>2. pc'[h] = "assets" /\ pw'[h] = NoPassword
      BY <1>5
         DEF Accept, InstallInv, InstallTypeOK, HandlersTyped, Control, Roles, Steps
    <2>3. UNCHANGED <<kept, envDb, envPw, pw>>
      BY <1>5 DEF Accept, files
    <2> QED
      BY <2>1, <2>2, <2>3
         DEF InstallInv, SecretHeld, Installing, IsTest, AfterPassword, AfterEnv
  <1>6. ASSUME NEW h \in Handlers, NEW d \in Dbs, BeginTest(h, d)
        PROVE  SecretHeld'
    <2>1. admin[h] = NoAdmin
      BY <1>6 DEF BeginTest, IsNewHandler, InstallInv, Control, Roles, Steps
    <2>2. \A i \in Handlers : Installing(i)' =>
            /\ Installing(i)
            /\ pc'[i] = pc[i] /\ db'[i] = db[i] /\ pw'[i] = pw[i]
      BY <1>6, <2>1
         DEF BeginTest, InstallInv, InstallTypeOK, HandlersTyped, Installing, IsTest
    <2>3. UNCHANGED <<kept, envDb, envPw>>
      BY <1>6 DEF BeginTest, files
    <2> QED
      BY <2>2, <2>3 DEF InstallInv, SecretHeld
  <1>7. ASSUME NEW h \in Handlers, WriteTemp(h)
        PROVE  SecretHeld'
    BY <1>7, HeldGoto, HeldLeave
       DEF WriteTemp, Failed, files, Steps, AfterPassword, AfterEnv
  <1>8. ASSUME NEW h \in Handlers, RenameTemp(h)
        PROVE  SecretHeld'
    BY <1>8, HeldGoto, HeldLeave
       DEF RenameTemp, Failed, files, Steps, AfterPassword, AfterEnv
  <1>9. ASSUME NEW h \in Handlers, SeeNetwork(h)
        PROVE  SecretHeld'
    BY <1>9, HeldGoto, HeldLeave
       DEF SeeNetwork, NetworkReady, Failed, files, Steps, AfterPassword, AfterEnv,
           Installing
  <1>10. ASSUME NEW h \in Handlers, MakeNetwork(h)
         PROVE  SecretHeld'
    BY <1>10, HeldGoto, HeldLeave
       DEF MakeNetwork, NetworkReady, Failed, files, Steps, AfterPassword, AfterEnv,
           Installing
  <1>11. ASSUME NEW h \in Handlers, CheckDatabase(h)
         PROVE  SecretHeld'
    BY <1>11, HeldGoto, HeldLeave
       DEF CheckDatabase, Failed, files, Steps, AfterPassword, AfterEnv
  <1>12. ASSUME NEW h \in Handlers, InspectContainer(h)
         PROVE  SecretHeld'
    BY <1>12, HeldGoto, HeldLeave
       DEF InspectContainer, Failed, files, Steps, AfterPassword, AfterEnv
  <1>13. ASSUME NEW h \in Handlers, FindPassword(h)
         PROVE  SecretHeld'
    <2>1. Installing(h) /\ db[h] = Internal
      BY <1>13, InstallationsOnly
         DEF FindPassword, Steps, TestSteps, InstallInv, SecretHeld
    <2>2. pw'[h] = kept' /\ kept' # NoPassword
      <3>1. envPw # NoPassword => kept = envPw
        BY <2>1, KeptInUse DEF InstallInv, InstallTypeOK, HostTyped, OneSecret, InUse
      <3>2. {envPw, kept} = {NoPassword} => FreshPassword # NoPassword
        BY FreshPasswordExists, NobodyAssumption DEF InstallInv, InstallTypeOK
      <3> QED
        BY <1>13, <3>1, <3>2 DEF FindPassword, InstallInv, InstallTypeOK, HandlersTyped
    <2>3. ASSUME NEW i \in Handlers, Installing(i)'
          PROVE  i = h
      BY <1>13, <2>1, <2>3, OnlyOne
         DEF FindPassword, InstallInv, InstallTypeOK, HandlersTyped, Installing, IsTest
    <2> QED
      BY <1>13, <2>1, <2>2, <2>3
         DEF FindPassword, SecretHeld, AfterPassword, AfterEnv, InstallInv,
             InstallTypeOK,
             HandlersTyped
  <1>14. ASSUME NEW h \in Handlers, WriteEnv(h)
         PROVE  SecretHeld'
    <2>1. Installing(h)
      BY <1>14, InstallationsOnly DEF WriteEnv, Steps, TestSteps
    <2>2. ASSUME NEW i \in Handlers, Installing(i)'
          PROVE  i = h
      BY <1>14, <2>1, <2>2, OnlyOne
         DEF WriteEnv, Goto, InstallInv, InstallTypeOK, HandlersTyped, Installing,
             IsTest
    <2> QED
      BY <1>14, <2>1, <2>2
         DEF WriteEnv, Goto, SecretHeld, AfterPassword, AfterEnv, InstallInv,
             InstallTypeOK, HandlersTyped
  <1>15. ASSUME NEW h \in Handlers, UpDatabase(h)
         PROVE  SecretHeld'
    BY <1>15, HeldGoto, HeldLeave
       DEF UpDatabase, Failed, files, Steps, AfterPassword, AfterEnv
  <1>16. ASSUME NEW h \in Handlers, CheckAccounts(h)
         PROVE  SecretHeld'
    BY <1>16, HeldGoto, HeldLeave
       DEF CheckAccounts, Failed, files, Steps, AfterPassword, AfterEnv
  <1>17. ASSUME NEW h \in Handlers, InsertAdmin(h)
         PROVE  SecretHeld'
    BY <1>17, HeldGoto, HeldLeave
       DEF InsertAdmin, Failed, files, Steps, AfterPassword, AfterEnv
  <1>18. ASSUME NEW h \in Handlers, StartServices(h)
         PROVE  SecretHeld'
    BY <1>18, HeldGoto, HeldLeave
       DEF StartServices, Failed, files, Steps, AfterPassword, AfterEnv
  <1>19. ASSUME NEW h \in Handlers, WriteRecord(h)
         PROVE  SecretHeld'
    BY <1>19, HeldGoto, HeldLeave
       DEF WriteRecord, Failed, files, Steps, AfterPassword, AfterEnv
  <1>20. ASSUME NEW h \in Handlers, WriteMarker(h)
         PROVE  SecretHeld'
    BY <1>20, HeldGoto, HeldLeave
       DEF WriteMarker, Failed, files, Steps, AfterPassword, AfterEnv
  <1>21. ASSUME NEW h \in Handlers, TearMarker(h)
         PROVE  SecretHeld'
    BY <1>21, HeldGoto, HeldLeave
       DEF TearMarker, Failed, files, Steps, AfterPassword, AfterEnv
  <1>22. ASSUME NEW h \in Handlers, Finish(h)
         PROVE  SecretHeld'
    <2>1. Installing(h)
      BY <1>22, InstallationsOnly DEF Finish, Steps, TestSteps
    <2>2. ASSUME NEW i \in Handlers
          PROVE  ~Installing(i)'
      BY <1>22, <2>1, OnlyOne
         DEF Finish, Leave, InstallInv, InstallTypeOK, HandlersTyped, Installing,
             IsTest, Steps
    <2> QED
      BY <2>2 DEF SecretHeld
  <1>23. ASSUME NEW h \in Handlers, StepFails(h)
         PROVE  SecretHeld'
    BY <1>23, HeldGoto, HeldLeave
       DEF StepFails, Failed, files, Steps, AfterPassword, AfterEnv
  <1>24. ASSUME WizardCrash
         PROVE  SecretHeld'
    BY <1>24 DEF WizardCrash, Dies, SecretHeld, Installing, Steps
  <1>25. ASSUME CloseWizard
         PROVE  SecretHeld'
    BY <1>25 DEF CloseWizard, Dies, SecretHeld, Installing, Steps
  <1>26. ASSUME NEW p \in Passwords, LateUp(p)
         PROVE  SecretHeld'
    BY <1>26, HeldFrame DEF InstallInv, LateUp, files
  <1>27. ASSUME NEW d \in Dbs, NEW a \in Admins, LateInsert(d, a)
         PROVE  SecretHeld'
    BY <1>27, HeldFrame DEF InstallInv, LateInsert, files
  <1>28. ASSUME CalmDown
         PROVE  SecretHeld'
    BY <1>28, HeldFrame DEF InstallInv, CalmDown, files
  <1>29. CASE UNCHANGED vars
    BY <1>29, HeldFrame DEF InstallInv, vars, files
  <1> QED
    BY <1>1, <1>2, <1>3, <1>4, <1>5, <1>6, <1>7, <1>8, <1>9, <1>10,
       <1>11, <1>12, <1>13, <1>14, <1>15, <1>16, <1>17, <1>18, <1>19, <1>20, <1>21,
       <1>22, <1>23, <1>24, <1>25, <1>26, <1>27, <1>28, <1>29
       DEF Next, Progress, LaunchStep, Submit, SharedStep, InstallStep, LateStep

\* An installation that goes on, with what the step it reaches asks for.
LEMMA AchievedGoto ==
  ASSUME InstallInv, NEW h \in Handlers, NEW step \in Steps, Installing(h), Goto(h, step),
         step \in AfterTest /\ db[h] = Internal => container' /\ volume' = envPw',
         step \in {"services", "record", "mark",
         "finish"} => admin[h] \in accounts'[envDb'],
         step \in {"mark", "finish"} => installed',
         step = "finish" => marker'
  PROVE  Achieved'
  <1>1. ASSUME NEW i \in Handlers, Installing(i)'
        PROVE  i = h
    BY <1>1, OnlyOne
       DEF Goto, InstallInv, InstallTypeOK, HandlersTyped, Installing, IsTest
  <1> QED
    BY <1>1 DEF Goto, Achieved, InstallInv, InstallTypeOK, HandlersTyped

\* Tests, and installations that end.
LEMMA AchievedOthers ==
  ASSUME InstallInv, NEW h \in Handlers,
         \/ Leave(h) /\ (Installing(h) \/ UNCHANGED <<files, docker, people>>)
         \/ /\ IsTest(h) /\ (\E step \in Steps : Goto(h, step))
            /\ UNCHANGED <<files, docker, people>>
  PROVE  Achieved'
  <1>1. ASSUME NEW i \in Handlers, Installing(i)'
        PROVE  Installing(i) /\ i # h /\ UNCHANGED <<pc[i], db[i], admin[i]>>
    BY <1>1
       DEF Goto, Leave, InstallInv, InstallTypeOK, HandlersTyped, Installing, IsTest,
           Steps
  <1>2. CASE Installing(h)
    BY <1>1, <1>2, OnlyOne DEF Achieved
  <1>3. CASE ~Installing(h)
    BY <1>1, <1>3 DEF Achieved, InstallInv, files, docker, people, IsTest, Installing
  <1> QED
    BY <1>2, <1>3

LEMMA AchievedFrame ==
  ASSUME Achieved, UNCHANGED <<handlerVars, files, docker, people>>
  PROVE  Achieved'
  BY DEF Achieved, Installing, IsTest, handlerVars, files, docker, people

\* What the installation has behind it after every step.
LEMMA AchievedStep ==
  ASSUME InstallInv, [Next]_vars
  PROVE  Achieved'
  <1>1. ASSUME LaunchStep
        PROVE  Achieved'
    BY <1>1, LaunchFrame, AchievedFrame DEF installVars, InstallInv
  <1>2. ASSUME NEW h \in Handlers, TimeIsUp(h)
        PROVE  Achieved'
    BY <1>2, AchievedOthers DEF TimeIsUp, Failed
  <1>3. ASSUME NEW h \in Handlers, BeginComplete(h)
        PROVE  Achieved'
    BY <1>3
       DEF BeginComplete, Goto, Achieved, AfterTest, AfterEnv, AfterPassword, Steps,
           InstallInv, InstallTypeOK, HandlersTyped, Installing, IsTest, files, docker,
           people
  <1>4. ASSUME NEW h \in Handlers, RefuseComplete(h)
        PROVE  Achieved'
    BY <1>4, AchievedOthers DEF RefuseComplete
  <1>5. ASSUME NEW h \in Handlers, NEW d \in Dbs, NEW a \in Admins, Accept(h, d, a)
        PROVE  Achieved'
    BY <1>5 DEF Accept, Goto, Achieved, AfterTest, AfterEnv, AfterPassword, Steps,
           InstallInv, InstallTypeOK, HandlersTyped, Installing, IsTest, files, docker,
           people
  <1>6. ASSUME NEW h \in Handlers, NEW d \in Dbs, BeginTest(h, d)
        PROVE  Achieved'
    BY <1>6 DEF BeginTest, Goto, Achieved, AfterTest, AfterEnv, AfterPassword, Steps,
           InstallInv, InstallTypeOK, HandlersTyped, Installing, IsTest, files, docker,
           people
  <1>7. ASSUME NEW h \in Handlers, WriteTemp(h)
        PROVE  Achieved'
    <2>1. CASE IsTest(h)
      BY <1>7, <2>1, AchievedOthers DEF WriteTemp, Failed, Steps
    <2>2. CASE Installing(h)
      BY <1>7, <2>2, AchievedGoto, AchievedOthers
         DEF WriteTemp, Failed, Steps, AfterTest, AfterEnv, AfterPassword
    <2> QED
      BY <1>7, <2>1, <2>2 DEF WriteTemp, Installing, Steps
  <1>8. ASSUME NEW h \in Handlers, RenameTemp(h)
        PROVE  Achieved'
    <2>1. CASE IsTest(h)
      BY <1>8, <2>1, AchievedOthers DEF RenameTemp, Failed, Steps
    <2>2. CASE Installing(h)
      BY <1>8, <2>2, AchievedGoto, AchievedOthers
         DEF RenameTemp, Failed, Steps, AfterTest, AfterEnv, AfterPassword
    <2> QED
      BY <1>8, <2>1, <2>2 DEF RenameTemp, Installing, Steps
  <1>9. ASSUME NEW h \in Handlers, SeeNetwork(h)
        PROVE  Achieved'
    <2>1. CASE IsTest(h)
      BY <1>9, <2>1, AchievedOthers DEF SeeNetwork, NetworkReady, Failed, Steps
    <2>2. CASE Installing(h)
      BY <1>9, <2>2, AchievedGoto, AchievedOthers
         DEF SeeNetwork, NetworkReady, Failed, Steps, AfterTest, AfterEnv, AfterPassword
    <2> QED
      BY <1>9, <2>1, <2>2 DEF SeeNetwork, Installing, Steps
  <1>10. ASSUME NEW h \in Handlers, MakeNetwork(h)
         PROVE  Achieved'
    <2>1. CASE IsTest(h)
      BY <1>10, <2>1, AchievedOthers DEF MakeNetwork, NetworkReady, Failed, Steps
    <2>2. CASE Installing(h)
      BY <1>10, <2>2, AchievedGoto, AchievedOthers
         DEF MakeNetwork, NetworkReady, Failed, Steps, AfterTest, AfterEnv,
             AfterPassword
    <2> QED
      BY <1>10, <2>1, <2>2 DEF MakeNetwork, Installing, Steps
  <1>11. ASSUME NEW h \in Handlers, CheckDatabase(h)
         PROVE  Achieved'
    <2>1. Installing(h)
      BY <1>11, InstallationsOnly DEF CheckDatabase, Steps, TestSteps
    <2>2. CASE Failed(h)
      BY <1>11, <2>1, <2>2, AchievedOthers DEF Failed
    <2>3. CASE (db[h] = Internal => container /\ volume = pw[h]) /\ Goto(h, "admin")
      <3>1. envPw = pw[h]
        BY <1>11, <2>1
           DEF CheckDatabase, InstallInv, SecretHeld, AfterEnv, AfterPassword
      <3> QED
        BY <1>11, <2>1, <2>3, <3>1, AchievedGoto DEF CheckDatabase, Steps, docker, files
    <2> QED
      BY <1>11, <2>2, <2>3 DEF CheckDatabase
  <1>12. ASSUME NEW h \in Handlers, InspectContainer(h)
         PROVE  Achieved'
    <2>1. Installing(h)
      BY <1>12, InstallationsOnly DEF InspectContainer, Steps, TestSteps
    <2> QED
      BY <1>12, <2>1, AchievedGoto, AchievedOthers
         DEF InspectContainer, Failed, Steps, AfterTest, AfterEnv, AfterPassword,
             InstallInv, Achieved,
             files, docker, people
  <1>13. ASSUME NEW h \in Handlers, FindPassword(h)
         PROVE  Achieved'
    <2>1. Installing(h)
      BY <1>13, InstallationsOnly DEF FindPassword, Steps, TestSteps
    <2>2. ASSUME NEW i \in Handlers, Installing(i)'
          PROVE  i = h
      BY <1>13, <2>1, <2>2, OnlyOne
         DEF FindPassword, InstallInv, InstallTypeOK, HandlersTyped, Installing, IsTest
    <2> QED
      BY <1>13, <2>2
         DEF FindPassword, Achieved, AfterTest, AfterEnv, AfterPassword, InstallInv,
             InstallTypeOK, HandlersTyped
  <1>14. ASSUME NEW h \in Handlers, WriteEnv(h)
         PROVE  Achieved'
    <2>1. Installing(h)
      BY <1>14, InstallationsOnly DEF WriteEnv, Steps, TestSteps
    <2> QED
      BY <1>14, <2>1, AchievedGoto, AchievedOthers
         DEF WriteEnv, Failed, Steps, AfterTest, AfterEnv, AfterPassword, InstallInv,
             Achieved,
             files, docker, people
  <1>15. ASSUME NEW h \in Handlers, UpDatabase(h)
         PROVE  Achieved'
    <2>1. Installing(h)
      BY <1>15, InstallationsOnly DEF UpDatabase, Steps, TestSteps
    <2> QED
      BY <1>15, <2>1, AchievedGoto, AchievedOthers
         DEF UpDatabase, Failed, Steps, AfterTest, AfterEnv, AfterPassword, InstallInv,
             Achieved,
             files, docker, people
  <1>16. ASSUME NEW h \in Handlers, CheckAccounts(h)
         PROVE  Achieved'
    <2>1. Installing(h)
      BY <1>16, InstallationsOnly DEF CheckAccounts, Steps, TestSteps
    <2> QED
      BY <1>16, <2>1, AchievedGoto, AchievedOthers
         DEF CheckAccounts, Failed, Steps, AfterTest, AfterEnv, AfterPassword,
             InstallInv, Achieved,
             files, docker, people
  <1>17. ASSUME NEW h \in Handlers, InsertAdmin(h)
         PROVE  Achieved'
    <2>1. Installing(h)
      BY <1>17, InstallationsOnly DEF InsertAdmin, Steps, TestSteps
    <2>2. CASE Failed(h)
      BY <1>17, <2>1, <2>2, AchievedOthers DEF Failed
    <2>3. CASE Goto(h, "services")
      <3>1. admin[h] \in accounts'[envDb']
        BY <1>17, CommandData
           DEF InsertAdmin, Create, InstallInv, InstallTypeOK, RestTyped, files
      <3>2. db[h] = Internal => container' /\ volume' = envPw'
        BY <1>17, <2>1
           DEF InsertAdmin, InstallInv, Achieved, AfterTest, AfterEnv, AfterPassword,
               files,
               docker
      <3> QED
        BY <2>1, <2>3, <3>1, <3>2, AchievedGoto DEF Steps
    <2> QED
      BY <1>17, <2>2, <2>3 DEF InsertAdmin
  <1>18. ASSUME NEW h \in Handlers, StartServices(h)
         PROVE  Achieved'
    <2>1. Installing(h)
      BY <1>18, InstallationsOnly DEF StartServices, Steps, TestSteps
    <2> QED
      BY <1>18, <2>1, AchievedGoto, AchievedOthers
         DEF StartServices, Failed, Steps, AfterTest, AfterEnv, AfterPassword,
             InstallInv, Achieved,
             files, docker, people
  <1>19. ASSUME NEW h \in Handlers, WriteRecord(h)
         PROVE  Achieved'
    <2>1. Installing(h)
      BY <1>19, InstallationsOnly DEF WriteRecord, Steps, TestSteps
    <2> QED
      BY <1>19, <2>1, AchievedGoto, AchievedOthers
         DEF WriteRecord, Failed, Steps, AfterTest, AfterEnv, AfterPassword,
             InstallInv, Achieved,
             files, docker, people
  <1>20. ASSUME NEW h \in Handlers, WriteMarker(h)
         PROVE  Achieved'
    <2>1. Installing(h)
      BY <1>20, InstallationsOnly DEF WriteMarker, Steps, TestSteps
    <2> QED
      BY <1>20, <2>1, AchievedGoto, AchievedOthers
         DEF WriteMarker, Failed, Steps, AfterTest, AfterEnv, AfterPassword,
             InstallInv, Achieved,
             files, docker, people
  <1>21. ASSUME NEW h \in Handlers, TearMarker(h)
         PROVE  Achieved'
    <2>1. Installing(h)
      BY <1>21, InstallationsOnly DEF TearMarker, Steps, TestSteps
    <2> QED
      BY <1>21, <2>1, AchievedGoto, AchievedOthers
         DEF TearMarker, Failed, Steps, AfterTest, AfterEnv, AfterPassword, InstallInv,
             Achieved,
             files, docker, people
  <1>22. ASSUME NEW h \in Handlers, Finish(h)
         PROVE  Achieved'
    <2>1. Installing(h)
      BY <1>22, InstallationsOnly DEF Finish, Steps, TestSteps
    <2> QED
      BY <1>22, <2>1, AchievedOthers DEF Finish
  <1>23. ASSUME NEW h \in Handlers, StepFails(h)
         PROVE  Achieved'
    BY <1>23, AchievedOthers DEF StepFails, Failed
  <1>24. ASSUME WizardCrash
         PROVE  Achieved'
    BY <1>24 DEF WizardCrash, Dies, Achieved, Installing, Steps
  <1>25. ASSUME CloseWizard
         PROVE  Achieved'
    BY <1>25 DEF CloseWizard, Dies, Achieved, Installing, Steps
  <1>26. ASSUME NEW p \in Passwords, LateUp(p)
         PROVE  Achieved'
    <2>1. ASSUME NEW h \in Handlers, Installing(h), pc[h] \in AfterTest, db[h] = Internal
          PROVE  volume # NoPassword
      BY <2>1 DEF InstallInv, Achieved, SecretHeld, AfterTest, AfterEnv, AfterPassword
    <2> QED
      BY <1>26, <2>1
         DEF LateUp, Postgres, Achieved, InstallInv, Installing, IsTest, handlerVars,
             files,
             people
  <1>27. ASSUME NEW d \in Dbs, NEW a \in Admins, LateInsert(d, a)
         PROVE  Achieved'
    <2>1. \A h \in Handlers : Installing(h) /\ pc[h] \in AfterEnv => envDb \in Dbs
      BY DEF InstallInv, InstallTypeOK, HandlersTyped, SecretHeld, Installing
    <2>2. \A e \in Dbs : accounts[e] \subseteq accounts'[e]
      BY <1>27 DEF LateInsert, Create, InstallInv, InstallTypeOK, RestTyped
    <2> QED
      BY <1>27, <2>1, <2>2
         DEF LateInsert, Achieved, InstallInv, Installing, IsTest, AfterEnv,
             AfterPassword,
             handlerVars, files, docker
  <1>28. ASSUME CalmDown
         PROVE  Achieved'
    BY <1>28, AchievedFrame DEF InstallInv, CalmDown
  <1>29. CASE UNCHANGED vars
    BY <1>29, AchievedFrame DEF InstallInv, vars
  <1> QED
    BY <1>1, <1>2, <1>3, <1>4, <1>5, <1>6, <1>7, <1>8, <1>9, <1>10,
       <1>11, <1>12, <1>13, <1>14, <1>15, <1>16, <1>17, <1>18, <1>19, <1>20, <1>21,
       <1>22, <1>23, <1>24, <1>25, <1>26, <1>27, <1>28, <1>29
       DEF Next, Progress, LaunchStep, Submit, SharedStep, InstallStep, LateStep

\* No account comes from a step that creates none.
LEMMA AccountFrame ==
  ASSUME AccountsKnown, UNCHANGED <<people, lateInsert, envDb>>,
         \A h \in Handlers : pc'[h] = "insert" =>
           pc[h] = "insert" \/ (envDb \in Dbs /\ accounts[envDb] = {})
  PROVE  AccountsKnown'
  BY DEF AccountsKnown, NoLateInsert, people

\* The inserts that are killed were about to go into databases without accounts.
LEMMA CutAccounts ==
  ASSUME InstallInv, NEW H \in SUBSET Handlers, Cut(H), UNCHANGED people,
         \A h \in Handlers : pc'[h] # "insert"
  PROVE  AccountsKnown'
  <1>1. \A d \in Dbs, a \in Admins :
          /\ <<d, a>> \in lateInsert => <<d, a>> \in lateInsert'
          /\ <<d, a>> \in lateInsert' => <<d, a>> \in lateInsert \/ before[d] = {}
    BY DEF Cut, InstallInv, AccountsKnown
  <1> QED
    BY <1>1 DEF InstallInv, AccountsKnown, NoLateInsert, people

\* The accounts after every step.
LEMMA AccountsKnownStep ==
  ASSUME InstallInv, [Next]_vars
  PROVE  AccountsKnown'
  <1>0. AccountsKnown
    BY DEF InstallInv
  <1> USE DEF InstallInv, InstallTypeOK, HandlersTyped
  <1>1. ASSUME LaunchStep
        PROVE  AccountsKnown'
    BY <1>1, <1>0, LaunchFrame, AccountFrame DEF installVars, files, handlerVars, late
  <1>2. ASSUME NEW h \in Handlers, TimeIsUp(h)
        PROVE  AccountsKnown'
    <2>1. Cut({h}) /\ UNCHANGED <<people, envDb>> /\ Leave(h) /\ pc[h] \in {"up", "insert"}
      BY <1>2 DEF TimeIsUp, Failed, files
    <2>2. \A i \in Handlers : pc'[i] = "insert" => pc[i] = "insert" /\ i # h
      BY <2>1 DEF Leave
    <2>3. CASE pc[h] = "insert"
      <3>1. \A i \in Handlers : pc'[i] # "insert"
        BY <2>2, <2>3, InstallationsOnly, OnlyOne DEF Steps, TestSteps
      <3> QED
        BY <2>1, <3>1, CutAccounts
    <2>4. CASE pc[h] # "insert"
      <3>1. lateInsert' = lateInsert
        BY <2>1, <2>4 DEF Cut
      <3> QED
        BY <1>0, <2>1, <2>2, <3>1, AccountFrame
    <2> QED
      BY <2>3, <2>4
  <1>3. ASSUME NEW h \in Handlers, BeginComplete(h)
        PROVE  AccountsKnown'
    BY <1>3, <1>0, AccountFrame DEF BeginComplete, Goto, files, late
  <1>4. ASSUME NEW h \in Handlers, RefuseComplete(h)
        PROVE  AccountsKnown'
    BY <1>4, <1>0, AccountFrame DEF RefuseComplete, Leave, files, late
  <1>5. ASSUME NEW h \in Handlers, NEW d \in Dbs, NEW a \in Admins, Accept(h, d, a)
        PROVE  AccountsKnown'
    BY <1>5, <1>0, AccountFrame DEF Accept, files, late
  <1>6. ASSUME NEW h \in Handlers, NEW d \in Dbs, BeginTest(h, d)
        PROVE  AccountsKnown'
    BY <1>6, <1>0, AccountFrame DEF BeginTest, files, late
  <1>7. ASSUME NEW h \in Handlers, WriteTemp(h)
        PROVE  AccountsKnown'
    BY <1>7, <1>0, AccountFrame DEF WriteTemp, Goto, files, late
  <1>8. ASSUME NEW h \in Handlers, RenameTemp(h)
        PROVE  AccountsKnown'
    BY <1>8, <1>0, AccountFrame DEF RenameTemp, Goto, Failed, Leave, files, late
  <1>9. ASSUME NEW h \in Handlers, SeeNetwork(h)
        PROVE  AccountsKnown'
    BY <1>9, <1>0, AccountFrame DEF SeeNetwork, NetworkReady, Goto, Leave, files, late
  <1>10. ASSUME NEW h \in Handlers, MakeNetwork(h)
         PROVE  AccountsKnown'
    BY <1>10, <1>0, AccountFrame
       DEF MakeNetwork, NetworkReady, Goto, Failed, Leave, files, late
  <1>11. ASSUME NEW h \in Handlers, CheckDatabase(h)
         PROVE  AccountsKnown'
    BY <1>11, <1>0, AccountFrame DEF CheckDatabase, Goto, Failed, Leave, files, late
  <1>12. ASSUME NEW h \in Handlers, InspectContainer(h)
         PROVE  AccountsKnown'
    BY <1>12, <1>0, AccountFrame DEF InspectContainer, Goto, Failed, Leave, files, late
  <1>13. ASSUME NEW h \in Handlers, FindPassword(h)
         PROVE  AccountsKnown'
    BY <1>13, <1>0, AccountFrame DEF FindPassword, late
  <1>14. ASSUME NEW h \in Handlers, WriteEnv(h)
         PROVE  AccountsKnown'
    <2>1. Installing(h)
      BY <1>14, InstallationsOnly DEF WriteEnv, Steps, TestSteps
    <2>2. ASSUME NEW i \in Handlers
          PROVE  pc'[i] # "insert"
      BY <1>14, <2>1, InstallationsOnly, OnlyOne DEF WriteEnv, Goto, Steps, TestSteps
    <2> QED
      BY <1>14, <1>0, <2>2 DEF WriteEnv, AccountsKnown, NoLateInsert, people, late
  <1>15. ASSUME NEW h \in Handlers, UpDatabase(h)
         PROVE  AccountsKnown'
    BY <1>15, <1>0, AccountFrame DEF UpDatabase, Goto, files, late
  <1>16. ASSUME NEW h \in Handlers, CheckAccounts(h)
         PROVE  AccountsKnown'
    <2>1. envDb \in Dbs
      BY <1>16, InstallationsOnly
         DEF CheckAccounts, SecretHeld, AfterEnv, AfterPassword, Steps, TestSteps
    <2> QED
      BY <1>16, <1>0, <2>1, AccountFrame
         DEF CheckAccounts, Goto, Failed, Leave, files, late
  <1>17. ASSUME NEW h \in Handlers, InsertAdmin(h)
         PROVE  AccountsKnown'
    <2>1. Installing(h)
      BY <1>17, InstallationsOnly DEF InsertAdmin, Steps, TestSteps
    <2>2. ASSUME NEW i \in Handlers
          PROVE  pc'[i] # "insert"
      BY <1>17, <2>1, InstallationsOnly, OnlyOne
         DEF InsertAdmin, Goto, Failed, Leave, Steps, TestSteps
    <2>3. before[envDb] = {} /\ (NoLateInsert(envDb) => accounts[envDb] = {})
      BY <1>17, <1>0 DEF InsertAdmin, AccountsKnown
    <2>4. \A d \in Dbs : accounts'[d] = IF d = envDb THEN accounts[d] \cup {admin[h]}
                                      ELSE accounts[d]
      BY <1>17, CommandData DEF InsertAdmin, Create, RestTyped
    <2>5. UNCHANGED <<before, lateInsert, envDb>>
      BY <1>17 DEF InsertAdmin, Create, late, files
    <2> QED
      BY <1>0, <2>2, <2>3, <2>4, <2>5 DEF AccountsKnown, NoLateInsert
  <1>18. ASSUME NEW h \in Handlers, StartServices(h)
         PROVE  AccountsKnown'
    BY <1>18, <1>0, AccountFrame DEF StartServices, Goto, files, late
  <1>19. ASSUME NEW h \in Handlers, WriteRecord(h)
         PROVE  AccountsKnown'
    BY <1>19, <1>0, AccountFrame DEF WriteRecord, Goto, late
  <1>20. ASSUME NEW h \in Handlers, WriteMarker(h)
         PROVE  AccountsKnown'
    BY <1>20, <1>0, AccountFrame DEF WriteMarker, Goto, late
  <1>21. ASSUME NEW h \in Handlers, TearMarker(h)
         PROVE  AccountsKnown'
    BY <1>21, <1>0, AccountFrame DEF TearMarker, Failed, Leave, late
  <1>22. ASSUME NEW h \in Handlers, Finish(h)
         PROVE  AccountsKnown'
    BY <1>22, <1>0, AccountFrame DEF Finish, Leave, late
  <1>23. ASSUME NEW h \in Handlers, StepFails(h)
         PROVE  AccountsKnown'
    BY <1>23, <1>0, AccountFrame DEF StepFails, Failed, Leave, files, late
  <1>24. ASSUME WizardCrash
         PROVE  AccountsKnown'
    <2>1. Cut(Handlers) /\ UNCHANGED people
      BY <1>24 DEF WizardCrash, Dies
    <2>2. \A h \in Handlers : pc'[h] # "insert"
      BY <1>24 DEF WizardCrash, Dies
    <2> QED
      BY <1>0, <2>1, <2>2, CutAccounts
  <1>25. ASSUME CloseWizard
         PROVE  AccountsKnown'
    <2>1. Cut(Handlers) /\ UNCHANGED people
      BY <1>25 DEF CloseWizard, Dies
    <2>2. \A h \in Handlers : pc'[h] # "insert"
      BY <1>25 DEF CloseWizard, Dies
    <2> QED
      BY <1>0, <2>1, <2>2, CutAccounts
  <1>26. ASSUME NEW p \in Passwords, LateUp(p)
         PROVE  AccountsKnown'
    BY <1>26, <1>0, AccountFrame DEF LateUp, files, handlerVars
  <1>27. ASSUME NEW d \in Dbs, NEW a \in Admins, LateInsert(d, a)
         PROVE  AccountsKnown'
    <2>1. before[d] = {} /\ ~NoLateInsert(d)
      BY <1>27, <1>0 DEF LateInsert, AccountsKnown, NoLateInsert
    <2>2. \A e \in Dbs : accounts'[e] = IF e = d THEN accounts[e] \cup {a} ELSE accounts[e]
      BY <1>27 DEF LateInsert, Create, RestTyped
    <2>3. UNCHANGED <<before, lateInsert, envDb, pc>>
      BY <1>27 DEF LateInsert, Create, late, files, handlerVars
    <2>4. \A h \in Handlers : pc[h] = "insert" => envDb \in Dbs
      BY CommandData
    <2> QED
      BY <1>0, <2>1, <2>2, <2>3, <2>4 DEF AccountsKnown, NoLateInsert
  <1>28. ASSUME CalmDown
         PROVE  AccountsKnown'
    BY <1>28, <1>0, AccountFrame DEF CalmDown, files, handlerVars, late
  <1>29. CASE UNCHANGED vars
    BY <1>29, <1>0, AccountFrame DEF vars, handlerVars, files, late
  <1> QED
    BY <1>1, <1>2, <1>3, <1>4, <1>5, <1>6, <1>7, <1>8, <1>9, <1>10,
       <1>11, <1>12, <1>13, <1>14, <1>15, <1>16, <1>17, <1>18, <1>19, <1>20, <1>21,
       <1>22, <1>23, <1>24, <1>25, <1>26, <1>27, <1>28, <1>29
       DEF Next, Progress, LaunchStep, Submit, SharedStep, InstallStep, LateStep

--------------------------------------------------------------------------------
LEMMA RestTypedInit == Init => RestTyped
  <1>1. 0 \in 0..MaxExtras
    BY BoundsAssumption
  <1>2. Init => extras = 0 /\ calm = FALSE /\ accounts = before
                /\ before \in [Dbs -> Existing \cup {{}}]
                /\ lateUp = {} /\ lateInsert = {}
    BY DEF Init
  <1>3. [Dbs -> Existing \cup {{}}] \subseteq [Dbs -> SUBSET Admins]
    BY DatabasesAssumption
  <1> QED
    BY <1>1, <1>2, <1>3 DEF RestTyped

LEMMA InstallInit == Init => InstallInv
  <1> SUFFICES ASSUME Init PROVE InstallInv
    OBVIOUS
  <1> USE NobodyAssumption, DatabasesAssumption, BoundsAssumption DEF Init, Steps
  <1>1. InstallTypeOK
    <2>1. HandlersTyped
      BY DEF HandlersTyped
    <2>2. LaunchTyped /\ HostTyped
      BY DEF LaunchTyped, HostTyped
    <2>3. RestTyped
      BY RestTypedInit
    <2> QED
      BY <2>1, <2>2, <2>3 DEF InstallTypeOK
  <1>2. Control
    BY DEF Control, Roles, OneInstallation, Installing, IsTest
  <1>3. OneSecret
    BY DEF OneSecret, InUse
  <1>4. SecretHeld /\ Achieved
    BY DEF SecretHeld, Achieved, Installing
  <1>5. AccountsKnown
    BY DEF AccountsKnown, NoLateInsert
  <1> QED
    BY <1>1, <1>2, <1>3, <1>4, <1>5 DEF InstallInv

LEMMA InstallNext == InstallInv /\ [Next]_vars => InstallInv'
  <1> SUFFICES ASSUME InstallInv, [Next]_vars PROVE InstallInv'
    OBVIOUS
  <1>1. InstallTypeOK'
    <2>1. HandlersTyped /\ LaunchTyped /\ HostTyped /\ RestTyped
      BY DEF InstallInv, InstallTypeOK
    <2> QED
      BY <2>1, HandlersTypedStep, LaunchTypedStep, HostTypedStep, RestTypedStep
         DEF InstallTypeOK
  <1>2. Control' /\ OneSecret' /\ SecretHeld' /\ Achieved' /\ AccountsKnown'
    BY ControlStep, OneSecretStep, SecretHeldStep, AchievedStep, AccountsKnownStep
  <1> QED
    BY <1>1, <1>2 DEF InstallInv

\* The strengthening behind the theorems below is an invariant of every installation.
THEOREM InstallInvariant == Spec => []InstallInv
  BY InstallInit, InstallNext, PTL DEF Spec

\* Every variable of the installation keeps its type, and nothing runs on a
\* configuration that was not validated.
THEOREM InstallTypeCorrect == Spec => []InstallTypeOK
  <1>1. InstallInv => InstallTypeOK
    BY DEF InstallInv
  <1> QED
    BY <1>1, InstallInvariant, PTL

\* However many requests overlap, one installation runs while the status is RUNNING
\* and none otherwise (complete checks the status again under the write lock).
THEOREM OneInstallationHolds == Spec => []OneInstallation
  <1>1. InstallInv => OneInstallation
    BY DEF InstallInv, Control
  <1> QED
    BY <1>1, InstallInvariant, PTL

\* After any number of failed, crashed and repeated installations the secrets on the
\* disk are the password of the volume (internalDatabasePassword).
THEOREM OnePasswordHolds == Spec => []OnePassword
  <1>1. InstallInv => OnePassword
    <2> SUFFICES ASSUME InstallInv, volume # NoPassword PROVE OnePassword
      BY DEF OnePassword
    <2>1. volume \in Passwords /\ InUse(volume)
      BY DEF InstallInv, InstallTypeOK, HostTyped, InUse
    <2>2. ASSUME envDb = Internal
          PROVE  envPw = volume
      <3>1. envPw \in Passwords /\ InUse(envPw)
        BY <2>2 DEF InstallInv, InstallTypeOK, HostTyped, OneSecret, InUse
      <3> QED
        BY <2>1, <3>1 DEF InstallInv, OneSecret
    <2>3. kept = volume \/ (kept = NoPassword /\ marker)
      BY <2>1 DEF InstallInv, OneSecret, Closed
    <2> QED
      BY <2>2, <2>3 DEF OnePassword
  <1> QED
    BY <1>1, InstallInvariant, PTL

\* When Install is about to report success, everything it was asked for is there, and
\* its administrator is the only account that anybody but a killed command has added
\* to a database without accounts; a database with accounts has got none.
THEOREM CompleteIsWholeHolds == Spec => []CompleteIsWhole
  <1>1. InstallInv => CompleteIsWhole
    <2> SUFFICES ASSUME InstallInv, NEW h \in Handlers, pc[h] = "finish"
                 PROVE  /\ installed /\ marker
                        /\ envDb = db[h]
                        /\ admin[h] \in accounts[envDb]
                        /\ envDb = Internal => container /\ volume = envPw
                        /\ IF before[envDb] # {}
                           THEN accounts[envDb] = before[envDb]
                           ELSE \/ accounts[envDb] = {admin[h]}
                                \/ ~NoLateInsert(envDb)
      BY DEF CompleteIsWhole, NoLateInsert
    <2>1. Installing(h)
      BY InstallationsOnly DEF Steps, TestSteps
    <2>2. envDb = db[h]
      BY <2>1 DEF InstallInv, SecretHeld, AfterEnv, AfterPassword
    <2>3. installed /\ marker /\ admin[h] \in accounts[envDb]
      BY <2>1 DEF InstallInv, Achieved
    <2>4. envDb = Internal => container /\ volume = envPw
      BY <2>1, <2>2 DEF InstallInv, Achieved, AfterTest, AfterEnv, AfterPassword
    <2>5. envDb \in Dbs /\ admin[h] \in Admins
      BY <2>1, <2>2 DEF InstallInv, InstallTypeOK, HandlersTyped, Installing, IsTest
    <2>6. ASSUME before[envDb] # {}
          PROVE  accounts[envDb] = before[envDb]
      BY <2>5, <2>6 DEF InstallInv, AccountsKnown
    <2>7. ASSUME before[envDb] = {}, NoLateInsert(envDb)
          PROVE  accounts[envDb] = {admin[h]}
      <3>1. accounts[envDb] \subseteq Admins
        BY <2>5 DEF InstallInv, InstallTypeOK, RestTyped
      <3>2. \A a, b \in Admins : a \in accounts[envDb] /\ b \in accounts[envDb] => a = b
        BY <2>5, <2>7 DEF InstallInv, AccountsKnown
      <3> QED
        BY <2>3, <2>5, <3>1, <3>2
    <2> QED
      BY <2>2, <2>3, <2>4, <2>6, <2>7
  <1> QED
    BY <1>1, InstallInvariant, PTL

\* No step changes a closed installation or opens it again (complete and New refuse,
\* launchSetup finds it).
THEOREM CompleteIsFinalHolds == Spec => CompleteIsFinal
  <1>1. InstallInv /\ [Next]_vars => [Closed => Closed' /\ UNCHANGED files]_vars
    BY ClosedStays
  <1> QED
    BY <1>1, InstallInvariant, PTL DEF Spec, CompleteIsFinal

--------------------------------------------------------------------------------
(***************************************************************************)
(* The link, for a user with one terminal.                                 *)
(***************************************************************************)
OneTerminal == \A l, m \in Launchers : l = m

\* A launcher waits for the wizard it has started before it looks again, so the file
\* holds the token of this wizard until Finish removes it.
LinkInv ==
  \A l \in Launchers : wizardOf = l =>
    /\ status # "down"
    /\ status = "starting" => lpc[l] = "watch" /\ srvToken = tokenFile
    /\ Up => /\ lpc[l] \in {"idle", "watch"}
             /\ tokenFile = srvToken \/ (tokenFile = NoToken /\ marker)

\* No request, installation step or killed command starts a wizard, changes a token or
\* removes the marker.
LinkFrame ==
  /\ UNCHANGED <<lpc, srvToken, tokenFile, wizardOf>>
  /\ UNCHANGED status \/ (Up /\ Up')
  /\ marker => marker'

LEMMA LinkFrameKeeps == LinkInv /\ LinkFrame => LinkInv'
  BY DEF LinkInv, LinkFrame, Up

\* The launcher and the processes it starts.
LEMMA LinkLaunch ==
  ASSUME OneTerminal, LaunchTyped, LinkInv, LaunchStep
  PROVE  LinkInv'
  <1>0. UNCHANGED marker
    BY LaunchFrame DEF installVars, files
  <1> USE NobodyAssumption DEF OneTerminal, LaunchTyped, LinkInv, Up, GotoL
  <1>1. ASSUME NEW l \in Launchers, Look(l) PROVE LinkInv'
    BY <1>1, <1>0 DEF Look
  <1>2. ASSUME NEW l \in Launchers, PrintAgain(l) PROVE LinkInv'
    BY <1>2, <1>0 DEF PrintAgain
  <1>3. ASSUME NEW l \in Launchers, WriteToken(l) PROVE LinkInv'
    BY <1>3, <1>0 DEF WriteToken
  <1>4. ASSUME NEW l \in Launchers, StartChild(l) PROVE LinkInv'
    BY <1>4, <1>0 DEF StartChild
  <1>5. ASSUME NEW l \in Launchers, ChildLocks(l) PROVE LinkInv'
    BY <1>5, <1>0 DEF ChildLocks, TakesLock
  <1>6. ASSUME StrayLocks PROVE LinkInv'
    BY <1>6, <1>0 DEF StrayLocks, TakesLock
  <1>7. ASSUME Listens PROVE LinkInv'
    BY <1>7, <1>0 DEF Listens
  <1>8. ASSUME NEW l \in Launchers, PrintLink(l) PROVE LinkInv'
    BY <1>8, <1>0 DEF PrintLink
  <1>9. ASSUME NEW l \in Launchers, TimesOut(l) PROVE LinkInv'
    BY <1>9, <1>0 DEF TimesOut
  <1>10. ASSUME NEW l \in Launchers, GivesUp(l) PROVE LinkInv'
    BY <1>10, <1>0 DEF GivesUp
  <1>11. ASSUME NEW l \in Launchers, LaunchFails(l) PROVE LinkInv'
    BY <1>11, <1>0 DEF LaunchFails
  <1> QED
    BY <1>1, <1>2, <1>3, <1>4, <1>5, <1>6, <1>7, <1>8, <1>9, <1>10, <1>11
       DEF LaunchStep, Launching, LauncherStep

LEMMA LinkStep ==
  ASSUME OneTerminal, InstallInv, LinkInv, [Next]_vars
  PROVE  LinkInv'
  <1> USE DEF launchVars, handlerVars, hostVars, files, docker, people, late, bounds
  <1>1. CASE LinkFrame
    BY <1>1, LinkFrameKeeps
  <1>2. ASSUME NEW h \in Handlers, pc[h] \in Steps PROVE Up
    BY <1>2 DEF InstallInv, Control, Roles
  <1>3. CASE LaunchStep
    BY <1>3, LinkLaunch DEF InstallInv, InstallTypeOK
  <1>4. ASSUME NEW h \in Handlers,
               \/ BeginComplete(h)
               \/ RefuseComplete(h)
               \/ \E d \in Dbs, a \in Admins : Accept(h, d, a)
               \/ \E d \in Dbs : BeginTest(h, d)
        PROVE  LinkFrame
    BY <1>4 DEF BeginComplete, RefuseComplete, Accept, BeginTest, Open, Up, LinkFrame
  <1>5. ASSUME NEW h \in Handlers, SharedStep(h) PROVE LinkFrame
    <2>1. pc[h] \in Steps
      BY <1>5 DEF SharedStep, WriteTemp, RenameTemp, SeeNetwork, MakeNetwork, Steps
    <2>2. Up
      BY <1>2, <2>1
    <2> QED
      BY <1>5, <2>2 DEF SharedStep, WriteTemp, RenameTemp, SeeNetwork, MakeNetwork,
                        Failed, Up, LinkFrame
  <1>6. ASSUME NEW h \in Handlers,
               \/ InspectContainer(h) \/ FindPassword(h) \/ WriteEnv(h) \/ UpDatabase(h)
               \/ CheckDatabase(h) \/ CheckAccounts(h) \/ InsertAdmin(h) \/ StartServices(h)
               \/ WriteRecord(h) \/ WriteMarker(h)
               \/ StepFails(h) \/ TimeIsUp(h) \/ TearMarker(h)
        PROVE  LinkFrame
    <2>1. pc[h] \in Steps
      BY <1>6 DEF InspectContainer, FindPassword, WriteEnv, UpDatabase, CheckDatabase,
                  CheckAccounts, InsertAdmin, StartServices, WriteRecord, WriteMarker,
                  StepFails, TimeIsUp, TearMarker, Steps
    <2>2. Up
      BY <1>2, <2>1
    <2> QED
      BY <1>6, <2>2 DEF InspectContainer, FindPassword, WriteEnv, UpDatabase,
                        CheckDatabase, CheckAccounts, InsertAdmin, StartServices,
                        WriteRecord, WriteMarker, StepFails, TimeIsUp, TearMarker,
                        Failed,
                        Up, LinkFrame
  <1>7. ASSUME NEW h \in Handlers, Finish(h) PROVE LinkInv'
    <2>1. pc[h] = "finish" /\ tokenFile' = NoToken /\ status' = "COMPLETE"
          /\ UNCHANGED <<lpc, srvToken, wizardOf, marker>>
      BY <1>7 DEF Finish
    <2>2. Installing(h)
      BY <2>1 DEF InstallInv, Control, Roles, Installing, TestSteps, Steps
    <2>3. Up /\ marker
      BY <1>2, <2>1, <2>2 DEF InstallInv, Achieved, Steps
    <2> QED
      BY <2>1, <2>3 DEF LinkInv, Up
  <1>8. ASSUME WizardCrash \/ CloseWizard PROVE LinkInv'
    <2>1. wizardOf' = NoLauncher
      BY <1>8 DEF WizardCrash, CloseWizard, Dies
    <2> QED
      BY <2>1, NobodyAssumption DEF LinkInv
  <1>9. ASSUME LateStep \/ CalmDown \/ UNCHANGED vars PROVE LinkFrame
    <2>1. ASSUME NEW p \in Passwords, LateUp(p) PROVE LinkFrame
      BY <2>1 DEF LateUp, LinkFrame
    <2>2. ASSUME NEW d \in Dbs, NEW a \in Admins, LateInsert(d, a) PROVE LinkFrame
      BY <2>2 DEF LateInsert, LinkFrame
    <2>3. CASE CalmDown \/ UNCHANGED vars
      BY <2>3 DEF CalmDown, vars, LinkFrame
    <2> QED
      BY <1>9, <2>1, <2>2, <2>3 DEF LateStep
  <1>10. ASSUME NEW h \in Handlers, Submit(h) \/ \E d \in Dbs : BeginTest(h, d)
         PROVE  LinkInv'
    BY <1>1, <1>4, <1>10 DEF Submit
  <1>11. ASSUME NEW h \in Handlers,
                InstallStep(h) \/ StepFails(h) \/ TimeIsUp(h) \/ TearMarker(h)
         PROVE  LinkInv'
    BY <1>1, <1>6, <1>7, <1>11 DEF InstallStep
  <1> QED
    BY <1>1, <1>3, <1>5, <1>8, <1>9, <1>10, <1>11 DEF Next, Progress, LaunchStep

\* A user with one terminal gets the link that the running wizard accepts, whatever
\* crashed before, until the installation is complete, unless setup has given up
\* waiting for this wizard (a later setup then overwrites its token).
THEOREM LinkIsAcceptedHolds == ASSUME OneTerminal PROVE Spec => []LinkIsAccepted
  <1>1. Init => LinkInv
    BY NobodyAssumption DEF Init, LinkInv
  <1>2. InstallInv /\ LinkInv /\ [Next]_vars => LinkInv'
    BY LinkStep
  <1>3. InstallInv /\ LinkInv => LinkIsAccepted
    BY DEF InstallInv, InstallTypeOK, LaunchTyped, LinkInv, LinkIsAccepted
  <1> QED
    BY <1>1, <1>2, <1>3, InstallInvariant, PTL DEF Spec
================================================================================
