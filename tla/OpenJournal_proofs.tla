--------------------------- MODULE OpenJournal_proofs ---------------------------
(***************************************************************************)
(* Theorems about opening links, for every set of operations, workers,     *)
(* requests and tabs and any number of crashes and restarts.  The          *)
(* argument: a.mu makes the steps between reading a record and answering   *)
(* one handler's; a tab is created only while a PREPARED record without a  *)
(* target is there, by the handler that has just written it; and a tab is  *)
(* navigated only by the handler that has created it.                      *)
(***************************************************************************)
EXTENDS OpenJournal, TLAPS

\* Every tab that exists belongs to an operation, and a handler's tab to its own.
TabsKnown ==
  /\ \A t \in Tabs : tabOp[t] = NoOp <=> at[t] = "unborn"
  /\ \A t \in inbox : tabOp[t] # NoOp
  /\ \A r \in Reqs : rpc[r] \in WithTab => tabOp[rtab[r]] = rop[r]

\* What the record of an operation says of its tab and of its handler.
RecordsMatch ==
  /\ \A o \in Ops : jtab[o] # NoTab => tabOp[jtab[o]] = o
  /\ \A o \in Ops : jstate[o] = "none" => jtab[o] = NoTab
  /\ \A r \in Reqs :
       /\ rpc[r] = "prepare" => jstate[rop[r]] = "none"
       /\ rpc[r] \in {"create"} \cup WithTab => jstate[rop[r]] = "PREPARED"
       /\ rpc[r] \in {"create", "saveTarget"} => jtab[rop[r]] = NoTab
       /\ rpc[r] \in {"find", "navigate", "navigating", "saveDone"} => jtab[rop[r]] = rtab[r]

\* An operation without a record, or whose tab is about to be created, has
\* neither tab nor navigation; one whose tab is about to be navigated, or whose
\* command is on its way to Chrome, has not been navigated.
Opening ==
  /\ OpensOnce
  /\ \A t \in inbox : navs[tabOp[t]] = 0 /\ tabOp[t] \notin refused
  /\ \A o \in Ops : jstate[o] = "none" =>
       navs[o] = 0 /\ o \notin refused /\ \A t \in Tabs : tabOp[t] # o
  /\ \A r \in Reqs :
       /\ rpc[r] = "create" =>
            navs[rop[r]] = 0 /\ rop[r] \notin refused /\ \A t \in Tabs : tabOp[t] # rop[r]
       /\ rpc[r] \in {"saveTarget", "find", "navigate"} =>
            navs[rop[r]] = 0 /\ rop[r] \notin refused /\ rtab[r] \notin inbox

JournalInv == JournalTypeOK /\ TabsKnown /\ RecordsMatch /\ Opening

\* Who waits for a reply: a worker for one request, about its own operation.
Waiting ==
  \A r \in Reqs : owner[r] # NoWorker =>
    /\ rpc[r] # "free"
    /\ wpc[owner[r]] \in {"post", "check"}
    /\ rop[r] = wop[owner[r]]
    /\ \A q \in Reqs : owner[q] = owner[r] => q = r

\* All that speaks of success speaks of an operation that Chrome has answered.
Reaching ==
  /\ SuccessWasAnswered
  /\ \A o \in Ops : navs[o] > 0 => o \in reached
  /\ \A t \in Tabs : at[t] = "address" => tabOp[t] \in reached
  /\ \A r \in Reqs : rpc[r] \in {"saveDone", "ok"} => rop[r] \in reached \cup refused
  /\ \A w \in Workers : wpc[w] = "finish" /\ wout[w] = "SUCCEEDED" => wop[w] \in reached \cup refused

SuccessInv == JournalInv /\ Waiting /\ Reaching

--------------------------------------------------------------------------------
\* Values of the workers after every step.
LEMMA WorkersTypedStep ==
  ASSUME WorkersTyped, [Next]_vars
  PROVE  WorkersTyped'
  <1> USE NobodyAssumption
          DEF WorkersTyped, Critical, Replies, WithTab, workerVars, reqVars,
              browserVars, journal
  <1>1. ASSUME NEW w \in Workers, NEW o \in Ops, NEW r \in Reqs, PostOpen(w, o, r)
        PROVE  WorkersTyped'
    BY <1>1 DEF PostOpen, IsNewReq, Place
  <1>2. ASSUME NEW w \in Workers, NEW r \in Reqs, EndPost(w, r)
        PROVE  WorkersTyped'
    BY <1>2 DEF EndPost, Place, Free, Goto
  <1>3. ASSUME NEW w \in Workers, NEW r \in Reqs, EndCheck(w, r)
        PROVE  WorkersTyped'
    BY <1>3 DEF EndCheck, Place, Free
  <1>4. ASSUME NEW w \in Workers, NEW r \in Reqs, GiveUp(w, r)
        PROVE  WorkersTyped'
    BY <1>4 DEF GiveUp, Place, Abandon, Free
  <1>23. ASSUME NEW w \in Workers, NEW r \in Reqs, NEW q \in Reqs, AskInstead(w, r, q)
         PROVE  WorkersTyped'
    BY <1>23 DEF AskInstead, IsNewReq, Place
  <1>5. ASSUME NEW w \in Workers, Finish(w)
        PROVE  WorkersTyped'
    BY <1>5 DEF Finish, Place
  <1>6. ASSUME NEW w \in Workers, WorkerCrash(w)
        PROVE  WorkersTyped'
    BY <1>6 DEF WorkerCrash, Place, Abandon, Free
  <1>7. ASSUME NEW r \in Reqs, Unreachable(r)
        PROVE  WorkersTyped'
    BY <1>7 DEF Unreachable, Reply, Free, Goto
  <1>8. ASSUME NEW r \in Reqs, Lock(r)
        PROVE  WorkersTyped'
    BY <1>8 DEF Lock, Goto
  <1>9. ASSUME NEW r \in Reqs, Load(r)
        PROVE  WorkersTyped'
    BY <1>9 DEF Load, Goto, Answer, Reply, Free
  <1>10. ASSUME NEW r \in Reqs, Look(r)
         PROVE  WorkersTyped'
    BY <1>10 DEF Look, Goto, Answer, Reply, Free
  <1>11. ASSUME NEW r \in Reqs, Recover(r)
         PROVE  WorkersTyped'
    BY <1>11 DEF Recover, Save, Goto, Answer, Reply, Free
  <1>12. ASSUME NEW r \in Reqs, Prepare(r)
         PROVE  WorkersTyped'
    BY <1>12 DEF Prepare, Save, Goto, Answer, Reply, Free
  <1>13. ASSUME NEW r \in Reqs, Create(r)
         PROVE  WorkersTyped'
    BY <1>13 DEF Create, IsNewTab, Goto, Answer, Reply, Free
  <1>14. ASSUME NEW r \in Reqs, SaveTarget(r)
         PROVE  WorkersTyped'
    BY <1>14 DEF SaveTarget, Save, Goto, Answer, Reply, Free
  <1>15. ASSUME NEW r \in Reqs, Find(r)
         PROVE  WorkersTyped'
    BY <1>15 DEF Find, Goto, Answer, Reply, Free
  <1>16. ASSUME NEW r \in Reqs, Navigate(r)
         PROVE  WorkersTyped'
    BY <1>16 DEF Navigate, Goto, Answer, Reply, Free
  <1>17. ASSUME NEW r \in Reqs, NavigateEnds(r)
         PROVE  WorkersTyped'
    BY <1>17 DEF NavigateEnds, Goto, Answer, Reply, Free
  <1>18. ASSUME NEW r \in Reqs, SaveDone(r)
         PROVE  WorkersTyped'
    BY <1>18 DEF SaveDone, Save, Goto, Answer, Reply, Free
  <1>19. ASSUME NEW t \in Tabs, ChromeNavigates(t)
         PROVE  WorkersTyped'
    BY <1>19 DEF ChromeNavigates
  <1>20. ASSUME NEW t \in Tabs, UserActs(t)
         PROVE  WorkersTyped'
    BY <1>20 DEF UserActs
  <1>21. ASSUME Restart
         PROVE  WorkersTyped'
    BY <1>21 DEF Restart, Reply, Free, Goto
  <1>22. CASE UNCHANGED vars
    BY <1>22 DEF vars, workerVars, reqVars, browserVars
  <1> QED
    BY <1>1, <1>2, <1>3, <1>4, <1>5, <1>6, <1>7, <1>8, <1>9, <1>10, <1>11, <1>12,
       <1>13, <1>14, <1>15, <1>16, <1>17, <1>18, <1>19, <1>20, <1>21, <1>22, <1>23
       DEF Next, WorkerStep, AgentStep

\* Values of the requests after every step.
LEMMA RequestsTypedStep ==
  ASSUME WorkersTyped, RequestsTyped, OneHandler, [Next]_vars
  PROVE  RequestsTyped'
  <1> USE NobodyAssumption
          DEF RequestsTyped, OneHandler, Critical, Replies, WithTab, workerVars,
              reqVars, browserVars, journal
  <1>1. ASSUME NEW w \in Workers, NEW o \in Ops, NEW r \in Reqs, PostOpen(w, o, r)
        PROVE  RequestsTyped'
    BY <1>1 DEF PostOpen, IsNewReq, Place
  <1>2. ASSUME NEW w \in Workers, NEW r \in Reqs, EndPost(w, r)
        PROVE  RequestsTyped'
    BY <1>2 DEF EndPost, Place, Free, Goto
  <1>3. ASSUME NEW w \in Workers, NEW r \in Reqs, EndCheck(w, r)
        PROVE  RequestsTyped'
    BY <1>3 DEF EndCheck, Place, Free
  <1>4. ASSUME NEW w \in Workers, NEW r \in Reqs, GiveUp(w, r)
        PROVE  RequestsTyped'
    BY <1>4 DEF GiveUp, Place, Abandon, Free
  <1>23. ASSUME NEW w \in Workers, NEW r \in Reqs, NEW q \in Reqs, AskInstead(w, r, q)
         PROVE  RequestsTyped'
    <2>1. wop[w] \in Ops
      BY <1>23 DEF AskInstead, WorkersTyped
    <2> QED
      BY <1>23, <2>1 DEF AskInstead, IsNewReq, Place
  <1>5. ASSUME NEW w \in Workers, Finish(w)
        PROVE  RequestsTyped'
    BY <1>5 DEF Finish, Place
  <1>6. ASSUME NEW w \in Workers, WorkerCrash(w)
        PROVE  RequestsTyped'
    BY <1>6 DEF WorkerCrash, Place, Abandon, Free
  <1>7. ASSUME NEW r \in Reqs, Unreachable(r)
        PROVE  RequestsTyped'
    BY <1>7 DEF Unreachable, Reply, Free, Goto
  <1>8. ASSUME NEW r \in Reqs, Lock(r)
        PROVE  RequestsTyped'
    BY <1>8 DEF Lock, Goto
  <1>9. ASSUME NEW r \in Reqs, Load(r)
        PROVE  RequestsTyped'
    BY <1>9 DEF Load, Goto, Answer, Reply, Free
  <1>10. ASSUME NEW r \in Reqs, Look(r)
         PROVE  RequestsTyped'
    BY <1>10 DEF Look, Goto, Answer, Reply, Free
  <1>11. ASSUME NEW r \in Reqs, Recover(r)
         PROVE  RequestsTyped'
    BY <1>11 DEF Recover, Save, Goto, Answer, Reply, Free
  <1>12. ASSUME NEW r \in Reqs, Prepare(r)
         PROVE  RequestsTyped'
    BY <1>12 DEF Prepare, Save, Goto, Answer, Reply, Free
  <1>13. ASSUME NEW r \in Reqs, Create(r)
         PROVE  RequestsTyped'
    BY <1>13 DEF Create, IsNewTab, Goto, Answer, Reply, Free
  <1>14. ASSUME NEW r \in Reqs, SaveTarget(r)
         PROVE  RequestsTyped'
    BY <1>14 DEF SaveTarget, Save, Goto, Answer, Reply, Free
  <1>15. ASSUME NEW r \in Reqs, Find(r)
         PROVE  RequestsTyped'
    BY <1>15 DEF Find, Goto, Answer, Reply, Free
  <1>16. ASSUME NEW r \in Reqs, Navigate(r)
         PROVE  RequestsTyped'
    BY <1>16 DEF Navigate, Goto, Answer, Reply, Free
  <1>17. ASSUME NEW r \in Reqs, NavigateEnds(r)
         PROVE  RequestsTyped'
    BY <1>17 DEF NavigateEnds, Goto, Answer, Reply, Free
  <1>18. ASSUME NEW r \in Reqs, SaveDone(r)
         PROVE  RequestsTyped'
    BY <1>18 DEF SaveDone, Save, Goto, Answer, Reply, Free
  <1>19. ASSUME NEW t \in Tabs, ChromeNavigates(t)
         PROVE  RequestsTyped'
    BY <1>19 DEF ChromeNavigates
  <1>20. ASSUME NEW t \in Tabs, UserActs(t)
         PROVE  RequestsTyped'
    BY <1>20 DEF UserActs
  <1>21. ASSUME Restart
         PROVE  RequestsTyped'
    BY <1>21 DEF Restart, Reply, Free, Goto
  <1>22. CASE UNCHANGED vars
    BY <1>22 DEF vars, workerVars, reqVars, browserVars
  <1> QED
    BY <1>1, <1>2, <1>3, <1>4, <1>5, <1>6, <1>7, <1>8, <1>9, <1>10, <1>11, <1>12,
       <1>13, <1>14, <1>15, <1>16, <1>17, <1>18, <1>19, <1>20, <1>21, <1>22, <1>23
       DEF Next, WorkerStep, AgentStep

\* Only the handler that has locked a.mu passes it on, by answering.
LEMMA OneHandlerStep ==
  ASSUME RequestsTyped, OneHandler, [Next]_vars
  PROVE  OneHandler'
  <1> USE NobodyAssumption
          DEF RequestsTyped, OneHandler, Critical, Replies, WithTab, workerVars,
              reqVars, browserVars, journal
  <1>1. ASSUME NEW w \in Workers, NEW o \in Ops, NEW r \in Reqs, PostOpen(w, o, r)
        PROVE  OneHandler'
    BY <1>1 DEF PostOpen, IsNewReq, Place
  <1>2. ASSUME NEW w \in Workers, NEW r \in Reqs, EndPost(w, r)
        PROVE  OneHandler'
    BY <1>2 DEF EndPost, Place, Free, Goto
  <1>3. ASSUME NEW w \in Workers, NEW r \in Reqs, EndCheck(w, r)
        PROVE  OneHandler'
    BY <1>3 DEF EndCheck, Place, Free
  <1>4. ASSUME NEW w \in Workers, NEW r \in Reqs, GiveUp(w, r)
        PROVE  OneHandler'
    BY <1>4 DEF GiveUp, Place, Abandon, Free
  <1>23. ASSUME NEW w \in Workers, NEW r \in Reqs, NEW q \in Reqs, AskInstead(w, r, q)
         PROVE  OneHandler'
    BY <1>23 DEF AskInstead, IsNewReq, Place
  <1>5. ASSUME NEW w \in Workers, Finish(w)
        PROVE  OneHandler'
    BY <1>5 DEF Finish, Place
  <1>6. ASSUME NEW w \in Workers, WorkerCrash(w)
        PROVE  OneHandler'
    BY <1>6 DEF WorkerCrash, Place, Abandon, Free
  <1>7. ASSUME NEW r \in Reqs, Unreachable(r)
        PROVE  OneHandler'
    BY <1>7 DEF Unreachable, Reply, Free, Goto
  <1>8. ASSUME NEW r \in Reqs, Lock(r)
        PROVE  OneHandler'
    BY <1>8 DEF Lock, Goto
  <1>9. ASSUME NEW r \in Reqs, Load(r)
        PROVE  OneHandler'
    BY <1>9 DEF Load, Goto, Answer, Reply, Free
  <1>10. ASSUME NEW r \in Reqs, Look(r)
         PROVE  OneHandler'
    BY <1>10 DEF Look, Goto, Answer, Reply, Free
  <1>11. ASSUME NEW r \in Reqs, Recover(r)
         PROVE  OneHandler'
    BY <1>11 DEF Recover, Save, Goto, Answer, Reply, Free
  <1>12. ASSUME NEW r \in Reqs, Prepare(r)
         PROVE  OneHandler'
    BY <1>12 DEF Prepare, Save, Goto, Answer, Reply, Free
  <1>13. ASSUME NEW r \in Reqs, Create(r)
         PROVE  OneHandler'
    BY <1>13 DEF Create, IsNewTab, Goto, Answer, Reply, Free
  <1>14. ASSUME NEW r \in Reqs, SaveTarget(r)
         PROVE  OneHandler'
    BY <1>14 DEF SaveTarget, Save, Goto, Answer, Reply, Free
  <1>15. ASSUME NEW r \in Reqs, Find(r)
         PROVE  OneHandler'
    BY <1>15 DEF Find, Goto, Answer, Reply, Free
  <1>16. ASSUME NEW r \in Reqs, Navigate(r)
         PROVE  OneHandler'
    BY <1>16 DEF Navigate, Goto, Answer, Reply, Free
  <1>17. ASSUME NEW r \in Reqs, NavigateEnds(r)
         PROVE  OneHandler'
    BY <1>17 DEF NavigateEnds, Goto, Answer, Reply, Free
  <1>18. ASSUME NEW r \in Reqs, SaveDone(r)
         PROVE  OneHandler'
    BY <1>18 DEF SaveDone, Save, Goto, Answer, Reply, Free
  <1>19. ASSUME NEW t \in Tabs, ChromeNavigates(t)
         PROVE  OneHandler'
    BY <1>19 DEF ChromeNavigates
  <1>20. ASSUME NEW t \in Tabs, UserActs(t)
         PROVE  OneHandler'
    BY <1>20 DEF UserActs
  <1>21. ASSUME Restart
         PROVE  OneHandler'
    BY <1>21 DEF Restart, Reply, Free, Goto
  <1>22. CASE UNCHANGED vars
    BY <1>22 DEF vars, workerVars, reqVars, browserVars
  <1> QED
    BY <1>1, <1>2, <1>3, <1>4, <1>5, <1>6, <1>7, <1>8, <1>9, <1>10, <1>11, <1>12,
       <1>13, <1>14, <1>15, <1>16, <1>17, <1>18, <1>19, <1>20, <1>21, <1>22, <1>23
       DEF Next, WorkerStep, AgentStep

\* Tabs keep the operation they were created for.
LEMMA TabsKnownStep ==
  ASSUME RequestsTyped, OneHandler, BrowserTyped, TabsKnown, [Next]_vars
  PROVE  TabsKnown'
  <1> USE NobodyAssumption
          DEF RequestsTyped, OneHandler, BrowserTyped, TabsKnown, Critical, Replies,
              WithTab, workerVars, reqVars, browserVars, journal
  <1>1. ASSUME NEW w \in Workers, NEW o \in Ops, NEW r \in Reqs, PostOpen(w, o, r)
        PROVE  TabsKnown'
    BY <1>1 DEF PostOpen, IsNewReq, Place
  <1>2. ASSUME NEW w \in Workers, NEW r \in Reqs, EndPost(w, r)
        PROVE  TabsKnown'
    BY <1>2 DEF EndPost, Place, Free, Goto
  <1>3. ASSUME NEW w \in Workers, NEW r \in Reqs, EndCheck(w, r)
        PROVE  TabsKnown'
    BY <1>3 DEF EndCheck, Place, Free
  <1>4. ASSUME NEW w \in Workers, NEW r \in Reqs, GiveUp(w, r)
        PROVE  TabsKnown'
    BY <1>4 DEF GiveUp, Place, Abandon, Free
  <1>23. ASSUME NEW w \in Workers, NEW r \in Reqs, NEW q \in Reqs, AskInstead(w, r, q)
         PROVE  TabsKnown'
    BY <1>23 DEF AskInstead, IsNewReq, Place
  <1>5. ASSUME NEW w \in Workers, Finish(w)
        PROVE  TabsKnown'
    BY <1>5 DEF Finish, Place
  <1>6. ASSUME NEW w \in Workers, WorkerCrash(w)
        PROVE  TabsKnown'
    BY <1>6 DEF WorkerCrash, Place, Abandon, Free
  <1>7. ASSUME NEW r \in Reqs, Unreachable(r)
        PROVE  TabsKnown'
    BY <1>7 DEF Unreachable, Reply, Free, Goto
  <1>8. ASSUME NEW r \in Reqs, Lock(r)
        PROVE  TabsKnown'
    BY <1>8 DEF Lock, Goto
  <1>9. ASSUME NEW r \in Reqs, Load(r)
        PROVE  TabsKnown'
    BY <1>9 DEF Load, Goto, Answer, Reply, Free
  <1>10. ASSUME NEW r \in Reqs, Look(r)
         PROVE  TabsKnown'
    BY <1>10 DEF Look, Goto, Answer, Reply, Free
  <1>11. ASSUME NEW r \in Reqs, Recover(r)
         PROVE  TabsKnown'
    BY <1>11 DEF Recover, Save, Goto, Answer, Reply, Free
  <1>12. ASSUME NEW r \in Reqs, Prepare(r)
         PROVE  TabsKnown'
    BY <1>12 DEF Prepare, Save, Goto, Answer, Reply, Free
  <1>13. ASSUME NEW r \in Reqs, Create(r)
         PROVE  TabsKnown'
    BY <1>13 DEF Create, IsNewTab, Goto, Answer, Reply, Free
  <1>14. ASSUME NEW r \in Reqs, SaveTarget(r)
         PROVE  TabsKnown'
    BY <1>14 DEF SaveTarget, Save, Goto, Answer, Reply, Free
  <1>15. ASSUME NEW r \in Reqs, Find(r)
         PROVE  TabsKnown'
    BY <1>15 DEF Find, Goto, Answer, Reply, Free
  <1>16. ASSUME NEW r \in Reqs, Navigate(r)
         PROVE  TabsKnown'
    BY <1>16 DEF Navigate, Goto, Answer, Reply, Free
  <1>17. ASSUME NEW r \in Reqs, NavigateEnds(r)
         PROVE  TabsKnown'
    BY <1>17 DEF NavigateEnds, Goto, Answer, Reply, Free
  <1>18. ASSUME NEW r \in Reqs, SaveDone(r)
         PROVE  TabsKnown'
    BY <1>18 DEF SaveDone, Save, Goto, Answer, Reply, Free
  <1>19. ASSUME NEW t \in Tabs, ChromeNavigates(t)
         PROVE  TabsKnown'
    BY <1>19 DEF ChromeNavigates
  <1>20. ASSUME NEW t \in Tabs, UserActs(t)
         PROVE  TabsKnown'
    BY <1>20 DEF UserActs
  <1>21. ASSUME Restart
         PROVE  TabsKnown'
    BY <1>21 DEF Restart, Reply, Free, Goto
  <1>22. CASE UNCHANGED vars
    BY <1>22 DEF vars, workerVars, reqVars, browserVars
  <1> QED
    BY <1>1, <1>2, <1>3, <1>4, <1>5, <1>6, <1>7, <1>8, <1>9, <1>10, <1>11, <1>12,
       <1>13, <1>14, <1>15, <1>16, <1>17, <1>18, <1>19, <1>20, <1>21, <1>22, <1>23
       DEF Next, WorkerStep, AgentStep

\* Values of the journal and of Chrome after every step.
LEMMA BrowserTypedStep ==
  ASSUME RequestsTyped, BrowserTyped, TabsKnown, [Next]_vars
  PROVE  BrowserTyped'
  <1> USE NobodyAssumption
          DEF RequestsTyped, BrowserTyped, TabsKnown, Critical, Replies, WithTab,
              workerVars, reqVars, browserVars, journal
  <1>1. ASSUME NEW w \in Workers, NEW o \in Ops, NEW r \in Reqs, PostOpen(w, o, r)
        PROVE  BrowserTyped'
    BY <1>1 DEF PostOpen, IsNewReq, Place
  <1>2. ASSUME NEW w \in Workers, NEW r \in Reqs, EndPost(w, r)
        PROVE  BrowserTyped'
    BY <1>2 DEF EndPost, Place, Free, Goto
  <1>3. ASSUME NEW w \in Workers, NEW r \in Reqs, EndCheck(w, r)
        PROVE  BrowserTyped'
    BY <1>3 DEF EndCheck, Place, Free
  <1>4. ASSUME NEW w \in Workers, NEW r \in Reqs, GiveUp(w, r)
        PROVE  BrowserTyped'
    BY <1>4 DEF GiveUp, Place, Abandon, Free
  <1>23. ASSUME NEW w \in Workers, NEW r \in Reqs, NEW q \in Reqs, AskInstead(w, r, q)
         PROVE  BrowserTyped'
    BY <1>23 DEF AskInstead, IsNewReq, Place
  <1>5. ASSUME NEW w \in Workers, Finish(w)
        PROVE  BrowserTyped'
    BY <1>5 DEF Finish, Place
  <1>6. ASSUME NEW w \in Workers, WorkerCrash(w)
        PROVE  BrowserTyped'
    BY <1>6 DEF WorkerCrash, Place, Abandon, Free
  <1>7. ASSUME NEW r \in Reqs, Unreachable(r)
        PROVE  BrowserTyped'
    BY <1>7 DEF Unreachable, Reply, Free, Goto
  <1>8. ASSUME NEW r \in Reqs, Lock(r)
        PROVE  BrowserTyped'
    BY <1>8 DEF Lock, Goto
  <1>9. ASSUME NEW r \in Reqs, Load(r)
        PROVE  BrowserTyped'
    BY <1>9 DEF Load, Goto, Answer, Reply, Free
  <1>10. ASSUME NEW r \in Reqs, Look(r)
         PROVE  BrowserTyped'
    BY <1>10 DEF Look, Goto, Answer, Reply, Free
  <1>11. ASSUME NEW r \in Reqs, Recover(r)
         PROVE  BrowserTyped'
    BY <1>11 DEF Recover, Save, Goto, Answer, Reply, Free
  <1>12. ASSUME NEW r \in Reqs, Prepare(r)
         PROVE  BrowserTyped'
    BY <1>12 DEF Prepare, Save, Goto, Answer, Reply, Free
  <1>13. ASSUME NEW r \in Reqs, Create(r)
         PROVE  BrowserTyped'
    BY <1>13 DEF Create, IsNewTab, Goto, Answer, Reply, Free
  <1>14. ASSUME NEW r \in Reqs, SaveTarget(r)
         PROVE  BrowserTyped'
    BY <1>14 DEF SaveTarget, Save, Goto, Answer, Reply, Free
  <1>15. ASSUME NEW r \in Reqs, Find(r)
         PROVE  BrowserTyped'
    BY <1>15 DEF Find, Goto, Answer, Reply, Free
  <1>16. ASSUME NEW r \in Reqs, Navigate(r)
         PROVE  BrowserTyped'
    BY <1>16 DEF Navigate, Goto, Answer, Reply, Free
  <1>17. ASSUME NEW r \in Reqs, NavigateEnds(r)
         PROVE  BrowserTyped'
    BY <1>17 DEF NavigateEnds, Goto, Answer, Reply, Free
  <1>18. ASSUME NEW r \in Reqs, SaveDone(r)
         PROVE  BrowserTyped'
    BY <1>18 DEF SaveDone, Save, Goto, Answer, Reply, Free
  <1>19. ASSUME NEW t \in Tabs, ChromeNavigates(t)
         PROVE  BrowserTyped'
    BY <1>19 DEF ChromeNavigates
  <1>20. ASSUME NEW t \in Tabs, UserActs(t)
         PROVE  BrowserTyped'
    BY <1>20 DEF UserActs
  <1>21. ASSUME Restart
         PROVE  BrowserTyped'
    BY <1>21 DEF Restart, Reply, Free, Goto
  <1>22. CASE UNCHANGED vars
    BY <1>22 DEF vars, workerVars, reqVars, browserVars
  <1> QED
    BY <1>1, <1>2, <1>3, <1>4, <1>5, <1>6, <1>7, <1>8, <1>9, <1>10, <1>11, <1>12,
       <1>13, <1>14, <1>15, <1>16, <1>17, <1>18, <1>19, <1>20, <1>21, <1>22, <1>23
       DEF Next, WorkerStep, AgentStep

\* The handler that holds a.mu is the only one that writes, and it writes what
\* its position says.
LEMMA RecordsMatchStep ==
  ASSUME RequestsTyped, BrowserTyped, OneHandler, TabsKnown, RecordsMatch, [Next]_vars
  PROVE  RecordsMatch'
  <1> USE NobodyAssumption
          DEF RequestsTyped, BrowserTyped, OneHandler, TabsKnown, RecordsMatch,
              Critical, Replies, WithTab, workerVars, reqVars, browserVars, journal
  <1>1. ASSUME NEW w \in Workers, NEW o \in Ops, NEW r \in Reqs, PostOpen(w, o, r)
        PROVE  RecordsMatch'
    BY <1>1 DEF PostOpen, IsNewReq, Place
  <1>2. ASSUME NEW w \in Workers, NEW r \in Reqs, EndPost(w, r)
        PROVE  RecordsMatch'
    BY <1>2 DEF EndPost, Place, Free, Goto
  <1>3. ASSUME NEW w \in Workers, NEW r \in Reqs, EndCheck(w, r)
        PROVE  RecordsMatch'
    BY <1>3 DEF EndCheck, Place, Free
  <1>4. ASSUME NEW w \in Workers, NEW r \in Reqs, GiveUp(w, r)
        PROVE  RecordsMatch'
    BY <1>4 DEF GiveUp, Place, Abandon, Free
  <1>23. ASSUME NEW w \in Workers, NEW r \in Reqs, NEW q \in Reqs, AskInstead(w, r, q)
         PROVE  RecordsMatch'
    BY <1>23 DEF AskInstead, IsNewReq, Place
  <1>5. ASSUME NEW w \in Workers, Finish(w)
        PROVE  RecordsMatch'
    BY <1>5 DEF Finish, Place
  <1>6. ASSUME NEW w \in Workers, WorkerCrash(w)
        PROVE  RecordsMatch'
    BY <1>6 DEF WorkerCrash, Place, Abandon, Free
  <1>7. ASSUME NEW r \in Reqs, Unreachable(r)
        PROVE  RecordsMatch'
    BY <1>7 DEF Unreachable, Reply, Free, Goto
  <1>8. ASSUME NEW r \in Reqs, Lock(r)
        PROVE  RecordsMatch'
    BY <1>8 DEF Lock, Goto
  <1>9. ASSUME NEW r \in Reqs, Load(r)
        PROVE  RecordsMatch'
    BY <1>9 DEF Load, Goto, Answer, Reply, Free
  <1>10. ASSUME NEW r \in Reqs, Look(r)
         PROVE  RecordsMatch'
    BY <1>10 DEF Look, Goto, Answer, Reply, Free
  <1>11. ASSUME NEW r \in Reqs, Recover(r)
         PROVE  RecordsMatch'
    BY <1>11 DEF Recover, Save, Goto, Answer, Reply, Free
  <1>12. ASSUME NEW r \in Reqs, Prepare(r)
         PROVE  RecordsMatch'
    BY <1>12 DEF Prepare, Save, Goto, Answer, Reply, Free
  <1>13. ASSUME NEW r \in Reqs, Create(r)
         PROVE  RecordsMatch'
    BY <1>13 DEF Create, IsNewTab, Goto, Answer, Reply, Free
  <1>14. ASSUME NEW r \in Reqs, SaveTarget(r)
         PROVE  RecordsMatch'
    BY <1>14 DEF SaveTarget, Save, Goto, Answer, Reply, Free
  <1>15. ASSUME NEW r \in Reqs, Find(r)
         PROVE  RecordsMatch'
    BY <1>15 DEF Find, Goto, Answer, Reply, Free
  <1>16. ASSUME NEW r \in Reqs, Navigate(r)
         PROVE  RecordsMatch'
    BY <1>16 DEF Navigate, Goto, Answer, Reply, Free
  <1>17. ASSUME NEW r \in Reqs, NavigateEnds(r)
         PROVE  RecordsMatch'
    BY <1>17 DEF NavigateEnds, Goto, Answer, Reply, Free
  <1>18. ASSUME NEW r \in Reqs, SaveDone(r)
         PROVE  RecordsMatch'
    BY <1>18 DEF SaveDone, Save, Goto, Answer, Reply, Free
  <1>19. ASSUME NEW t \in Tabs, ChromeNavigates(t)
         PROVE  RecordsMatch'
    BY <1>19 DEF ChromeNavigates
  <1>20. ASSUME NEW t \in Tabs, UserActs(t)
         PROVE  RecordsMatch'
    BY <1>20 DEF UserActs
  <1>21. ASSUME Restart
         PROVE  RecordsMatch'
    BY <1>21 DEF Restart, Reply, Free, Goto
  <1>22. CASE UNCHANGED vars
    BY <1>22 DEF vars, workerVars, reqVars, browserVars
  <1> QED
    BY <1>1, <1>2, <1>3, <1>4, <1>5, <1>6, <1>7, <1>8, <1>9, <1>10, <1>11, <1>12,
       <1>13, <1>14, <1>15, <1>16, <1>17, <1>18, <1>19, <1>20, <1>21, <1>22, <1>23
       DEF Next, WorkerStep, AgentStep

\* The heart of the argument: no step creates a second tab or sends a second
\* command.
LEMMA OpeningStep ==
  ASSUME RequestsTyped, BrowserTyped, OneHandler, TabsKnown, RecordsMatch, Opening, [Next]_vars
  PROVE  Opening'
  <1> USE NobodyAssumption
          DEF RequestsTyped, BrowserTyped, OneHandler, TabsKnown, RecordsMatch,
              Opening, OpensOnce, Critical, Replies, WithTab, workerVars, reqVars,
              browserVars, journal
  <1>1. ASSUME NEW w \in Workers, NEW o \in Ops, NEW r \in Reqs, PostOpen(w, o, r)
        PROVE  Opening'
    BY <1>1 DEF PostOpen, IsNewReq, Place
  <1>2. ASSUME NEW w \in Workers, NEW r \in Reqs, EndPost(w, r)
        PROVE  Opening'
    BY <1>2 DEF EndPost, Place, Free, Goto
  <1>3. ASSUME NEW w \in Workers, NEW r \in Reqs, EndCheck(w, r)
        PROVE  Opening'
    BY <1>3 DEF EndCheck, Place, Free
  <1>4. ASSUME NEW w \in Workers, NEW r \in Reqs, GiveUp(w, r)
        PROVE  Opening'
    BY <1>4 DEF GiveUp, Place, Abandon, Free
  <1>23. ASSUME NEW w \in Workers, NEW r \in Reqs, NEW q \in Reqs, AskInstead(w, r, q)
         PROVE  Opening'
    BY <1>23 DEF AskInstead, IsNewReq, Place
  <1>5. ASSUME NEW w \in Workers, Finish(w)
        PROVE  Opening'
    BY <1>5 DEF Finish, Place
  <1>6. ASSUME NEW w \in Workers, WorkerCrash(w)
        PROVE  Opening'
    BY <1>6 DEF WorkerCrash, Place, Abandon, Free
  <1>7. ASSUME NEW r \in Reqs, Unreachable(r)
        PROVE  Opening'
    BY <1>7 DEF Unreachable, Reply, Free, Goto
  <1>8. ASSUME NEW r \in Reqs, Lock(r)
        PROVE  Opening'
    BY <1>8 DEF Lock, Goto
  <1>9. ASSUME NEW r \in Reqs, Load(r)
        PROVE  Opening'
    BY <1>9 DEF Load, Goto, Answer, Reply, Free
  <1>10. ASSUME NEW r \in Reqs, Look(r)
         PROVE  Opening'
    BY <1>10 DEF Look, Goto, Answer, Reply, Free
  <1>11. ASSUME NEW r \in Reqs, Recover(r)
         PROVE  Opening'
    BY <1>11 DEF Recover, Save, Goto, Answer, Reply, Free
  <1>12. ASSUME NEW r \in Reqs, Prepare(r)
         PROVE  Opening'
    BY <1>12 DEF Prepare, Save, Goto, Answer, Reply, Free
  <1>13. ASSUME NEW r \in Reqs, Create(r)
         PROVE  Opening'
    BY <1>13 DEF Create, IsNewTab, Goto, Answer, Reply, Free
  <1>14. ASSUME NEW r \in Reqs, SaveTarget(r)
         PROVE  Opening'
    BY <1>14 DEF SaveTarget, Save, Goto, Answer, Reply, Free
  <1>15. ASSUME NEW r \in Reqs, Find(r)
         PROVE  Opening'
    BY <1>15 DEF Find, Goto, Answer, Reply, Free
  <1>16. ASSUME NEW r \in Reqs, Navigate(r)
         PROVE  Opening'
    BY <1>16 DEF Navigate, Goto, Answer, Reply, Free
  <1>17. ASSUME NEW r \in Reqs, NavigateEnds(r)
         PROVE  Opening'
    BY <1>17 DEF NavigateEnds, Goto, Answer, Reply, Free
  <1>18. ASSUME NEW r \in Reqs, SaveDone(r)
         PROVE  Opening'
    BY <1>18 DEF SaveDone, Save, Goto, Answer, Reply, Free
  <1>19. ASSUME NEW t \in Tabs, ChromeNavigates(t)
         PROVE  Opening'
    BY <1>19 DEF ChromeNavigates
  <1>20. ASSUME NEW t \in Tabs, UserActs(t)
         PROVE  Opening'
    BY <1>20 DEF UserActs
  <1>21. ASSUME Restart
         PROVE  Opening'
    BY <1>21 DEF Restart, Reply, Free, Goto
  <1>22. CASE UNCHANGED vars
    BY <1>22 DEF vars, workerVars, reqVars, browserVars
  <1> QED
    BY <1>1, <1>2, <1>3, <1>4, <1>5, <1>6, <1>7, <1>8, <1>9, <1>10, <1>11, <1>12,
       <1>13, <1>14, <1>15, <1>16, <1>17, <1>18, <1>19, <1>20, <1>21, <1>22, <1>23
       DEF Next, WorkerStep, AgentStep

\* A worker waits for the request it has sent last.
LEMMA WaitingStep ==
  ASSUME WorkersTyped, RequestsTyped, Waiting, [Next]_vars
  PROVE  Waiting'
  <1> USE NobodyAssumption
          DEF WorkersTyped, RequestsTyped, Waiting, Critical, Replies, WithTab,
              workerVars, reqVars, browserVars, journal
  <1>1. ASSUME NEW w \in Workers, NEW o \in Ops, NEW r \in Reqs, PostOpen(w, o, r)
        PROVE  Waiting'
    <2>1. rpc[r] = "free"
      BY <1>1 DEF PostOpen, IsNewReq
    <2> QED
      BY <1>1, <2>1 DEF PostOpen, Place
  <1>2. ASSUME NEW w \in Workers, NEW r \in Reqs, EndPost(w, r)
        PROVE  Waiting'
    BY <1>2 DEF EndPost, Place, Free, Goto
  <1>3. ASSUME NEW w \in Workers, NEW r \in Reqs, EndCheck(w, r)
        PROVE  Waiting'
    BY <1>3 DEF EndCheck, Place, Free
  <1>4. ASSUME NEW w \in Workers, NEW r \in Reqs, GiveUp(w, r)
        PROVE  Waiting'
    BY <1>4 DEF GiveUp, Place, Abandon, Free
  <1>23. ASSUME NEW w \in Workers, NEW r \in Reqs, NEW q \in Reqs, AskInstead(w, r, q)
         PROVE  Waiting'
    <2>1. rpc[q] = "free"
      BY <1>23 DEF AskInstead, IsNewReq
    <2>2. r # q
      BY <1>23, <2>1 DEF AskInstead
    <2>3. /\ wpc' = [wpc EXCEPT ![w] = "check"]
          /\ wop' = [wop EXCEPT ![w] = wop[w]]
          /\ rpc' = [rpc EXCEPT ![q] = "getSent"]
          /\ rop' = [rop EXCEPT ![q] = wop[w]]
          /\ owner' = [owner EXCEPT ![r] = NoWorker, ![q] = w]
      BY <1>23 DEF AskInstead, Place
    <2>4. owner[r] = w
      BY <1>23 DEF AskInstead
    <2>5. \A p \in Reqs : owner'[p] # NoWorker =>
            \/ p = q /\ owner'[p] = w
            \/ /\ p # q /\ p # r /\ owner'[p] = owner[p] /\ owner[p] # w
               /\ owner[p] \in Workers /\ rpc'[p] = rpc[p] /\ rop'[p] = rop[p]
      BY <2>2, <2>3, <2>4
    <2>6. \A v \in Workers : wop'[v] = wop[v] /\ (v # w => wpc'[v] = wpc[v])
      BY <2>3
    <2>7. ASSUME NEW p \in Reqs, owner'[p] # NoWorker
          PROVE  /\ rpc'[p] # "free"
                 /\ wpc'[owner'[p]] \in {"post", "check"}
                 /\ rop'[p] = wop'[owner'[p]]
      <3>1. CASE p = q
        BY <2>3, <2>5, <2>6, <2>7, <3>1
      <3>2. CASE p # q
        BY <2>5, <2>6, <2>7, <3>2
      <3> QED
        BY <3>1, <3>2
    <2>8. \A p, s \in Reqs : owner'[p] # NoWorker /\ owner'[s] = owner'[p] => s = p
      BY <2>5
    <2> QED
      BY <2>7, <2>8
  <1>5. ASSUME NEW w \in Workers, Finish(w)
        PROVE  Waiting'
    BY <1>5 DEF Finish, Place
  <1>6. ASSUME NEW w \in Workers, WorkerCrash(w)
        PROVE  Waiting'
    BY <1>6 DEF WorkerCrash, Place, Abandon, Free
  <1>7. ASSUME NEW r \in Reqs, Unreachable(r)
        PROVE  Waiting'
    BY <1>7 DEF Unreachable, Reply, Free, Goto
  <1>8. ASSUME NEW r \in Reqs, Lock(r)
        PROVE  Waiting'
    BY <1>8 DEF Lock, Goto
  <1>9. ASSUME NEW r \in Reqs, Load(r)
        PROVE  Waiting'
    BY <1>9 DEF Load, Goto, Answer, Reply, Free
  <1>10. ASSUME NEW r \in Reqs, Look(r)
         PROVE  Waiting'
    BY <1>10 DEF Look, Goto, Answer, Reply, Free
  <1>11. ASSUME NEW r \in Reqs, Recover(r)
         PROVE  Waiting'
    BY <1>11 DEF Recover, Save, Goto, Answer, Reply, Free
  <1>12. ASSUME NEW r \in Reqs, Prepare(r)
         PROVE  Waiting'
    BY <1>12 DEF Prepare, Save, Goto, Answer, Reply, Free
  <1>13. ASSUME NEW r \in Reqs, Create(r)
         PROVE  Waiting'
    BY <1>13 DEF Create, IsNewTab, Goto, Answer, Reply, Free
  <1>14. ASSUME NEW r \in Reqs, SaveTarget(r)
         PROVE  Waiting'
    BY <1>14 DEF SaveTarget, Save, Goto, Answer, Reply, Free
  <1>15. ASSUME NEW r \in Reqs, Find(r)
         PROVE  Waiting'
    BY <1>15 DEF Find, Goto, Answer, Reply, Free
  <1>16. ASSUME NEW r \in Reqs, Navigate(r)
         PROVE  Waiting'
    BY <1>16 DEF Navigate, Goto, Answer, Reply, Free
  <1>17. ASSUME NEW r \in Reqs, NavigateEnds(r)
         PROVE  Waiting'
    BY <1>17 DEF NavigateEnds, Goto, Answer, Reply, Free
  <1>18. ASSUME NEW r \in Reqs, SaveDone(r)
         PROVE  Waiting'
    BY <1>18 DEF SaveDone, Save, Goto, Answer, Reply, Free
  <1>19. ASSUME NEW t \in Tabs, ChromeNavigates(t)
         PROVE  Waiting'
    BY <1>19 DEF ChromeNavigates
  <1>20. ASSUME NEW t \in Tabs, UserActs(t)
         PROVE  Waiting'
    BY <1>20 DEF UserActs
  <1>21. ASSUME Restart
         PROVE  Waiting'
    BY <1>21 DEF Restart, Reply, Free, Goto
  <1>22. CASE UNCHANGED vars
    BY <1>22 DEF vars, workerVars, reqVars, browserVars
  <1> QED
    BY <1>1, <1>2, <1>3, <1>4, <1>5, <1>6, <1>7, <1>8, <1>9, <1>10, <1>11, <1>12,
       <1>13, <1>14, <1>15, <1>16, <1>17, <1>18, <1>19, <1>20, <1>21, <1>22, <1>23
       DEF Next, WorkerStep, AgentStep

\* Success is passed on from Chrome to the record, the reply and the row.
LEMMA ReachingStep ==
  ASSUME WorkersTyped, RequestsTyped, BrowserTyped, OneHandler, TabsKnown, RecordsMatch, Waiting, Reaching, [Next]_vars
  PROVE  Reaching'
  <1> USE NobodyAssumption
          DEF WorkersTyped, RequestsTyped, BrowserTyped, OneHandler, TabsKnown,
              RecordsMatch, Waiting, Reaching, SuccessWasAnswered, Critical, Replies,
              WithTab, workerVars, reqVars, browserVars, journal
  <1>1. ASSUME NEW w \in Workers, NEW o \in Ops, NEW r \in Reqs, PostOpen(w, o, r)
        PROVE  Reaching'
    BY <1>1 DEF PostOpen, IsNewReq, Place
  <1>2. ASSUME NEW w \in Workers, NEW r \in Reqs, EndPost(w, r)
        PROVE  Reaching'
    BY <1>2 DEF EndPost, Place, Free, Goto
  <1>3. ASSUME NEW w \in Workers, NEW r \in Reqs, EndCheck(w, r)
        PROVE  Reaching'
    BY <1>3 DEF EndCheck, Place, Free
  <1>4. ASSUME NEW w \in Workers, NEW r \in Reqs, GiveUp(w, r)
        PROVE  Reaching'
    BY <1>4 DEF GiveUp, Place, Abandon, Free
  <1>23. ASSUME NEW w \in Workers, NEW r \in Reqs, NEW q \in Reqs, AskInstead(w, r, q)
         PROVE  Reaching'
    BY <1>23 DEF AskInstead, IsNewReq, Place
  <1>5. ASSUME NEW w \in Workers, Finish(w)
        PROVE  Reaching'
    BY <1>5 DEF Finish, Place
  <1>6. ASSUME NEW w \in Workers, WorkerCrash(w)
        PROVE  Reaching'
    BY <1>6 DEF WorkerCrash, Place, Abandon, Free
  <1>7. ASSUME NEW r \in Reqs, Unreachable(r)
        PROVE  Reaching'
    BY <1>7 DEF Unreachable, Reply, Free, Goto
  <1>8. ASSUME NEW r \in Reqs, Lock(r)
        PROVE  Reaching'
    BY <1>8 DEF Lock, Goto
  <1>9. ASSUME NEW r \in Reqs, Load(r)
        PROVE  Reaching'
    BY <1>9 DEF Load, Goto, Answer, Reply, Free
  <1>10. ASSUME NEW r \in Reqs, Look(r)
         PROVE  Reaching'
    BY <1>10 DEF Look, Goto, Answer, Reply, Free
  <1>11. ASSUME NEW r \in Reqs, Recover(r)
         PROVE  Reaching'
    BY <1>11 DEF Recover, Save, Goto, Answer, Reply, Free
  <1>12. ASSUME NEW r \in Reqs, Prepare(r)
         PROVE  Reaching'
    BY <1>12 DEF Prepare, Save, Goto, Answer, Reply, Free
  <1>13. ASSUME NEW r \in Reqs, Create(r)
         PROVE  Reaching'
    BY <1>13 DEF Create, IsNewTab, Goto, Answer, Reply, Free
  <1>14. ASSUME NEW r \in Reqs, SaveTarget(r)
         PROVE  Reaching'
    BY <1>14 DEF SaveTarget, Save, Goto, Answer, Reply, Free
  <1>15. ASSUME NEW r \in Reqs, Find(r)
         PROVE  Reaching'
    BY <1>15 DEF Find, Goto, Answer, Reply, Free
  <1>16. ASSUME NEW r \in Reqs, Navigate(r)
         PROVE  Reaching'
    BY <1>16 DEF Navigate, Goto, Answer, Reply, Free
  <1>17. ASSUME NEW r \in Reqs, NavigateEnds(r)
         PROVE  Reaching'
    BY <1>17 DEF NavigateEnds, Goto, Answer, Reply, Free
  <1>18. ASSUME NEW r \in Reqs, SaveDone(r)
         PROVE  Reaching'
    BY <1>18 DEF SaveDone, Save, Goto, Answer, Reply, Free
  <1>19. ASSUME NEW t \in Tabs, ChromeNavigates(t)
         PROVE  Reaching'
    BY <1>19 DEF ChromeNavigates
  <1>20. ASSUME NEW t \in Tabs, UserActs(t)
         PROVE  Reaching'
    BY <1>20 DEF UserActs
  <1>21. ASSUME Restart
         PROVE  Reaching'
    BY <1>21 DEF Restart, Reply, Free, Goto
  <1>22. CASE UNCHANGED vars
    BY <1>22 DEF vars, workerVars, reqVars, browserVars
  <1> QED
    BY <1>1, <1>2, <1>3, <1>4, <1>5, <1>6, <1>7, <1>8, <1>9, <1>10, <1>11, <1>12,
       <1>13, <1>14, <1>15, <1>16, <1>17, <1>18, <1>19, <1>20, <1>21, <1>22, <1>23
       DEF Next, WorkerStep, AgentStep

--------------------------------------------------------------------------------
\* The invariants hold at the start.
LEMMA JournalInvInit == Init => SuccessInv
  BY NobodyAssumption
     DEF Init, SuccessInv, JournalInv, JournalTypeOK, WorkersTyped, RequestsTyped,
         BrowserTyped,
         OneHandler, TabsKnown, RecordsMatch, Opening, OpensOnce, Waiting, Reaching,
         SuccessWasAnswered, Critical, WithTab, Replies

\* Every step keeps them.
LEMMA SuccessInvStep == SuccessInv /\ [Next]_vars => SuccessInv'
  BY WorkersTypedStep, RequestsTypedStep, OneHandlerStep, TabsKnownStep,
     BrowserTypedStep,
     RecordsMatchStep, OpeningStep, WaitingStep, ReachingStep
     DEF SuccessInv, JournalInv, JournalTypeOK

\* They hold in every reachable state.
THEOREM JournalInvariant == Spec => []SuccessInv
  <1> QED
    BY JournalInvInit, SuccessInvStep, PTL DEF Spec

\* Every value has its type, and only the holder of a.mu is between its load
\* and its answer.
THEOREM JournalTypeCorrect == Spec => []JournalTypeOK
  <1>1. SuccessInv => JournalTypeOK
    BY DEF SuccessInv, JournalInv
  <1> QED
    BY <1>1, JournalInvariant, PTL

\* For any number of executions, crashes and restarts, an operation gets at
\* most one tab and one navigation.
THEOREM OpensAtMostOnce == Spec => []OpensOnce
  <1>1. SuccessInv => OpensOnce
    BY DEF SuccessInv, JournalInv, Opening
  <1> QED
    BY <1>1, JournalInvariant, PTL

\* A success that the agent records or the row shows is one whose tab has been
\* at the address, or whose navigation Chrome has answered with a refusal.
THEOREM SuccessIsTrue == Spec => []SuccessWasAnswered
  <1>1. SuccessInv => SuccessWasAnswered
    BY DEF SuccessInv, Reaching
  <1> QED
    BY <1>1, JournalInvariant, PTL

\* What a step may do to the records.
RecordsKept ==
  \A o \in Ops :
    /\ jstate[o] = "SUCCEEDED" => jstate'[o] = jstate[o]
    /\ jstate[o] # "none" => jstate'[o] # "none"
    /\ jtab[o] # NoTab => jtab'[o] = jtab[o]

\* Records only grow: only the holder of a.mu writes, and it knows the record.
LEMMA RecordsKeptStep ==
  ASSUME SuccessInv, [Next]_vars
  PROVE  RecordsKept
  <1> USE DEF SuccessInv, JournalInv, JournalTypeOK, RecordsKept, RecordsMatch,
          RequestsTyped,
              BrowserTyped, WithTab, journal
  <1>1. CASE UNCHANGED journal
    BY <1>1
  <1>2. ASSUME NEW r \in Reqs, Recover(r)
        PROVE  RecordsKept
    BY <1>2 DEF Recover, Save
  <1>3. ASSUME NEW r \in Reqs, Prepare(r)
        PROVE  RecordsKept
    BY <1>3 DEF Prepare, Save
  <1>4. ASSUME NEW r \in Reqs, SaveTarget(r)
        PROVE  RecordsKept
    BY <1>4 DEF SaveTarget, Save
  <1>5. ASSUME NEW r \in Reqs, SaveDone(r)
        PROVE  RecordsKept
    BY <1>5 DEF SaveDone, Save
  <1>6. ASSUME NEW w \in Workers, WorkerStep(w) \/ WorkerCrash(w)
                                   \/ \E r, q \in Reqs : GiveUp(w, r) \/ AskInstead(w, r, q)
        PROVE  UNCHANGED journal
    BY <1>6
       DEF WorkerStep, PostOpen, EndPost, EndCheck, Finish, WorkerCrash, GiveUp,
           AskInstead
  <1>7. ASSUME NEW r \in Reqs, AgentStep(r), ~Recover(r), ~Prepare(r), ~SaveTarget(r), ~SaveDone(r)
        PROVE  UNCHANGED journal
    BY <1>7
       DEF AgentStep, Unreachable, Lock, Load, Look, Create, Find, Navigate,
           NavigateEnds
  <1>8. ASSUME NEW t \in Tabs, ChromeNavigates(t) \/ UserActs(t)
        PROVE  UNCHANGED journal
    BY <1>8 DEF ChromeNavigates, UserActs
  <1>9. CASE Restart
    BY <1>1, <1>9 DEF Restart
  <1>10. CASE UNCHANGED vars
    BY <1>1, <1>10 DEF vars
  <1> QED
    BY <1>1, <1>2, <1>3, <1>4, <1>5, <1>6, <1>7, <1>8, <1>9, <1>10 DEF Next

\* A record never goes back, nor to another tab, whatever is executed again.
THEOREM RecordsOnlyGrow == Spec => RecordsKeep
  <1>1. SuccessInv /\ [Next]_vars => [RecordsKept]_vars
    BY RecordsKeptStep
  <1>2. [RecordsKept]_vars <=>
          [\A o \in Ops :
             /\ jstate[o] = "SUCCEEDED" => jstate'[o] = jstate[o]
             /\ jstate[o] # "none" => jstate'[o] # "none"
             /\ jtab[o] # NoTab => jtab'[o] = jtab[o]]_vars
    BY DEF RecordsKept
  <1> QED
    BY <1>1, <1>2, JournalInvariant, PTL DEF Spec, RecordsKeep

--------------------------------------------------------------------------------
\* Every step is a step of OpenOnce or leaves its variables alone: the worker
\* writes an outcome, Chrome navigates a tab for the first time, or the user
\* brings a tab to its address.
LEMMA StepIsOnce ==
  ASSUME SuccessInv, [Next]_vars
  PROVE  [OnceOnly!OnceNext]_(OnceOnly!onceVars)
  <1> USE DEF SuccessInv, JournalInv, JournalTypeOK, OnceOnly!OnceNext,
          OnceOnly!onceVars
  <1>1. ASSUME NEW w \in Workers, Finish(w)
        PROVE  \E o \in Ops : OnceOnly!End(o)
    <2>1. wop[w] \in Ops /\ wout[w] \in {"SUCCEEDED", "UNKNOWN"}
      BY <1>1 DEF Finish, WorkersTyped
    <2>2. wout[w] = "SUCCEEDED" => wop[w] \in reached \cup refused
      BY <1>1 DEF Finish, Reaching
    <2> QED
      BY <1>1, <2>1, <2>2 DEF Finish, OnceOnly!End, browserVars
  <1>2. ASSUME NEW t \in Tabs, ChromeNavigates(t)
        PROVE  [\E o \in Ops : OnceOnly!NavigateOnce(o)]_(OnceOnly!onceVars)
    <2>1. tabOp[t] \in Ops /\ navs[tabOp[t]] = 0 /\ tabOp[t] \notin refused
      BY <1>2 DEF ChromeNavigates, TabsKnown, BrowserTyped, Opening
    <2>2. navs \in [Ops -> Nat] /\ row' = row
      BY <1>2 DEF BrowserTyped, ChromeNavigates, workerVars
    <2> QED
      BY <1>2, <2>1, <2>2 DEF ChromeNavigates, OnceOnly!NavigateOnce
  <1>3. ASSUME NEW t \in Tabs, UserActs(t)
        PROVE  [\E o \in Ops : OnceOnly!ReachByHand(o)]_(OnceOnly!onceVars)
    <2>1. tabOp[t] \in Ops
      BY <1>3 DEF UserActs, TabsKnown, BrowserTyped
    <2> QED
      BY <1>3, <2>1 DEF UserActs, OnceOnly!ReachByHand, workerVars
  <1>4. ASSUME NEW w \in Workers,
               \/ \E o \in Ops, r \in Reqs : PostOpen(w, o, r)
               \/ \E r \in Reqs : EndPost(w, r) \/ EndCheck(w, r) \/ GiveUp(w, r)
               \/ \E r, q \in Reqs : AskInstead(w, r, q)
               \/ WorkerCrash(w)
        PROVE  UNCHANGED OnceOnly!onceVars
    BY <1>4
       DEF PostOpen, EndPost, EndCheck, GiveUp, AskInstead, WorkerCrash, browserVars
  <1>5. ASSUME NEW r \in Reqs, AgentStep(r)
        PROVE  UNCHANGED OnceOnly!onceVars
    BY <1>5
       DEF AgentStep, Unreachable, Lock, Load, Look, Recover, Prepare, Create,
           SaveTarget,
       Find, Navigate, NavigateEnds, SaveDone, browserVars, workerVars
  <1>6. CASE Restart
    BY <1>6 DEF Restart, workerVars
  <1>7. CASE UNCHANGED vars
    BY <1>7 DEF vars, browserVars, workerVars
  <1> QED
    BY <1>1, <1>2, <1>3, <1>4, <1>5, <1>6, <1>7 DEF Next, WorkerStep

\* Worker, agent and Chrome together implement OpenOnce.
THEOREM JournalImplementsOnce == Spec => ImplementsOpenOnce
  <1>1. Init => OnceOnly!OnceInit
    BY DEF Init, OnceOnly!OnceInit
  <1>2. SuccessInv /\ [Next]_vars => [OnceOnly!OnceNext]_(OnceOnly!onceVars)
    BY StepIsOnce
  <1> QED
    BY <1>1, <1>2, JournalInvariant, PTL DEF Spec, ImplementsOpenOnce, OnceOnly!OnceSpec
================================================================================
