------------------------------- MODULE OpenJournal ------------------------------
(***************************************************************************)
(* Opening a link: the agent's handlers open and operation                 *)
(* (internal/agent/agent.go), the journal they keep in the profile, and    *)
(* the worker that calls them (internal/api/worker.go, next).              *)
(*                                                                         *)
(* The agent writes a record before it touches Chrome and never opens an   *)
(* operation that has one; a.mu keeps one handler at a time between        *)
(* reading the record and answering.  Each save, each command to Chrome    *)
(* and each request is a step of its own.  The API may die and execute an  *)
(* operation again, two API processes may execute it at once (module       *)
(* Scheduler), requests arrive late or never, and the container ends and   *)
(* restarts with the journal on its volume.                                *)
(***************************************************************************)
EXTENDS Naturals, FiniteSets

CONSTANTS
  Ops,          \* open operations; each has one address for its whole life
  Workers,      \* API processes that execute operations
  Reqs,         \* requests that exist at a time
  Tabs,         \* ids Chrome gives to tabs, never given twice
  NoWorker,     \* the client of a request has gone
  NoReq,        \* nobody holds a.mu
  NoTab,        \* record without a target
  NoOp,
  MaxRestarts,  \* bound on the container's restarts
  MaxCrashes    \* bound on the API's crashes

ASSUME NobodyAssumption ==
  /\ NoWorker \notin Workers
  /\ NoReq \notin Reqs
  /\ NoTab \notin Tabs
  /\ NoOp \notin Ops
ASSUME BoundsAssumption == MaxRestarts \in Nat /\ MaxCrashes \in Nat

VARIABLES
  row,       \* row[o]: state of the operations row
  wpc, wop, wout,   \* wpc[w]: position of w; its operation; the outcome to write
  rpc,       \* rpc[r]: position of a request, or its reply
  rop, rtab, \* its operation; the target it has created
  owner,     \* the worker that waits for its reply, or NoWorker
  mu,        \* holder of a.mu
  jstate, jtab,  \* the record of o in the journal: its state, "none" without
             \* a record, and its target
  at,        \* at[t]: tab t is unborn, elsewhere (or blank), at the address, closed
  tabOp,     \* operation whose createTarget has made tab t
  inbox,     \* tabs with a Page.navigate that Chrome has yet to handle
  navs,      \* history: navigations to the address of o that took effect
  reached,   \* history: operations whose tab has been at their address
  refused,   \* history: operations whose navigation Chrome has refused
  restarts, crashes  \* counters for the bounds

workerVars == <<row, wpc, wop, wout, crashes>>
reqVars == <<rpc, rop, rtab, owner>>
journal == <<jstate, jtab>>
browserVars == <<at, tabOp, inbox, navs, reached, refused>>
vars == <<workerVars, reqVars, mu, journal, browserVars, restarts>>

Replies == {"ok", "unknown", "error"}
Critical == {"load", "prepare", "create", "saveTarget", "find", "navigate",
             "navigating", "saveDone", "recover", "look"}
WithTab == {"saveTarget", "find", "navigate", "navigating", "saveDone"}

Init ==
  /\ row = [o \in Ops |-> "RUNNING"]
  /\ wpc = [w \in Workers |-> "idle"]
  /\ wop = [w \in Workers |-> NoOp]
  /\ wout = [w \in Workers |-> "none"]
  /\ rpc = [r \in Reqs |-> "free"]
  /\ rop = [r \in Reqs |-> NoOp]
  /\ rtab = [r \in Reqs |-> NoTab]
  /\ owner = [r \in Reqs |-> NoWorker]
  /\ mu = NoReq
  /\ jstate = [o \in Ops |-> "none"]
  /\ jtab = [o \in Ops |-> NoTab]
  /\ at = [t \in Tabs |-> "unborn"]
  /\ tabOp = [t \in Tabs |-> NoOp]
  /\ inbox = {}
  /\ navs = [o \in Ops |-> 0]
  /\ reached = {}
  /\ refused = {}
  /\ restarts = 0
  /\ crashes = 0

Goto(r, pc) == rpc' = [rpc EXCEPT ![r] = pc] /\ UNCHANGED <<rop, rtab, owner>>

\* The end of a request whose client takes the reply, or has gone.
Free(r) ==
  /\ rpc' = [rpc EXCEPT ![r] = "free"]
  /\ rop' = [rop EXCEPT ![r] = NoOp]
  /\ rtab' = [rtab EXCEPT ![r] = NoTab]
  /\ owner' = [owner EXCEPT ![r] = NoWorker]

\* A reply nobody waits for is the end of its request.
Reply(r, reply) == IF owner[r] = NoWorker THEN Free(r) ELSE Goto(r, reply)

\* A new request takes a free place, and a new tab an unused id; which of them
\* makes no difference.
IsNewReq(r) == rpc[r] = "free" /\ r = CHOOSE q \in Reqs : rpc[q] = "free"
IsNewTab(t) == at[t] = "unborn" /\ t = CHOOSE s \in Tabs : at[s] = "unborn"

\* The position of w, with the operation it executes and the outcome to write.
Place(w, pc, o, out) ==
  /\ wpc' = [wpc EXCEPT ![w] = pc]
  /\ wop' = [wop EXCEPT ![w] = o]
  /\ wout' = [wout EXCEPT ![w] = out]

--------------------------------------------------------------------------------
(***************************************************************************)
(* The worker.  Picking the operation and starting the container are in    *)
(* module Scheduler; here any worker may execute any operation that is     *)
(* RUNNING, alone or together with another one.                            *)
(***************************************************************************)
\* POST /containers/<user>/agent/open
PostOpen(w, o, r) ==
  /\ wpc[w] = "idle" /\ row[o] = "RUNNING"
  /\ IsNewReq(r)
  /\ Place(w, "post", o, "none")
  /\ rpc' = [rpc EXCEPT ![r] = "openSent"]
  /\ rop' = [rop EXCEPT ![r] = o]
  /\ owner' = [owner EXCEPT ![r] = w]
  /\ UNCHANGED <<row, crashes, rtab, mu, journal, browserVars, restarts>>

\* Fault: after an error the worker posts again until it succeeds.
EndPostRepeats(w, r) ==
  /\ wpc[w] = "post" /\ owner[r] = w /\ rpc[r] \in Replies
  /\ IF rpc[r] = "ok"
     THEN Place(w, "finish", wop[w], "SUCCEEDED") /\ Free(r)
     ELSE Goto(r, "openSent") /\ UNCHANGED <<wpc, wop, wout>>
  /\ UNCHANGED <<row, crashes, mu, journal, browserVars, restarts>>

\* After an error, or a reply that is lost, the worker asks
\* GET .../agent/operations/<id>.
EndPost(w, r) ==
  /\ wpc[w] = "post" /\ owner[r] = w /\ rpc[r] \in Replies
  /\ \/ rpc[r] = "ok" /\ Place(w, "finish", wop[w], "SUCCEEDED") /\ Free(r)
     \/ Place(w, "check", wop[w], "none") /\ Goto(r, "getSent")
  /\ UNCHANGED <<row, crashes, mu, journal, browserVars, restarts>>

EndCheck(w, r) ==
  /\ wpc[w] = "check" /\ owner[r] = w /\ rpc[r] \in Replies
  /\ Place(w, "finish", wop[w], IF rpc[r] = "ok" THEN "SUCCEEDED" ELSE "UNKNOWN")
  /\ Free(r)
  /\ UNCHANGED <<row, crashes, mu, journal, browserVars, restarts>>

\* The client goes; its request may still be on its way, or being handled.
Abandon(r) ==
  IF rpc[r] \in Replies THEN Free(r)
  ELSE owner' = [owner EXCEPT ![r] = NoWorker] /\ UNCHANGED <<rpc, rop, rtab>>

\* The client's 90 s are over: the GET goes out while the POST it has abandoned
\* may still be on its way, or being handled.
AskInstead(w, r, q) ==
  /\ wpc[w] = "post" /\ owner[r] = w /\ rpc[r] \notin Replies
  /\ IsNewReq(q)
  /\ Place(w, "check", wop[w], "none")
  /\ rpc' = [rpc EXCEPT ![q] = "getSent"]
  /\ rop' = [rop EXCEPT ![q] = wop[w]]
  /\ owner' = [owner EXCEPT ![r] = NoWorker, ![q] = w]
  /\ UNCHANGED <<row, crashes, rtab, mu, journal, browserVars, restarts>>

\* The operation's 100 s are over: the request is abandoned, and a GET fails at
\* once.
GiveUp(w, r) ==
  /\ wpc[w] \in {"post", "check"} /\ owner[r] = w
  /\ Place(w, "finish", wop[w], "UNKNOWN")
  /\ Abandon(r)
  /\ UNCHANGED <<row, crashes, mu, journal, browserVars, restarts>>

\* The UPDATE of finish, by id alone.
Finish(w) ==
  /\ wpc[w] = "finish"
  /\ row' = [row EXCEPT ![wop[w]] = wout[w]]
  /\ Place(w, "idle", NoOp, "none")
  /\ UNCHANGED <<crashes, reqVars, mu, journal, browserVars, restarts>>

\* The API dies, or its UPDATE fails: the row stays RUNNING.
WorkerCrash(w) ==
  /\ wpc[w] # "idle" /\ crashes < MaxCrashes
  /\ crashes' = crashes + 1
  /\ Place(w, "idle", NoOp, "none")
  /\ \/ wpc[w] = "finish" /\ UNCHANGED reqVars
     \/ \E r \in Reqs : owner[r] = w /\ Abandon(r)
  /\ UNCHANGED <<row, mu, journal, browserVars, restarts>>

--------------------------------------------------------------------------------
(***************************************************************************)
(* The agent's handlers                                                    *)
(***************************************************************************)
\* The handler returns, which unlocks a.mu.
Answer(r, reply) == Reply(r, reply) /\ mu' = NoReq

\* save: a temporary file, fsync and rename; an error leaves the old record.
Save(o, state, target) ==
  /\ jstate' = [jstate EXCEPT ![o] = state]
  /\ jtab' = [jtab EXCEPT ![o] = target]

\* The request does not reach the agent: it is not running, or has just died.
Unreachable(r) ==
  /\ rpc[r] \in {"openSent", "getSent"}
  /\ Reply(r, "error")
  /\ UNCHANGED <<workerVars, mu, journal, browserVars, restarts>>

\* Fault: a.mu is not taken.
LockNothing(r) ==
  /\ rpc[r] \in {"openSent", "getSent"}
  /\ mu' = r
  /\ Goto(r, IF rpc[r] = "openSent" THEN "load" ELSE "look")
  /\ UNCHANGED <<workerVars, journal, browserVars, restarts>>

Lock(r) ==
  /\ rpc[r] \in {"openSent", "getSent"}
  /\ mu = NoReq
  /\ mu' = r
  /\ Goto(r, IF rpc[r] = "openSent" THEN "load" ELSE "look")
  /\ UNCHANGED <<workerVars, journal, browserVars, restarts>>

\* Fault: a record that says PREPARED is taken for none.
LoadUnlessPrepared(r) ==
  /\ rpc[r] = "load"
  /\ \/ /\ jstate[rop[r]] # "SUCCEEDED" /\ Goto(r, "prepare") /\ UNCHANGED mu
     \/ /\ jstate[rop[r]] = "SUCCEEDED" /\ Goto(r, "recover") /\ UNCHANGED mu
     \/ Answer(r, "error")
  /\ UNCHANGED <<workerVars, journal, browserVars, restarts>>

\* open: load; an error other than a missing file is answered.  (The record's
\* address always is the row's, so the conflict cannot happen.)
Load(r) ==
  /\ rpc[r] = "load"
  /\ \/ jstate[rop[r]] = "none" /\ Goto(r, "prepare") /\ UNCHANGED mu
     \/ jstate[rop[r]] # "none" /\ Goto(r, "recover") /\ UNCHANGED mu
     \/ Answer(r, "error")
  /\ UNCHANGED <<workerVars, journal, browserVars, restarts>>

\* operation: load; any error is answered as not found.
Look(r) ==
  /\ rpc[r] = "look"
  /\ \/ jstate[rop[r]] # "none" /\ Goto(r, "recover") /\ UNCHANGED mu
     \/ Answer(r, "error")
  /\ UNCHANGED <<workerVars, journal, browserVars, restarts>>

\* Fault: a record with a target is enough for success.
RecoverHopeful(r) ==
  /\ rpc[r] = "recover"
  /\ \/ /\ jstate[rop[r]] = "SUCCEEDED" \/ jtab[rop[r]] # NoTab
        /\ Answer(r, "ok") /\ UNCHANGED journal
     \/ /\ jstate[rop[r]] # "SUCCEEDED"
        /\ Answer(r, "unknown") /\ UNCHANGED journal
  /\ UNCHANGED <<workerVars, browserVars, restarts>>

\* recover: a tab with the record's target at the address proves success; the
\* error of its save is ignored.  Else, or without a list of tabs: unknown.
Recover(r) ==
  /\ rpc[r] = "recover"
  /\ \/ /\ jstate[rop[r]] = "SUCCEEDED"
        /\ Answer(r, "ok") /\ UNCHANGED journal
     \/ /\ jstate[rop[r]] # "SUCCEEDED" /\ jtab[rop[r]] # NoTab
        /\ at[jtab[rop[r]]] = "address"
        /\ Answer(r, "ok")
        /\ Save(rop[r], "SUCCEEDED", jtab[rop[r]]) \/ UNCHANGED journal
     \/ /\ jstate[rop[r]] # "SUCCEEDED"
        /\ Answer(r, "unknown") /\ UNCHANGED journal
  /\ UNCHANGED <<workerVars, browserVars, restarts>>

\* Fault: the record is written only once the tab is known.
PrepareNothing(r) ==
  /\ rpc[r] = "prepare"
  /\ \/ Goto(r, "create") /\ UNCHANGED <<journal, mu>>
     \/ Answer(r, "error") /\ UNCHANGED journal
  /\ UNCHANGED <<workerVars, browserVars, restarts>>

Prepare(r) ==
  /\ rpc[r] = "prepare"
  /\ \/ Save(rop[r], "PREPARED", NoTab) /\ Goto(r, "create") /\ UNCHANGED mu
     \/ Answer(r, "error") /\ UNCHANGED journal
  /\ UNCHANGED <<workerVars, browserVars, restarts>>

\* Target.createTarget about:blank#cb-<id>; its answer may be lost.
Create(r) ==
  /\ rpc[r] = "create"
  /\ \/ \E t \in Tabs :
          /\ IsNewTab(t)
          /\ at' = [at EXCEPT ![t] = "elsewhere"]
          /\ tabOp' = [tabOp EXCEPT ![t] = rop[r]]
          /\ \/ /\ rpc' = [rpc EXCEPT ![r] = "saveTarget"]
                /\ rtab' = [rtab EXCEPT ![r] = t]
                /\ UNCHANGED <<rop, owner, mu>>
             \/ Answer(r, "error")
     \/ Answer(r, "error") /\ UNCHANGED <<at, tabOp>>
  /\ UNCHANGED <<workerVars, journal, inbox, navs, reached, refused, restarts>>

SaveTarget(r) ==
  /\ rpc[r] = "saveTarget"
  /\ \/ Save(rop[r], "PREPARED", rtab[r]) /\ Goto(r, "find") /\ UNCHANGED mu
     \/ Answer(r, "error") /\ UNCHANGED journal
  /\ UNCHANGED <<workerVars, browserVars, restarts>>

\* /json/list must show the tab.
Find(r) ==
  /\ rpc[r] = "find"
  /\ \/ at[rtab[r]] # "closed" /\ Goto(r, "navigate") /\ UNCHANGED mu
     \/ Answer(r, "error")
  /\ UNCHANGED <<workerVars, journal, browserVars, restarts>>

\* Page.navigate is sent, or cannot be.
Navigate(r) ==
  /\ rpc[r] = "navigate"
  /\ \/ inbox' = inbox \cup {rtab[r]} /\ Goto(r, "navigating") /\ UNCHANGED mu
     \/ Answer(r, "error") /\ UNCHANGED inbox
  /\ UNCHANGED <<workerVars, journal, at, tabOp, navs, reached, refused, restarts>>

\* Fault: the answer of Chrome is not waited for.
NavigateUnanswered(r) ==
  /\ rpc[r] = "navigating"
  /\ Goto(r, "saveDone") /\ UNCHANGED mu
  /\ UNCHANGED <<workerVars, journal, browserVars, restarts>>

\* Chrome has answered, be it with an errorText: call looks at nothing but a
\* protocol error.  Or an error, or 5 s, or the client's end come first.
NavigateEnds(r) ==
  /\ rpc[r] = "navigating"
  /\ \/ /\ rtab[r] \notin inbox /\ (navs[rop[r]] > 0 \/ rop[r] \in refused)
        /\ Goto(r, "saveDone") /\ UNCHANGED mu
     \/ Answer(r, "error")
  /\ UNCHANGED <<workerVars, journal, browserVars, restarts>>

\* Fault: the last record is written without its target.
SaveDoneBare(r) ==
  /\ rpc[r] = "saveDone"
  /\ \/ Save(rop[r], "SUCCEEDED", NoTab) /\ Answer(r, "ok")
     \/ Answer(r, "error") /\ UNCHANGED journal
  /\ UNCHANGED <<workerVars, browserVars, restarts>>

\* activateTarget's error is ignored.
SaveDone(r) ==
  /\ rpc[r] = "saveDone"
  /\ \/ Save(rop[r], "SUCCEEDED", rtab[r]) /\ Answer(r, "ok")
     \/ Answer(r, "error") /\ UNCHANGED journal
  /\ UNCHANGED <<workerVars, browserVars, restarts>>

--------------------------------------------------------------------------------
(***************************************************************************)
(* Chrome, its user, and the container                                     *)
(***************************************************************************)
\* Chrome navigates the tab, or refuses to (a download, a blocked address) and
\* leaves it where it is; a tab that is closed cannot answer.
ChromeNavigates(t) ==
  LET o == tabOp[t] IN
  /\ t \in inbox
  /\ inbox' = inbox \ {t}
  /\ \/ /\ at[t] = "closed"
        /\ UNCHANGED <<at, navs, reached, refused>>
     \/ /\ at[t] # "closed"
        /\ at' = [at EXCEPT ![t] = "address"]
        /\ navs' = [navs EXCEPT ![o] = @ + 1]
        /\ reached' = reached \cup {o}
        /\ UNCHANGED refused
     \/ /\ at[t] # "closed"
        /\ refused' = refused \cup {o}
        /\ UNCHANGED <<at, navs, reached>>
  /\ UNCHANGED <<workerVars, reqVars, mu, journal, tabOp, restarts>>

UserActs(t) ==
  /\ at[t] \notin {"unborn", "closed"}
  /\ \E place \in {"address", "elsewhere", "closed"} :
       /\ at' = [at EXCEPT ![t] = place]
       /\ reached' = IF place = "address" THEN reached \cup {tabOp[t]} ELSE reached
  /\ UNCHANGED <<workerVars, reqVars, mu, journal, tabOp, inbox, navs, refused, restarts>>

\* The container ends (with the agent or with the display) and starts again:
\* the handlers are gone, and Chrome's new tabs have new ids.
Restart ==
  /\ restarts < MaxRestarts
  /\ restarts' = restarts + 1
  /\ at' = [t \in Tabs |-> IF at[t] = "unborn" THEN "unborn" ELSE "closed"]
  /\ inbox' = {}
  /\ mu' = NoReq
  /\ IF mu = NoReq THEN UNCHANGED reqVars ELSE Reply(mu, "error")
  /\ UNCHANGED <<workerVars, journal, tabOp, navs, reached, refused>>

--------------------------------------------------------------------------------
AgentStep(r) ==
  \/ Unreachable(r) \/ Lock(r) \/ Load(r) \/ Look(r) \/ Recover(r) \/ Prepare(r)
  \/ Create(r) \/ SaveTarget(r) \/ Find(r) \/ Navigate(r) \/ NavigateEnds(r) \/ SaveDone(r)

WorkerStep(w) ==
  \/ \E o \in Ops, r \in Reqs : PostOpen(w, o, r)
  \/ \E r \in Reqs : EndPost(w, r) \/ EndCheck(w, r)
  \/ Finish(w)

Next ==
  \/ \E w \in Workers : WorkerStep(w) \/ WorkerCrash(w)
  \/ \E w \in Workers, r \in Reqs : GiveUp(w, r) \/ \E q \in Reqs : AskInstead(w, r, q)
  \/ \E r \in Reqs : AgentStep(r)
  \/ \E t \in Tabs : ChromeNavigates(t) \/ UserActs(t)
  \/ Restart

Spec == Init /\ [][Next]_vars

\* A worker goes on while its process lives; a handler's every step ends: each
\* call to Chrome has its deadline.  Nothing obliges Chrome or the user.
FairSpec == /\ Spec
            /\ \A w \in Workers : WF_vars(WorkerStep(w))
            /\ \A r \in Reqs : WF_vars(AgentStep(r))

--------------------------------------------------------------------------------
(***************************************************************************)
(* Properties                                                              *)
(***************************************************************************)
WorkersTyped ==
  /\ row \in [Ops -> {"RUNNING", "SUCCEEDED", "UNKNOWN"}]
  /\ wpc \in [Workers -> {"idle", "post", "check", "finish"}]
  /\ wop \in [Workers -> Ops \cup {NoOp}]
  /\ wout \in [Workers -> {"none", "SUCCEEDED", "UNKNOWN"}]
  /\ crashes \in Nat
  /\ \A w \in Workers : /\ wpc[w] # "idle" => wop[w] \in Ops
                        /\ wpc[w] = "finish" => wout[w] # "none"

RequestsTyped ==
  /\ rpc \in [Reqs -> {"free", "openSent", "getSent"} \cup Critical \cup Replies]
  /\ rop \in [Reqs -> Ops \cup {NoOp}]
  /\ rtab \in [Reqs -> Tabs \cup {NoTab}]
  /\ owner \in [Reqs -> Workers \cup {NoWorker}]
  /\ mu \in Reqs \cup {NoReq}
  /\ \A r \in Reqs : /\ rpc[r] # "free" => rop[r] \in Ops
                     /\ rpc[r] \in WithTab => rtab[r] \in Tabs

BrowserTyped ==
  /\ jstate \in [Ops -> {"none", "PREPARED", "SUCCEEDED"}]
  /\ jtab \in [Ops -> Tabs \cup {NoTab}]
  /\ at \in [Tabs -> {"unborn", "elsewhere", "address", "closed"}]
  /\ tabOp \in [Tabs -> Ops \cup {NoOp}]
  /\ inbox \subseteq Tabs
  /\ navs \in [Ops -> Nat]
  /\ reached \subseteq Ops
  /\ refused \subseteq Ops
  /\ restarts \in Nat

\* One handler at a time is between its load and its answer.
OneHandler == \A r \in Reqs : rpc[r] \in Critical <=> mu = r

\* Values have their types, and a handler that has begun and not answered
\* holds a.mu (agent.go:247, 318).
JournalTypeOK == WorkersTyped /\ RequestsTyped /\ BrowserTyped /\ OneHandler

\* However often an operation is executed, by however many processes, and
\* wherever a crash, a restart or a late answer comes in between, the agent
\* opens at most one tab for it and navigates it at most once
\* (docs/architecture.md:35).
OpensOnce ==
  /\ \A o \in Ops : navs[o] <= 1
  /\ \A t, s \in Tabs : tabOp[t] = tabOp[s] /\ tabOp[t] # NoOp => t = s

\* An outcome the agent has recorded is what it keeps answering: a record that
\* says SUCCEEDED never changes, and no record goes back to none or to another
\* target.
RecordsKeep ==
  [][\A o \in Ops :
       /\ jstate[o] = "SUCCEEDED" => jstate'[o] = jstate[o]
       /\ jstate[o] # "none" => jstate'[o] # "none"
       /\ jtab[o] # NoTab => jtab'[o] = jtab[o]]_vars

\* No success, recorded or reported, without word of Chrome about this very
\* operation: its tab has been at its address, or Chrome has answered its one
\* navigation with a refusal, which call takes for success (agent.go:296-302).
SuccessWasAnswered ==
  \A o \in Ops :
    row[o] = "SUCCEEDED" \/ jstate[o] = "SUCCEEDED" => o \in reached \cup refused

\* The worker, the agent and Chrome together keep the promise of OpenOnce.
OnceOnly == INSTANCE OpenOnce
ImplementsOpenOnce == OnceOnly!OnceSpec

\* No operation waits for ever: not for a.mu, nor for an answer of Chrome, nor
\* for a container that has died.
OpensEnd == \A o \in Ops : row[o] = "RUNNING" ~> row[o] # "RUNNING"
================================================================================
