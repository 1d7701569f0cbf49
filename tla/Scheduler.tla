------------------------------ MODULE Scheduler -------------------------------
(***************************************************************************)
(* The API's worker (internal/api/worker.go) with the commands it executes *)
(* (the rows of table operations), the sessions it keeps and the runner it *)
(* calls (module ContainerService, which module Runner implements).        *)
(*                                                                         *)
(* One process at a time holds the PostgreSQL advisory lock and runs, once *)
(* a second: one operation (next), the idle sessions (idle), and the       *)
(* comparison of sessions with containers (reconcile).  Each SQL statement *)
(* and each runner call is a step of its own; the process may die between  *)
(* any two, and its runner request is then abandoned half way.             *)
(***************************************************************************)
EXTENDS Naturals, FiniteSets

CONSTANTS
  Users, Max, Faults,      \* of ContainerService
  Ops,          \* operations that are ever submitted: (user, Idempotency-Key)
  Viewers,      \* users who ever open a view stream
  Procs,        \* API processes
  NoProc,       \* nobody holds the advisory lock
  LockBreaks,   \* TRUE: the connection that holds the lock may break
  DbFaults,     \* TRUE: a statement of the worker may fail, until it is calm
  Stabilizes    \* TRUE: from some moment on the surroundings are calm

ASSUME NoProcAssumption == NoProc \notin Procs
ASSUME NoOpAssumption == "none" \notin Ops     \* "none" stands for no operation
ASSUME SwitchesAssumption == {LockBreaks, DbFaults, Stabilizes} \subseteq BOOLEAN

VARIABLES
  ops,      \* ops[o]: row of operations: state, user, kind, at (created_at)
  clock,    \* the number of created_at stamps given so far
  disabled, \* users.disabled
  closing,  \* administrators' disable requests that have yet to add a stop
  closedBy, \* history: closedBy[u] = the stop that u's disable has added
  sess,     \* sessions.state
  stale,    \* history: users whose sess is not what setState was last to write
  viewing,  \* users with a registered view stream
  fresh,    \* users with last_connected_at less than 10 minutes ago
  lock,     \* holder of the advisory lock
  w,        \* w[p]: the worker of process p: its position and its locals
  calm,     \* the surroundings have become calm
  ahead,    \* history: ahead[o] = operations accepted before o was created
  up, late, strays, call    \* of ContainerService

\* A worker has at most one request at the runner.
Runner == INSTANCE ContainerService WITH Reqs <- Procs

runnerVars == <<up, late, strays, call>>
opVars == <<ops, clock, ahead>>
userVars == <<disabled, closing, closedBy, viewing, fresh>>
sessVars == <<sess, stale>>
vars == <<opVars, userVars, sessVars, lock, w, calm, runnerVars>>

SessionStates == {"STOPPED", "STARTING", "RUNNING", "STOPPING", "FAILED"}
Ending == {"STOPPING", "STOPPED", "FAILED"}
Active == {o \in Ops : ops[o].state \in {"QUEUED", "RUNNING"}}
Finished == {o \in Ops : ops[o].state \in {"SUCCEEDED", "FAILED", "UNKNOWN"}}

Down == [pc |-> "down", job |-> "none", op |-> "none", user |-> "none",
         out |-> "none", fin |-> "none", todo |-> {}, actual |-> {}]

Goto(p, pc) == w' = [w EXCEPT ![p].pc = pc]

\* A statement of the worker may fail now.
Fails == DbFaults /\ ~calm

\* The job is over: its locals are gone.
Leave(p, pc) == w' = [w EXCEPT ![p] = [Down EXCEPT !.pc = pc]]

Init ==
  /\ ops = [o \in Ops |-> [state |-> "none"]]
  /\ clock = 0
  /\ disabled = [u \in Users |-> FALSE]
  /\ closing = {}
  /\ closedBy = [u \in Users |-> "none"]
  /\ sess = [u \in Users |-> "STOPPED"]
  /\ stale = {}
  /\ viewing = {}
  /\ fresh = Users
  /\ lock = NoProc
  /\ w = [p \in Procs |-> Down]
  /\ calm = FALSE
  /\ ahead = [o \in Ops |-> {}]
  /\ Runner!ServiceInit

-------------------------------------------------------------------------------
(***************************************************************************)
(* HTTP handlers: action and adminAction.  created_at is the time at which *)
(* the INSERT starts; the row is seen when it commits.  A retry with the   *)
(* same key finds the row (ON CONFLICT DO NOTHING) and changes nothing.    *)
(***************************************************************************)
Stamp(o, u, kind) ==
  /\ ops[o].state = "none"
  /\ clock' = clock + 1
  /\ ops' = [ops EXCEPT ![o] = [state |-> "inserting", user |-> u, kind |-> kind,
                                at |-> clock']]
  /\ ahead' = [ahead EXCEPT ![o] = Active \cup Finished]

\* The request may have passed protect before its user was disabled.
Submit(o, u, kind) ==
  /\ Stamp(o, u, kind)
  /\ UNCHANGED <<userVars, sessVars, lock, w, calm, runnerVars>>

Accept(o) ==
  /\ ops[o].state = "inserting"
  /\ ops' = [ops EXCEPT ![o].state = "QUEUED"]
  /\ UNCHANGED <<clock, ahead, userVars, sessVars, lock, w, calm, runnerVars>>

\* adminAction "disable": the flag and the revoke, then a stop operation.
\* At most one disable request per user at a time.
Disable(u) ==
  /\ u \notin closing
  /\ disabled' = [disabled EXCEPT ![u] = TRUE]
  /\ viewing' = viewing \ {u}
  /\ closing' = closing \cup {u}
  /\ UNCHANGED <<opVars, closedBy, fresh, sessVars, lock, w, calm, runnerVars>>

DisableStops(o, u) ==
  /\ u \in closing
  /\ closing' = closing \ {u}
  /\ Stamp(o, u, "stop")
  /\ closedBy' = [closedBy EXCEPT ![u] = IF disabled[u] THEN o ELSE @]
  /\ UNCHANGED <<disabled, viewing, fresh, sessVars, lock, w, calm, runnerVars>>

Enable(u) ==
  /\ disabled[u]
  /\ disabled' = [disabled EXCEPT ![u] = FALSE]
  /\ closedBy' = [closedBy EXCEPT ![u] = "none"]
  /\ UNCHANGED <<opVars, closing, viewing, fresh, sessVars, lock, w, calm, runnerVars>>

-------------------------------------------------------------------------------
(***************************************************************************)
(* View streams (their opening and closing in detail: module ControlLease) *)
(***************************************************************************)
View(u) ==
  /\ u \in Viewers \ viewing
  /\ sess[u] = "RUNNING"
  /\ ~disabled[u]
  /\ viewing' = viewing \cup {u}
  /\ UNCHANGED <<opVars, disabled, closing, closedBy, fresh, sessVars, lock, w, calm, runnerVars>>

ViewEnds(u) ==
  /\ u \in viewing
  /\ viewing' = viewing \ {u}
  /\ UNCHANGED <<opVars, disabled, closing, closedBy, fresh, sessVars, lock, w, calm, runnerVars>>

\* trackConnections: a view stream with a right renews last_connected_at.
Track(u) ==
  /\ u \in viewing
  /\ IF sess[u] = "RUNNING" /\ ~disabled[u]
     THEN fresh' = fresh \cup {u} /\ UNCHANGED viewing
     ELSE viewing' = viewing \ {u} /\ UNCHANGED fresh
  /\ UNCHANGED <<opVars, disabled, closing, closedBy, sessVars, lock, w, calm, runnerVars>>

TenMinutesPass(u) ==
  /\ u \in fresh \ viewing
  /\ fresh' = fresh \ {u}
  /\ UNCHANGED <<opVars, disabled, closing, closedBy, viewing, sessVars, lock, w, calm, runnerVars>>

-------------------------------------------------------------------------------
(***************************************************************************)
(* Work                                                                    *)
(***************************************************************************)
\* pg_try_advisory_lock once, at the start of the process; then reconcile.
Boot(p) ==
  /\ w[p].pc = "down"
  /\ IF lock = NoProc
     THEN lock' = p /\ w' = [w EXCEPT ![p] = [Down EXCEPT !.pc = "list"]]
     ELSE UNCHANGED lock /\ Goto(p, "unlocked")
  /\ UNCHANGED <<opVars, userVars, sessVars, calm, runnerVars>>

\* Once a second: Ping the connection that holds the lock.
Tick(p) ==
  /\ w[p].pc = "tick"
  /\ Goto(p, IF lock = p THEN "pick" ELSE "unlocked")
  /\ UNCHANGED <<opVars, userVars, sessVars, lock, calm, runnerVars>>

LoseLock(p) ==
  /\ LockBreaks /\ lock = p
  /\ lock' = NoProc
  /\ UNCHANGED <<opVars, userVars, sessVars, w, calm, runnerVars>>

\* The process dies: its streams, its requests and its lock go with it.
Crash(p) ==
  /\ ~calm
  /\ w[p].pc # "down"
  /\ w' = [w EXCEPT ![p] = Down]
  /\ lock' = IF lock = p THEN NoProc ELSE lock
  /\ ops' = [o \in Ops |-> IF ops[o].state = "inserting" THEN [state |-> "lost"] ELSE ops[o]]
  /\ closing' = {}
  /\ viewing' = {}
  /\ Runner!Leave(p)
  /\ UNCHANGED <<clock, ahead, disabled, closedBy, fresh, sessVars, calm>>

-------------------------------------------------------------------------------
(***************************************************************************)
(* Steps that several jobs share                                           *)
(***************************************************************************)
\* setState; what it does to leases and streams is in module ControlLease.
\* The error of the UPDATE is ignored: the job goes on.
SetState(u, s) ==
  /\ \/ sess' = [sess EXCEPT ![u] = s] /\ stale' = stale \ {u}
     \/ Fails /\ sess[u] # s /\ UNCHANGED sess /\ stale' = stale \cup {u}
  /\ viewing' = IF s \in Ending THEN viewing \ {u} ELSE viewing

Call(p, kind, pc) ==
  /\ Runner!Ask(p, kind, w[p].user)
  /\ Goto(p, pc)
  /\ UNCHANGED <<opVars, userVars, sessVars, lock, calm>>

\* The runner answers, or the client's 90 s (or the operation's 100 s) pass.
CallEnds(p, ok) ==
  /\ Runner!Leave(p)
  /\ IF Runner!Is(p, "replied") THEN ok = (call[p].reply # "ERROR") ELSE ~calm /\ ~ok

\* POST /containers/<user>/stop, for an operation, an idle session or reconcile.
StopCall(p) == w[p].pc = "stop" /\ Call(p, "stop", "stopping")

\* Fault: an error of the runner counts as a stop.
StopEndsIgnoringErrors(p) ==
  /\ w[p].pc = "stopping"
  /\ \E ok \in BOOLEAN : CallEnds(p, ok)
  /\ w' = [w EXCEPT ![p].pc = "outcome", ![p].out = "STOPPED", ![p].fin = "SUCCEEDED",
                    ![p].actual = @ \ {w[p].user}]
  /\ UNCHANGED <<opVars, userVars, sessVars, lock, calm>>

StopEnds(p) ==
  /\ w[p].pc = "stopping"
  /\ \E ok \in BOOLEAN :
       /\ CallEnds(p, ok)
       /\ w' = [w EXCEPT
            ![p].pc = IF ok \/ w[p].job # "reconcile" THEN "outcome" ELSE "unwanted",
            ![p].out = IF ok THEN "STOPPED" ELSE "FAILED",
            ![p].fin = IF ok THEN "SUCCEEDED" ELSE "FAILED",
            ![p].actual = IF ok THEN @ \ {w[p].user} ELSE @]
  /\ UNCHANGED <<opVars, userVars, sessVars, lock, calm>>

\* Fault: the operation is finished before setState has set the session.
OutcomeFinishesFirst(p) ==
  /\ w[p].pc = "outcome"
  /\ w[p].job = "op" /\ w[p].fin # "open"
  /\ ops' = [ops EXCEPT ![w[p].op].state = w[p].fin]
  /\ w' = [w EXCEPT ![p].job = "idle"]
  /\ UNCHANGED <<clock, ahead, userVars, sessVars, lock, calm, runnerVars>>

\* Fault: an open operation is finished without the agent's answer.
OutcomeSkipsAgent(p) ==
  /\ w[p].pc = "outcome"
  /\ w[p].job = "op"
  /\ SetState(w[p].user, w[p].out)
  /\ Goto(p, "finish")
  /\ UNCHANGED <<opVars, disabled, closing, closedBy, fresh, lock, calm, runnerVars>>

\* The setState that follows a call.
Outcome(p) ==
  /\ w[p].pc = "outcome"
  /\ SetState(w[p].user, w[p].out)
  /\ Goto(p, CASE w[p].job = "idle" -> "idleNext"
               [] w[p].job = "reconcile" -> "unwanted"
               [] OTHER -> IF w[p].fin = "open" THEN "agent" ELSE "finish")
  /\ UNCHANGED <<opVars, disabled, closing, closedBy, fresh, lock, calm, runnerVars>>

-------------------------------------------------------------------------------
(***************************************************************************)
(* next: the oldest operation that is QUEUED or RUNNING                    *)
(***************************************************************************)
\* Fault: the query has lost its ORDER BY.
PickAny(p) ==
  /\ w[p].pc = "pick"
  /\ \/ Active = {} /\ Goto(p, "idle")
     \/ \E o \in Active :
          w' = [w EXCEPT ![p] = [Down EXCEPT !.pc = "decide", !.job = "op",
                                 !.op = o, !.user = ops[o].user]]
  /\ UNCHANGED <<opVars, userVars, sessVars, lock, calm, runnerVars>>

\* Fault: operations left RUNNING by a dead process are not picked again.
PickQueued(p) ==
  /\ w[p].pc = "pick"
  /\ \/ {o \in Active : ops[o].state = "QUEUED"} = {} /\ Goto(p, "idle")
     \/ \E o \in {x \in Active : ops[x].state = "QUEUED"} :
          w' = [w EXCEPT ![p] = [Down EXCEPT !.pc = "decide", !.job = "op",
                                 !.op = o, !.user = ops[o].user]]
  /\ UNCHANGED <<opVars, userVars, sessVars, lock, calm, runnerVars>>

Pick(p) ==
  /\ w[p].pc = "pick"
  /\ \/ Active = {} /\ Goto(p, "idle")
     \/ \E o \in Active :
          /\ \A x \in Active : ops[o].at <= ops[x].at
          /\ w' = [w EXCEPT ![p] = [Down EXCEPT !.pc = "decide", !.job = "op",
                                    !.op = o, !.user = ops[o].user]]
  /\ UNCHANGED <<opVars, userVars, sessVars, lock, calm, runnerVars>>

\* Fault: the disabled flag is not looked at.
DecideAlways(p) ==
  /\ w[p].pc = "decide"
  /\ w' = [w EXCEPT ![p].pc = "mark"]
  /\ UNCHANGED <<opVars, userVars, sessVars, lock, calm, runnerVars>>

Decide(p) ==
  /\ w[p].pc = "decide"
  /\ IF disabled[w[p].user] /\ ops[w[p].op].kind # "stop"
     THEN w' = [w EXCEPT ![p].pc = "finish", ![p].fin = "FAILED"]
     ELSE w' = [w EXCEPT ![p].pc = "mark"]
  /\ UNCHANGED <<opVars, userVars, sessVars, lock, calm, runnerVars>>

\* The UPDATE is by id alone: it does not look at the state of the row.  If it
\* fails, next returns (QueryFails).
Mark(p) ==
  /\ w[p].pc = "mark"
  /\ ops' = [ops EXCEPT ![w[p].op].state = "RUNNING"]
  /\ Goto(p, "prepare")
  /\ UNCHANGED <<clock, ahead, userVars, sessVars, lock, calm, runnerVars>>

\* setState STOPPING; or setState STARTING unless the session is RUNNING.
Prepare(p) ==
  LET u == w[p].user
      stop == w[p].job # "op" \/ ops[w[p].op].kind = "stop" IN
  /\ w[p].pc = "prepare"
  /\ IF stop \/ sess[u] # "RUNNING"
     THEN SetState(u, IF stop THEN "STOPPING" ELSE "STARTING")
     ELSE UNCHANGED <<sessVars, viewing>>
  /\ Goto(p, IF stop THEN "stop" ELSE "start")
  /\ UNCHANGED <<opVars, disabled, closing, closedBy, fresh, lock, calm, runnerVars>>

StartCall(p) == w[p].pc = "start" /\ Call(p, "start", "starting")

\* A start that was needed also renews last_connected_at; an error is ignored.
StartEnds(p) ==
  LET u == w[p].user IN
  /\ w[p].pc = "starting"
  /\ \E ok \in BOOLEAN :
       /\ CallEnds(p, ok)
       /\ w' = [w EXCEPT
            ![p].pc = "outcome",
            ![p].out = IF ok THEN "RUNNING" ELSE "FAILED",
            ![p].fin = IF ~ok THEN "FAILED"
                       ELSE IF ops[w[p].op].kind = "open" THEN "open" ELSE "SUCCEEDED"]
       /\ \/ fresh' = IF ok /\ sess[u] # "RUNNING" THEN fresh \cup {u} ELSE fresh
          \/ Fails /\ UNCHANGED fresh
  /\ UNCHANGED <<opVars, disabled, closing, closedBy, viewing, sessVars, lock, calm>>

\* The agent opens the page, or fails, or its answer is lost (module
\* OpenJournal); with no container running nobody answers.
AgentOpen(p) ==
  /\ w[p].pc = "agent"
  /\ \E a \in {"SUCCEEDED", "UNKNOWN"} :
       /\ a = "SUCCEEDED" => w[p].user \in up
       /\ w' = [w EXCEPT ![p].pc = "finish", ![p].fin = a]
  /\ UNCHANGED <<opVars, userVars, sessVars, lock, calm, runnerVars>>

Finish(p) ==
  /\ w[p].pc = "finish"
  /\ \/ ops' = [ops EXCEPT ![w[p].op].state = w[p].fin]
     \/ Fails /\ UNCHANGED ops
  /\ Leave(p, "idle")
  /\ UNCHANGED <<clock, ahead, userVars, sessVars, lock, calm, runnerVars>>

-------------------------------------------------------------------------------
(***************************************************************************)
(* idle: the query, then each session of its answer                        *)
(***************************************************************************)
\* Fault: the comparison of last_connected_at is the wrong way round.
IdleQueryInverted(p) ==
  /\ w[p].pc = "idle"
  /\ w' = [w EXCEPT ![p] = [Down EXCEPT !.pc = "idleNext", !.job = "idle",
             !.todo = {u \in Users : sess[u] = "RUNNING" /\ u \in fresh}]]
  /\ UNCHANGED <<opVars, userVars, sessVars, lock, calm, runnerVars>>

IdleQuery(p) ==
  /\ w[p].pc = "idle"
  /\ w' = [w EXCEPT ![p] = [Down EXCEPT !.pc = "idleNext", !.job = "idle",
             !.todo = {u \in Users : sess[u] = "RUNNING" /\ u \notin fresh}]]
  /\ UNCHANGED <<opVars, userVars, sessVars, lock, calm, runnerVars>>

\* Skip a session with a view stream; stop another one.
IdleNext(p) ==
  /\ w[p].pc = "idleNext"
  /\ \/ w[p].todo = {} /\ Leave(p, "list")
     \/ \E u \in w[p].todo :
          w' = [w EXCEPT ![p].todo = @ \ {u}, ![p].user = u,
                         ![p].pc = IF u \in viewing THEN "idleNext" ELSE "prepare"]
  /\ UNCHANGED <<opVars, userVars, sessVars, lock, calm, runnerVars>>

-------------------------------------------------------------------------------
(***************************************************************************)
(* reconcile: what runs without a session, then what should run and does   *)
(* not.  The containers are read once, at the start.                       *)
(***************************************************************************)
List(p) ==
  /\ w[p].pc = "list"
  /\ \/ ~calm /\ Leave(p, "tick")
     \/ \E seen \in Runner!Seen :
          w' = [w EXCEPT ![p] = [Down EXCEPT !.pc = "unwanted", !.job = "reconcile",
                                 !.todo = seen, !.actual = seen]]
  /\ UNCHANGED <<opVars, userVars, sessVars, lock, calm, runnerVars>>

\* Fault: a failed session's container is left running.
UnwantedOnlyStopped(p) ==
  /\ w[p].pc = "unwanted"
  /\ w[p].todo # {}
  /\ \E u \in w[p].todo :
       w' = [w EXCEPT ![p].todo = @ \ {u}, ![p].user = u,
                      ![p].pc = IF sess[u] = "STOPPED" THEN "stop" ELSE "unwanted"]
  /\ UNCHANGED <<opVars, userVars, sessVars, lock, calm, runnerVars>>

Unwanted(p) ==
  /\ w[p].pc = "unwanted"
  /\ w[p].todo # {}
  /\ \E u \in w[p].todo :
       w' = [w EXCEPT ![p].todo = @ \ {u}, ![p].user = u,
                      ![p].pc = IF sess[u] \in Ending THEN "stop" ELSE "unwanted"]
  /\ viewing' = viewing \ {u \in Users : w'[p].pc = "stop" /\ u = w'[p].user}
  /\ UNCHANGED <<opVars, disabled, closing, closedBy, fresh, sessVars, lock, calm, runnerVars>>

\* SELECT id,state of the sessions that should have a container.
MissingQuery(p) ==
  /\ w[p].pc = "unwanted" /\ w[p].todo = {}
  /\ w' = [w EXCEPT ![p].pc = "missing",
             ![p].todo = {[user |-> u,
                           to |-> IF sess[u] = "STOPPING" THEN "STOPPED" ELSE "FAILED"] :
                          u \in {v \in Users \ w[p].actual :
                                   sess[v] \in {"RUNNING", "STARTING", "STOPPING"}}}]
  /\ UNCHANGED <<opVars, userVars, sessVars, lock, calm, runnerVars>>

Missing(p) ==
  /\ w[p].pc = "missing"
  /\ IF w[p].todo = {}
     THEN Leave(p, "tick") /\ UNCHANGED <<sessVars, viewing>>
     ELSE \E e \in w[p].todo : /\ SetState(e.user, e.to)
                               /\ w' = [w EXCEPT ![p].todo = @ \ {e}]
  /\ UNCHANGED <<opVars, disabled, closing, closedBy, fresh, lock, calm, runnerVars>>

\* A statement whose error is looked at fails: next, idle or reconcile returns.
\* A command marked RUNNING stays so and is picked again.
QueryFails(p) ==
  /\ Fails
  /\ \/ /\ \/ w[p].pc \in {"pick", "decide", "mark"}
           \/ /\ w[p].pc = "prepare" /\ w[p].job = "op"
              /\ ops[w[p].op].kind # "stop"
        /\ Leave(p, "idle")
     \/ /\ w[p].pc = "idle" \/ (w[p].pc = "unwanted" /\ w[p].todo = {})
        /\ Leave(p, "tick")
  /\ UNCHANGED <<opVars, userVars, sessVars, lock, calm, runnerVars>>

-------------------------------------------------------------------------------
Work(p) ==
  \/ Boot(p) \/ Tick(p)
  \/ Pick(p) \/ Decide(p) \/ Mark(p) \/ Prepare(p) \/ StartCall(p) \/ StartEnds(p)
  \/ AgentOpen(p) \/ Finish(p)
  \/ StopCall(p) \/ StopEnds(p) \/ Outcome(p)
  \/ IdleQuery(p) \/ IdleNext(p)
  \/ List(p) \/ Unwanted(p) \/ MissingQuery(p) \/ Missing(p)
  \/ QueryFails(p)

\* From now on no process dies, no call times out, the database answers and
\* docker stop works.
Calm ==
  /\ Stabilizes /\ ~calm
  /\ calm' = TRUE
  /\ UNCHANGED <<opVars, userVars, sessVars, lock, w, runnerVars>>

\* The runner's own steps, and what happens to containers.
Outside == UNCHANGED <<opVars, userVars, sessVars, lock, w, calm>>

RunnerLaunches(p) == Runner!Launch(p) /\ Outside
RunnerReplies(p) ==
  /\ Runner!Is(p, "pending")
  /\ \E a \in {"RUNNING", "STOPPED", "ERROR"} :
       /\ calm /\ a = "ERROR" => call[p].kind = "start"
       /\ Runner!Reply(p, a)
  /\ Outside
ContainerStops(u) == Runner!Stop(u) /\ Outside
StopTakesEffect(p) ==
  /\ Runner!Is(p, "pending") /\ call[p].kind = "stop"
  /\ ContainerStops(call[p].user)
ContainerForgotten(u) == Runner!Forget(u) /\ Outside
ContainerComesToLife(u) == ~calm /\ Runner!ComeToLife(u) /\ Outside

Next ==
  \/ \E o \in Ops : \/ \E u \in Users, k \in {"start", "open", "stop"} : Submit(o, u, k)
                    \/ \E u \in Users : DisableStops(o, u)
                    \/ Accept(o)
  \/ \E u \in Users : \/ Disable(u) \/ Enable(u)
                      \/ View(u) \/ ViewEnds(u) \/ Track(u) \/ TenMinutesPass(u)
                      \/ ContainerStops(u) \/ ContainerForgotten(u)
                      \/ ContainerComesToLife(u)
  \/ \E p \in Procs : \/ Work(p) \/ LoseLock(p) \/ Crash(p)
                      \/ RunnerLaunches(p) \/ RunnerReplies(p)
  \/ Calm

Spec == Init /\ [][Next]_vars

(***************************************************************************)
(* The worker's goroutine and the runner's handlers go on, a dead process  *)
(* is started again (restart: unless-stopped), time passes, an INSERT that *)
(* has begun commits, the connection tracker keeps its ticker.  Users,     *)
(* administrators and failures owe nothing.                                *)
(***************************************************************************)
Fairness ==
  /\ \A p \in Procs : /\ WF_vars(Work(p)) /\ WF_vars(RunnerReplies(p))
                       /\ WF_vars(StopTakesEffect(p))
  /\ \A o \in Ops : WF_vars(Accept(o))
  /\ \A u \in Users : WF_vars(Track(u)) /\ WF_vars(TenMinutesPass(u))

FairSpec == Spec /\ Fairness

-------------------------------------------------------------------------------
(***************************************************************************)
(* Properties                                                              *)
(***************************************************************************)
Locals ==
  [pc : {"down", "unlocked", "tick", "pick", "decide", "mark", "prepare", "start",
         "starting", "stop", "stopping", "outcome", "agent", "finish", "idle",
         "idleNext", "list", "unwanted", "missing"},
   job : {"none", "op", "idle", "reconcile"},
   op : Ops \cup {"none"},
   user : Users \cup {"none"},
   out : SessionStates \cup {"none"},
   fin : {"none", "open", "SUCCEEDED", "FAILED", "UNKNOWN"},
   todo : SUBSET (Users \cup [user : Users, to : {"STOPPED", "FAILED"}]),
   actual : SUBSET Users]

\* The values of the rows, the worker's locals and the runner's state.
TypeOK ==
  /\ \A o \in Ops :
       \/ ops[o] \in [state : {"none", "lost"}]
       \/ ops[o] \in [state : {"inserting", "QUEUED", "RUNNING", "SUCCEEDED", "FAILED", "UNKNOWN"},
                      user : Users, kind : {"start", "open", "stop"}, at : 1..clock]
  /\ clock \in Nat
  /\ disabled \in [Users -> BOOLEAN]
  /\ closing \subseteq Users
  /\ closedBy \in [Users -> Ops \cup {"none"}]
  /\ sess \in [Users -> SessionStates] /\ stale \subseteq Users
  /\ viewing \subseteq Users /\ fresh \subseteq Users
  /\ lock \in Procs \cup {NoProc}
  /\ DOMAIN w = Procs
  /\ \A p \in Procs : w[p] \in Locals
  /\ calm \in BOOLEAN
  /\ ahead \in [Ops -> SUBSET Ops]
  /\ up \subseteq Users /\ late \subseteq Users /\ strays \subseteq up
  /\ call \in [Procs -> {Runner!Free} \cup
       [at : {"pending", "replied"}, kind : {"start", "stop"}, user : Users,
        reply : {"none", "RUNNING", "STOPPED", "ERROR"}]]

\* Commands are executed in the order in which they were accepted: none is
\* touched before every command accepted before it was even created has
\* ended, through crashes, re-executions and failed updates (next, ORDER BY).
CommandsInOrder ==
  \A o \in Ops : ops[o].state \in {"RUNNING", "SUCCEEDED", "FAILED", "UNKNOWN"}
                  => ahead[o] \subseteq Finished

\* A session that says STOPPED has no container left from a served start: not
\* one abandoned by a dead API, by a timeout or by a failed stop; except while
\* the row is stale because the last UPDATE of setState failed (SessionsConverge
\* says that the worker repairs it).
StoppedHasNoContainer ==
  \A u \in Users \ stale : sess[u] = "STOPPED" => u \notin up \ strays

\* Once the stop that an administrator's disable added has ended, the session
\* is not running, unless the write that should have said so failed, and no
\* command brings it back while the user is disabled: commands accepted before,
\* during and after the disable alike.
DisableEndsSession ==
  \A u \in Users \ stale :
    disabled[u] /\ closedBy[u] \in Finished => sess[u] # "RUNNING"

\* The promise of BrowserCommands: sessions run only by command, commands end
\* once, and a success is true when it is recorded, or its write was lost.
Commands == INSTANCE BrowserCommands WITH
  on <- {u \in Users : sess[u] = "RUNNING"},
  lost <- stale,
  cmd <- [o \in Ops |->
            IF ops[o].state \in {"none", "inserting", "lost"} THEN [status |-> "none"]
            ELSE [status |-> IF ops[o].state \in {"QUEUED", "RUNNING"} THEN "pending"
                             ELSE ops[o].state,
                  user |-> ops[o].user, kind |-> ops[o].kind]]

\* Every step of the worker, the handlers and the runner keeps that promise.
ImplementsBrowserCommands == Commands!CommandsSpec

\* No process schedules any more: the holder has lost its lock connection,
\* and Work does not start again in a process that lives on.
SchedulerGone == \A p \in Procs : w[p].pc = "unlocked"

\* Every accepted operation ends once processes stop dying, executed again if
\* it was left RUNNING, unless the scheduler is gone altogether.
OperationsFinish ==
  \A o \in Ops : calm /\ o \in Active ~> o \in Finished \/ SchedulerGone

\* Session and container come to agree: a container without a session is
\* stopped, a session without a container is failed (reconcile).
Disagree(u) == \/ sess[u] = "RUNNING" /\ u \notin up
               \/ sess[u] \in Ending /\ u \in up

SessionsConverge == \A u \in Users : calm /\ Disagree(u) ~> ~Disagree(u) \/ SchedulerGone

\* docs/user-guide.md: ten minutes after the last device has left, the session
\* is stopped, that of a disabled user whose stop was lost included (idle).
IdleSessionStops ==
  LET Idle(u) == sess[u] = "RUNNING" /\ u \notin viewing \cup fresh
  IN  \A u \in Users : calm /\ Idle(u) ~> ~Idle(u) \/ SchedulerGone

-------------------------------------------------------------------------------
(***************************************************************************)
(* A statement of the documentation that the code does not keep            *)
(***************************************************************************)
\* docs/architecture.md: a scheduler that has lost its lock connection stops,
\* so that no two API instances execute one operation.  The connection is
\* looked at between jobs only.
NoDoubleExecution ==
  \A p, q \in Procs :
    p # q => ~(/\ w[p].job = "op" /\ w[q].job = "op"
               /\ w[p].op = w[q].op
               /\ {w[p].pc, w[q].pc} \subseteq {"starting", "stopping"})
===============================================================================
