---------------------------- MODULE Scheduler_proofs ---------------------------
(***************************************************************************)
(* Theorems about the worker, for every set of users, commands and API     *)
(* processes.  The types hold whatever fails.  The rest is proved while at *)
(* most one process schedules (SoleScheduler): the connection that holds   *)
(* the advisory lock does not break, or there is one process only.  With a *)
(* lock that is lost between two jobs it is false: run NoDoubleExecution.  *)
(*                                                                         *)
(* The argument, in the order of the sections:                             *)
(*   - one process works at a time, and the request at the runner is its;  *)
(*   - created_at orders the commands, so the one that is executed has     *)
(*     nothing unfinished before it (SchedulerInv);                        *)
(*   - each position of a job knows what the job has written into the      *)
(*     session, unless that write failed (SessionsKnown), and what it has  *)
(*     seen of the containers                                              *)
(*     (ContainerInv, unless `docker inspect` may fail);                   *)
(*   - a disable is followed by a stop that no start can pass (DisableInv);*)
(*   - so every step is one of BrowserCommands, or none.                   *)
(***************************************************************************)
EXTENDS Scheduler, TLAPS

\* The row of a session and what is known of its last write go together.
USE DEF sessVars

--------------------------------------------------------------------------------
(* Types, and the kinds of steps                                           *)

\* The commands whose INSERT has committed.
AcceptedOps == Active \cup Finished

\* The values of the rows of operations: they are created once.
RowsTyped ==
  /\ DOMAIN ops = Ops
  /\ \A o \in Ops :
       \/ ops[o] \in [state : {"none", "lost"}]
       \/ ops[o] \in [state : {"inserting", "QUEUED", "RUNNING", "SUCCEEDED", "FAILED", "UNKNOWN"},
                      user : Users, kind : {"start", "open", "stop"}, at : 1..clock]
  /\ clock \in Nat
  /\ ahead \in [Ops -> SUBSET Ops]

\* The values of the rows of users and sessions.
UsersTyped ==
  /\ disabled \in [Users -> BOOLEAN]
  /\ closing \subseteq Users
  /\ closedBy \in [Users -> Ops \cup {"none"}]
  /\ sess \in [Users -> SessionStates] /\ stale \subseteq Users
  /\ viewing \subseteq Users /\ fresh \subseteq Users
  /\ lock \in Procs \cup {NoProc}
  /\ calm \in BOOLEAN

\* The values of the runner's state.
ServiceTyped ==
  /\ up \subseteq Users /\ late \subseteq Users /\ strays \subseteq up
  /\ call \in [Procs -> {Runner!Free} \cup
       [at : {"pending", "replied"}, kind : {"start", "stop"}, user : Users,
        reply : {"none", "RUNNING", "STOPPED", "ERROR"}]]

\* What the position of a worker says about its locals.
LocalsKnown(p) ==
  /\ w[p] \in Locals
  /\ w[p].pc \in {"down", "unlocked", "tick", "pick", "idle", "list"} => w[p].job = "none"
  /\ w[p].pc \in {"decide", "mark", "start", "starting", "agent", "finish"} => w[p].job = "op"
  /\ w[p].pc = "prepare" => w[p].job \in {"op", "idle"}
  /\ w[p].pc \in {"stop", "stopping", "outcome"} => w[p].job # "none"
  /\ w[p].pc = "idleNext" => w[p].job = "idle"
  /\ w[p].pc \in {"unwanted", "missing"} => w[p].job = "reconcile"
  /\ w[p].job = "op" => w[p].op \in AcceptedOps /\ w[p].user = ops[w[p].op].user
  /\ w[p].pc \in {"prepare", "stop", "stopping", "outcome"} => w[p].user \in Users
  /\ w[p].todo \subseteq IF w[p].pc = "missing"
                         THEN [user : Users, to : {"STOPPED", "FAILED"}] ELSE Users
  /\ w[p].pc = "outcome" => w[p].out \in {"RUNNING", "STOPPED", "FAILED"}
  /\ w[p].pc = "outcome" /\ w[p].job = "op" => w[p].fin \in {"open", "SUCCEEDED", "FAILED"}
  /\ w[p].pc = "finish" => w[p].fin \in {"SUCCEEDED", "FAILED", "UNKNOWN"}

\* The locals of every worker are known.
LocalsTyped == DOMAIN w = Procs /\ \A p \in Procs : LocalsKnown(p)

\* TypeOK, strengthened by what positions say about locals.
SchedulerTyped == RowsTyped /\ UsersTyped /\ ServiceTyped /\ LocalsTyped

\* The steps of the handlers that write rows of operations.
RowStep ==
  \E o \in Ops : \/ \E u \in Users, k \in {"start", "open", "stop"} : Submit(o, u, k)
                 \/ \E u \in Users : DisableStops(o, u)
                 \/ Accept(o)
\* The steps of the handlers that write no such row.
UserStep ==
  \/ \E u \in Users : \/ Disable(u) \/ Enable(u) \/ View(u) \/ ViewEnds(u) \/ Track(u)
                      \/ TenMinutesPass(u)
  \/ Calm
\* The steps of the runner and of containers.
ServiceStep ==
  \/ \E u \in Users : ContainerStops(u) \/ ContainerForgotten(u) \/ ContainerComesToLife(u)
  \/ \E p \in Procs : RunnerLaunches(p) \/ RunnerReplies(p)

\* Every step is of one of these kinds, or of one API process.
LEMMA StepKinds ==
  ASSUME [Next]_vars
  PROVE  \/ RowStep \/ UserStep \/ ServiceStep \/ UNCHANGED vars
         \/ \E p \in Procs : Work(p) \/ Crash(p) \/ LoseLock(p)
  BY DEF Next, RowStep, UserStep, ServiceStep

\* The handlers that submit commands leave sessions, workers and the runner alone.
LEMMA RowStepKeeps ==
  ASSUME RowStep
  PROVE  UNCHANGED <<disabled, viewing, fresh, sessVars, lock, w, calm, runnerVars>>
  BY DEF RowStep, Submit, DisableStops, Accept, userVars

\* The other handlers leave commands, sessions, workers and the runner alone.
LEMMA UserStepKeeps ==
  ASSUME UserStep
  PROVE  UNCHANGED <<opVars, sessVars, lock, w, runnerVars>>
  BY DEF UserStep, Disable, Enable, View, ViewEnds, Track, TenMinutesPass, Calm

\* The runner and the containers change nothing of the API.
LEMMA ServiceStepKeeps ==
  ASSUME ServiceStep
  PROVE  UNCHANGED <<opVars, userVars, sessVars, lock, w, calm>>
  BY DEF ServiceStep, ContainerStops, ContainerForgotten, ContainerComesToLife,
     RunnerLaunches, RunnerReplies, Outside

\* What a worker's step leaves alone, and which of its steps write the rows,
\* the sessions, the lock and the request.
LEMMA WorkKeeps ==
  ASSUME LocalsTyped, ServiceTyped, NEW p \in Procs, Work(p)
  PROVE  /\ UNCHANGED <<clock, ahead, disabled, closing, closedBy, calm, up, late, strays>>
         /\ \A q \in Procs : q # p => w'[q] = w[q] /\ call'[q] = call[q]
         /\ Mark(p) \/ Finish(p) \/ UNCHANGED ops
         /\ Prepare(p) \/ Outcome(p) \/ Missing(p) \/ UNCHANGED sessVars
         /\ Boot(p) \/ UNCHANGED lock
         /\ StartCall(p) \/ StopCall(p) \/ StartEnds(p) \/ StopEnds(p) \/ UNCHANGED call
  <1>0. DOMAIN w = Procs /\ DOMAIN call = Procs
    BY DEF LocalsTyped, ServiceTyped
  <1>1. CASE Boot(p) \/ Tick(p)
    BY <1>0, <1>1 DEF Boot, Tick, Goto, opVars, userVars, runnerVars
  <1>2. CASE Pick(p) \/ Decide(p) \/ Mark(p) \/ Prepare(p) \/ AgentOpen(p) \/ Finish(p)
    BY <1>0, <1>2
       DEF Pick, Decide, Mark, Prepare, AgentOpen, Finish, Goto, Leave, opVars,
           userVars,
           runnerVars
  <1>3. CASE StartCall(p) \/ StopCall(p)
    BY <1>0, <1>3 DEF StartCall, StopCall, Call, Goto, Runner!Ask, opVars, userVars
  <1>4. CASE StartEnds(p) \/ StopEnds(p)
    BY <1>0, <1>4 DEF StartEnds, StopEnds, CallEnds, Runner!Leave, opVars, userVars
  <1>5. CASE Outcome(p) \/ IdleQuery(p) \/ IdleNext(p)
    BY <1>0, <1>5
       DEF Outcome, IdleQuery, IdleNext, Goto, Leave, opVars, userVars, runnerVars
  <1>6. CASE List(p) \/ Unwanted(p) \/ MissingQuery(p) \/ Missing(p)
    BY <1>0, <1>6
       DEF List, Unwanted, MissingQuery, Missing, Goto, Leave, opVars, userVars,
           runnerVars
  <1>7. CASE QueryFails(p)
    BY <1>0, <1>7 DEF QueryFails, Leave, opVars, userVars, runnerVars
  <1> QED
    BY <1>1, <1>2, <1>3, <1>4, <1>5, <1>6, <1>7 DEF Work

\* An accepted operation keeps its user, its kind and its place in the queue.
RowsKept ==
  \A o \in AcceptedOps : /\ o \in AcceptedOps'
                         /\ ops'[o].user = ops[o].user /\ ops'[o].kind = ops[o].kind
                         /\ ops'[o].at = ops[o].at

\* Rows stay typed, and accepted ones keep what they are.
LEMMA RowsStep ==
  ASSUME RowsTyped, LocalsTyped, ServiceTyped, [Next]_vars
  PROVE  RowsTyped' /\ RowsKept
  <1> USE DEF RowsTyped, RowsKept, AcceptedOps, Active, Finished
  <1>1. CASE RowStep
    <2>1. ASSUME NEW o \in Ops, NEW u \in Users, NEW k \in {"start", "open", "stop"}, Stamp(o, u, k)
          PROVE  RowsTyped' /\ RowsKept
      BY <2>1 DEF Stamp
    <2>2. ASSUME NEW o \in Ops, Accept(o)
          PROVE  RowsTyped' /\ RowsKept
      BY <2>2 DEF Accept
    <2> QED
      BY <1>1, <2>1, <2>2 DEF RowStep, Submit, DisableStops
  <1>2. CASE UserStep \/ ServiceStep
    BY <1>2, UserStepKeeps, ServiceStepKeeps DEF opVars
  <1>3. ASSUME NEW p \in Procs, Work(p)
        PROVE  RowsTyped' /\ RowsKept
    <2>1. CASE Mark(p)
      <3>1. w[p].op \in AcceptedOps
        BY <2>1 DEF Mark, LocalsTyped, LocalsKnown
      <3> QED
        BY <2>1, <3>1 DEF Mark
    <2>2. CASE Finish(p)
      <3>1. w[p].op \in AcceptedOps /\ w[p].fin \in {"SUCCEEDED", "FAILED", "UNKNOWN"}
        BY <2>2 DEF Finish, LocalsTyped, LocalsKnown
      <3> QED
        BY <2>2, <3>1 DEF Finish
    <2>3. CASE UNCHANGED ops
      BY <1>3, <2>3, WorkKeeps
    <2> QED
      BY <1>3, <2>1, <2>2, <2>3, WorkKeeps
  <1>4. ASSUME NEW p \in Procs, Crash(p)
        PROVE  RowsTyped' /\ RowsKept
    BY <1>4 DEF Crash
  <1>5. ASSUME NEW p \in Procs, LoseLock(p)
        PROVE  RowsTyped' /\ RowsKept
    BY <1>5 DEF LoseLock, opVars
  <1>6. CASE UNCHANGED vars
    BY <1>6 DEF vars, opVars
  <1> QED
    BY <1>1, <1>2, <1>3, <1>4, <1>5, <1>6, StepKinds

\* A worker that does not move keeps knowing what it knew.
LEMMA LocalsStay ==
  ASSUME NEW p \in Procs, LocalsKnown(p), RowsKept, w'[p] = w[p]
  PROVE  LocalsKnown(p)'
  BY DEF LocalsKnown, RowsKept

\* A worker's locals, field by field.
LEMMA LocalsFields ==
  ASSUME NEW l \in Locals
  PROVE  /\ l = [pc |-> l.pc, job |-> l.job, op |-> l.op, user |-> l.user, out |-> l.out,
                 fin |-> l.fin, todo |-> l.todo, actual |-> l.actual]
         /\ l.job \in {"none", "op", "idle", "reconcile"}
         /\ l.op \in Ops \cup {"none"} /\ l.user \in Users \cup {"none"}
         /\ l.out \in SessionStates \cup {"none"}
         /\ l.fin \in {"none", "open", "SUCCEEDED", "FAILED", "UNKNOWN"}
         /\ l.todo \in SUBSET (Users \cup [user : Users, to : {"STOPPED", "FAILED"}])
         /\ l.actual \in SUBSET Users
  BY DEF Locals

\* A worker's own step leaves it with the locals of its new position.
LEMMA WorkLocals ==
  ASSUME SchedulerTyped, NEW p \in Procs, Work(p), RowsKept
  PROVE  DOMAIN w' = Procs /\ LocalsKnown(p)'
  <1>0. DOMAIN w = Procs /\ LocalsKnown(p)
    BY DEF SchedulerTyped, LocalsTyped
  <1> USE <1>0 DEF LocalsKnown
  <1>1. CASE Boot(p)
    BY <1>1 DEF Boot, Goto, Down, Locals
  <1>2. CASE Tick(p)
    BY <1>2 DEF Tick, Goto, Locals
  <1>3. CASE Pick(p)
    <2>1. CASE Goto(p, "idle")
      <3>1. /\ w[p].pc = "pick" /\ w[p].job = "none" /\ DOMAIN w' = Procs
            /\ w'[p] = [w[p] EXCEPT !.pc = "idle"]
        BY <1>3, <2>1 DEF Pick, Goto
      <3>2. w'[p] = [pc |-> "idle", job |-> w[p].job, op |-> w[p].op, user |-> w[p].user,
                     out |-> w[p].out, fin |-> w[p].fin, todo |-> w[p].todo,
                     actual |-> w[p].actual]
        BY <3>1, LocalsFields
      <3>3. w'[p] \in Locals
        BY <3>2, LocalsFields DEF Locals
      <3> QED
        BY <3>1, <3>2, <3>3
    <2>2. ASSUME NEW o \in Active,
                 w' = [w EXCEPT ![p] = [Down EXCEPT !.pc = "decide", !.job = "op",
                                        !.op = o, !.user = ops[o].user]]
          PROVE  DOMAIN w' = Procs /\ LocalsKnown(p)'
      <3>1. o \in AcceptedOps /\ ops[o].user \in Users
        BY DEF Active, AcceptedOps, SchedulerTyped, RowsTyped
      <3>2. UNCHANGED ops
        BY <1>3 DEF Pick, opVars
      <3>3. w'[p] \in Locals
        <4>1. w'[p] = [pc |-> "decide", job |-> "op", op |-> o, user |-> ops[o].user,
                       out |-> "none", fin |-> "none", todo |-> {}, actual |-> {}]
          BY <2>2 DEF Down
        <4> QED
          BY <3>1, <4>1 DEF Locals, Active
      <3> QED
        BY <2>2, <3>1, <3>2, <3>3 DEF Down, RowsKept
    <2> QED
      BY <1>3, <2>1, <2>2 DEF Pick
  <1>4. CASE Decide(p)
    BY <1>4 DEF Decide, Locals, RowsKept
  <1>5. CASE Mark(p)
    <2>1. DOMAIN w' = Procs /\ w'[p] = [w[p] EXCEPT !.pc = "prepare"]
      BY <1>5 DEF Mark, Goto
    <2>r. w'[p] = [pc |-> "prepare", job |-> w[p].job, op |-> w[p].op, user |-> w[p].user,
                    out |-> w[p].out, fin |-> w[p].fin, todo |-> w[p].todo,
                    actual |-> w[p].actual]
      BY <2>1, LocalsFields
    <2>2. w'[p] \in Locals
      BY <2>r, LocalsFields DEF Locals
    <2>3. UNCHANGED <<w[p].job, w[p].op, w[p].user, w[p].todo>> /\ w'[p].pc = "prepare"
      BY <2>r
    <2>4. w[p].job = "op" /\ w[p].user \in Users
      BY <1>5 DEF Mark, SchedulerTyped, RowsTyped, AcceptedOps, Active, Finished
    <2> QED
      BY <2>1, <2>2, <2>3, <2>4 DEF RowsKept
  <1>6. CASE Prepare(p)
    BY <1>6 DEF Prepare, Goto, Locals, RowsKept
  <1>7. CASE StartCall(p) \/ StopCall(p)
    BY <1>7 DEF StartCall, StopCall, Call, Goto, Locals, RowsKept
  <1>8. CASE StartEnds(p)
    <2>1. PICK out \in {"RUNNING", "FAILED"}, fin \in {"open", "SUCCEEDED", "FAILED"} :
            w'[p] = [w[p] EXCEPT !.pc = "outcome", !.out = out, !.fin = fin]
      BY <1>8 DEF StartEnds
    <2>r. w'[p] = [pc |-> "outcome", job |-> w[p].job, op |-> w[p].op, user |-> w[p].user,
                    out |-> out, fin |-> fin, todo |-> w[p].todo,
                    actual |-> w[p].actual]
      BY <2>1, LocalsFields
    <2>2. w'[p] \in Locals
      BY <2>r, LocalsFields DEF Locals, SessionStates
    <2>3. /\ UNCHANGED <<w[p].job, w[p].op, w[p].user, w[p].todo>> /\ w'[p].pc = "outcome"
          /\ w'[p].out = out /\ w'[p].fin = fin
      BY <2>r
    <2>4. w[p].job = "op" /\ w[p].user \in Users
      BY <1>8 DEF StartEnds, SchedulerTyped, RowsTyped, AcceptedOps, Active, Finished
    <2> QED
      BY <1>8, <2>2, <2>3, <2>4 DEF StartEnds, RowsKept
  <1>9. CASE AgentOpen(p)
    <2>1. PICK fin \in {"SUCCEEDED", "UNKNOWN"} : w'[p] = [w[p] EXCEPT !.pc = "finish", !.fin = fin]
      BY <1>9 DEF AgentOpen
    <2>r. w'[p] = [pc |-> "finish", job |-> w[p].job, op |-> w[p].op, user |-> w[p].user,
                    out |-> w[p].out, fin |-> fin, todo |-> w[p].todo,
                    actual |-> w[p].actual]
      BY <2>1, LocalsFields
    <2>2. w'[p] \in Locals
      BY <2>r, LocalsFields DEF Locals
    <2>3. /\ UNCHANGED <<w[p].job, w[p].op, w[p].user, w[p].todo>>
          /\ w'[p].pc = "finish" /\ w'[p].fin = fin
      BY <2>r
    <2> QED
      BY <1>9, <2>2, <2>3 DEF AgentOpen, RowsKept
  <1>10. CASE Finish(p)
    BY <1>10 DEF Finish, Leave, Down, Locals
  <1>11. CASE StopEnds(p)
    <2>1. PICK ok \in BOOLEAN :
            w' = [w EXCEPT
              ![p].pc = IF ok \/ w[p].job # "reconcile" THEN "outcome" ELSE "unwanted",
              ![p].out = IF ok THEN "STOPPED" ELSE "FAILED",
              ![p].fin = IF ok THEN "SUCCEEDED" ELSE "FAILED",
              ![p].actual = IF ok THEN @ \ {w[p].user} ELSE @]
      BY <1>11 DEF StopEnds
    <2> DEFINE pc == IF ok \/ w[p].job # "reconcile" THEN "outcome" ELSE "unwanted"
               actual == IF ok THEN w[p].actual \ {w[p].user} ELSE w[p].actual
               out == IF ok THEN "STOPPED" ELSE "FAILED"
               fin == IF ok THEN "SUCCEEDED" ELSE "FAILED"
    <2>q. w'[p] = [w[p] EXCEPT !.pc = pc, !.out = out, !.fin = fin, !.actual = actual]
      <3>1. w' = [w EXCEPT ![p].pc = pc, ![p].out = out, ![p].fin = fin, ![p].actual = actual]
        BY <2>1
      <3> HIDE DEF pc, actual, out, fin
      <3> QED
        BY <3>1
    <2>r. w'[p] = [pc |-> pc, job |-> w[p].job, op |-> w[p].op, user |-> w[p].user,
                    out |-> out, fin |-> fin, todo |-> w[p].todo, actual |-> actual]
      <3> HIDE DEF pc, actual, out, fin
      <3> QED
        BY <2>q, LocalsFields
    <2>2. /\ w'[p].pc = pc /\ w'[p].out = out /\ w'[p].fin = fin
          /\ UNCHANGED <<w[p].job, w[p].op, w[p].user, w[p].todo>>
      BY <2>r
    <2>3. w'[p] \in Locals
      <3>1. actual \in SUBSET Users
        BY LocalsFields
      <3>2. pc \in {"outcome", "unwanted"} /\ out \in {"STOPPED", "FAILED"}
            /\ fin \in {"SUCCEEDED", "FAILED"}
        OBVIOUS
      <3> HIDE DEF pc, actual, out, fin
      <3> QED
        BY <2>r, <3>1, <3>2, LocalsFields DEF Locals, SessionStates
    <2> QED
      BY <1>11, <2>1, <2>2, <2>3 DEF StopEnds, RowsKept
  <1>12. CASE Outcome(p)
    BY <1>12 DEF Outcome, Goto, Locals, RowsKept
  <1>13. CASE IdleQuery(p)
    <2>1. PICK todo \in SUBSET Users :
            DOMAIN w' = Procs /\ w'[p] = [pc |-> "idleNext", job |-> "idle",
            op |-> "none", user |-> "none",
                     out |-> "none", fin |-> "none", todo |-> todo, actual |-> {}]
      BY <1>13 DEF IdleQuery, Down
    <2>2. w'[p] \in Locals
      BY <2>1 DEF Locals
    <2> QED
      BY <2>1, <2>2
  <1>14. CASE IdleNext(p)
    <2>1. CASE Leave(p, "list")
      BY <2>1 DEF Leave, Down, Locals
    <2>2. ASSUME NEW u \in w[p].todo, NEW pc \in {"idleNext", "prepare"},
                 w' = [w EXCEPT ![p].todo = @ \ {u}, ![p].user = u, ![p].pc = pc]
          PROVE  DOMAIN w' = Procs /\ LocalsKnown(p)'
      <3>1. w'[p] = [w[p] EXCEPT !.todo = @ \ {u}, !.user = u, !.pc = pc]
        BY <2>2
      <3>2. w[p].job = "idle" /\ w[p].todo \subseteq Users
        BY <1>14 DEF IdleNext
      <3>r. w'[p] = [pc |-> pc, job |-> w[p].job, op |-> w[p].op, user |-> u,
                      out |-> w[p].out, fin |-> w[p].fin, todo |-> w[p].todo \ {u},
                      actual |-> w[p].actual]
        BY <3>1, LocalsFields
      <3>3. w'[p] \in Locals
        BY <3>r, <3>2, LocalsFields DEF Locals
      <3>4. /\ w'[p].job = "idle" /\ w'[p].todo \subseteq Users
            /\ w'[p].user = u /\ w'[p].pc = pc
        BY <3>r, <3>2
      <3> QED
        BY <2>2, <3>2, <3>3, <3>4
    <2> QED
      BY <1>14, <2>1, <2>2 DEF IdleNext
  <1>15. CASE List(p)
    <2>1. CASE Leave(p, "tick")
      BY <2>1 DEF Leave, Down, Locals
    <2>2. ASSUME NEW seen \in Runner!Seen,
                 w' = [w EXCEPT ![p] = [Down EXCEPT !.pc = "unwanted",
                 !.job = "reconcile",
                                        !.todo = seen, !.actual = seen]]
          PROVE  DOMAIN w' = Procs /\ LocalsKnown(p)'
      <3>1. seen \subseteq Users
        BY DEF Runner!Seen, SchedulerTyped, ServiceTyped
      <3>2. w'[p] = [pc |-> "unwanted", job |-> "reconcile", op |-> "none", user |-> "none",
                     out |-> "none", fin |-> "none", todo |-> seen, actual |-> seen]
        BY <2>2 DEF Down
      <3>3. w'[p] \in Locals
        BY <3>1, <3>2 DEF Locals
      <3> QED
        BY <2>2, <3>1, <3>2, <3>3
    <2> QED
      BY <1>15, <2>1, <2>2 DEF List
  <1>16. CASE Unwanted(p)
    <2>1. PICK u \in w[p].todo, pc \in {"stop", "unwanted"} :
            w' = [w EXCEPT ![p].todo = @ \ {u}, ![p].user = u, ![p].pc = pc]
      BY <1>16 DEF Unwanted
    <2>2. w'[p] = [w[p] EXCEPT !.todo = @ \ {u}, !.user = u, !.pc = pc]
      BY <2>1
    <2>3. w[p].job = "reconcile" /\ w[p].todo \subseteq Users
      BY <1>16 DEF Unwanted
    <2>r. w'[p] = [pc |-> pc, job |-> w[p].job, op |-> w[p].op, user |-> u,
                    out |-> w[p].out, fin |-> w[p].fin, todo |-> w[p].todo \ {u},
                    actual |-> w[p].actual]
      BY <2>2, LocalsFields
    <2>4. w'[p] \in Locals
      BY <2>r, <2>3, LocalsFields DEF Locals
    <2>5. /\ w'[p].job = "reconcile" /\ w'[p].todo \subseteq Users
          /\ w'[p].user = u /\ w'[p].pc = pc
      BY <2>r, <2>3
    <2> QED
      BY <2>1, <2>3, <2>4, <2>5
  <1>17. CASE MissingQuery(p)
    <2>1. PICK todo \in SUBSET [user : Users, to : {"STOPPED", "FAILED"}] :
            w' = [w EXCEPT ![p].pc = "missing", ![p].todo = todo]
      <3> DEFINE lost == {v \in Users \ w[p].actual :
                            sess[v] \in {"RUNNING", "STARTING", "STOPPING"}}
                 todo == {[user |-> u,
                 to |-> IF sess[u] = "STOPPING" THEN "STOPPED" ELSE "FAILED"] :
                            u \in lost}
      <3>1. todo \in SUBSET [user : Users, to : {"STOPPED", "FAILED"}]
        OBVIOUS
      <3>2. w' = [w EXCEPT ![p].pc = "missing", ![p].todo = todo]
        BY <1>17 DEF MissingQuery
      <3> QED
        BY <3>1, <3>2
    <2>2. w'[p] = [w[p] EXCEPT !.pc = "missing", !.todo = todo]
      BY <2>1
    <2>3. w[p].job = "reconcile"
      BY <1>17 DEF MissingQuery
    <2>r. w'[p] = [pc |-> "missing", job |-> w[p].job, op |-> w[p].op, user |-> w[p].user,
                    out |-> w[p].out, fin |-> w[p].fin, todo |-> todo,
                    actual |-> w[p].actual]
      BY <2>2, LocalsFields
    <2>4. w'[p] \in Locals
      BY <2>r, LocalsFields DEF Locals
    <2>5. w'[p].job = "reconcile" /\ w'[p].todo = todo /\ w'[p].pc = "missing"
      BY <2>r, <2>3
    <2> QED
      BY <2>1, <2>4, <2>5
  <1>18. CASE Missing(p)
    BY <1>18 DEF Missing, Leave, Down, Locals
  <1>19. CASE QueryFails(p)
    BY <1>19 DEF QueryFails, Leave, Down, Locals
  <1> QED
    BY <1>1, <1>2, <1>3, <1>4, <1>5, <1>6, <1>7, <1>8, <1>9, <1>10, <1>11, <1>12, <1>13,
       <1>14, <1>15, <1>16, <1>17, <1>18, <1>19 DEF Work

\* The locals of every worker are known after every step.
LEMMA LocalsStep ==
  ASSUME SchedulerTyped, [Next]_vars
  PROVE  LocalsTyped'
  <1>0. RowsKept /\ DOMAIN w = Procs /\ \A p \in Procs : LocalsKnown(p)
    BY RowsStep DEF SchedulerTyped, LocalsTyped
  <1>1. CASE UNCHANGED w
    BY <1>0, <1>1, LocalsStay DEF LocalsTyped
  <1>2. ASSUME NEW p \in Procs, Work(p)
        PROVE  LocalsTyped'
    <2>1. DOMAIN w' = Procs /\ LocalsKnown(p)'
      BY <1>0, <1>2, WorkLocals
    <2>2. \A q \in Procs : q # p => LocalsKnown(q)'
      BY <1>0, <1>2, WorkKeeps, LocalsStay DEF SchedulerTyped
    <2> QED
      BY <2>1, <2>2 DEF LocalsTyped
  <1>3. ASSUME NEW p \in Procs, Crash(p)
        PROVE  LocalsTyped'
    <2>1. w' = [w EXCEPT ![p] = Down]
      BY <1>3 DEF Crash
    <2>2. LocalsKnown(p)'
      BY <1>0, <2>1 DEF LocalsKnown, Down, Locals
    <2>3. \A q \in Procs : q # p => LocalsKnown(q)'
      BY <1>0, <2>1, LocalsStay
    <2> QED
      BY <1>0, <2>1, <2>2, <2>3 DEF LocalsTyped
  <1>4. ASSUME NEW p \in Procs, LoseLock(p)
        PROVE  UNCHANGED w
    BY <1>4 DEF LoseLock
  <1> QED
    BY <1>1, <1>2, <1>3, <1>4, StepKinds, RowStepKeeps, UserStepKeeps, ServiceStepKeeps
       DEF vars

\* The values of users and sessions after every step.
LEMMA UsersStep ==
  ASSUME SchedulerTyped, [Next]_vars
  PROVE  UsersTyped'
  <1>0. UsersTyped
    BY DEF SchedulerTyped
  <1> USE DEF UsersTyped
  <1>1. CASE RowStep
    <2>1. UNCHANGED <<disabled, viewing, fresh, sess, stale, lock, calm>>
      BY <1>1, RowStepKeeps
    <2>2. closing' \subseteq Users /\ closedBy' \in [Users -> Ops \cup {"none"}]
      BY <1>0, <1>1 DEF RowStep, Submit, DisableStops, Accept, userVars
    <2> QED
      BY <1>0, <2>1, <2>2
  <1>2. CASE UserStep
    BY <1>0, <1>2
       DEF UserStep, Disable, Enable, View, ViewEnds, Track, TenMinutesPass, Calm,
       userVars
  <1>3. CASE ServiceStep
    BY <1>0, <1>3, ServiceStepKeeps DEF userVars
  <1>4. ASSUME NEW p \in Procs, Work(p)
        PROVE  UsersTyped'
    <2>0. LocalsKnown(p)
      BY DEF SchedulerTyped, LocalsTyped
    <2>1. UNCHANGED <<disabled, closing, closedBy, calm>>
      BY <1>4, WorkKeeps DEF SchedulerTyped
    <2>2. lock' \in Procs \cup {NoProc}
      BY <1>0, <1>4, WorkKeeps DEF SchedulerTyped, Boot
    <2>3. sess' \in [Users -> SessionStates] /\ stale' \subseteq Users
      <3>1. CASE Prepare(p) \/ Outcome(p)
        BY <1>0, <2>0, <3>1 DEF Prepare, Outcome, SetState, LocalsKnown, SessionStates
      <3>2. CASE Missing(p)
        BY <1>0, <2>0, <3>2 DEF Missing, SetState, LocalsKnown, SessionStates
      <3> QED
        BY <1>0, <1>4, <3>1, <3>2, WorkKeeps DEF SchedulerTyped
    <2>4. viewing' \subseteq viewing
      BY <1>4
         DEF Work, Boot, Tick, Pick, Decide, Mark, Prepare, StartCall, StartEnds,
             AgentOpen,
         Finish, StopCall, StopEnds, Outcome, IdleQuery, IdleNext, List, Unwanted,
         MissingQuery,
         Missing, QueryFails, Call, SetState, userVars
    <2>5. fresh' \subseteq Users
      <3>1. CASE StartEnds(p)
        <4>1. w[p].user \in Users
          BY <2>0, <3>1
             DEF StartEnds, LocalsKnown, SchedulerTyped, RowsTyped, AcceptedOps,
             Active, Finished
        <4> QED
          BY <1>0, <3>1, <4>1 DEF StartEnds
      <3>2. CASE ~StartEnds(p)
        BY <1>0, <1>4, <3>2
           DEF Work, Boot, Tick, Pick, Decide, Mark, Prepare, StartCall, AgentOpen,
           Finish, StopCall, StopEnds, Outcome, IdleQuery, IdleNext, List, Unwanted,
           MissingQuery, Missing, QueryFails, Call, userVars
      <3> QED
        BY <3>1, <3>2
    <2> QED
      BY <1>0, <2>1, <2>2, <2>3, <2>4, <2>5
  <1>5. ASSUME NEW p \in Procs, Crash(p) \/ LoseLock(p)
        PROVE  UsersTyped'
    BY <1>0, <1>5 DEF Crash, LoseLock, userVars
  <1>6. CASE UNCHANGED vars
    BY <1>0, <1>6 DEF vars, userVars
  <1> QED
    BY <1>1, <1>2, <1>3, <1>4, <1>5, <1>6, StepKinds

\* The values of the runner's state after every step.
LEMMA ServiceTypeStep ==
  ASSUME SchedulerTyped, [Next]_vars
  PROVE  ServiceTyped'
  <1>0. ServiceTyped
    BY DEF SchedulerTyped
  <1> USE DEF ServiceTyped, Runner!Free
  <1>1. CASE RowStep \/ UserStep
    BY <1>0, <1>1, RowStepKeeps, UserStepKeeps DEF runnerVars
  <1>2. CASE ServiceStep
    <2>1. ASSUME NEW p \in Procs, RunnerLaunches(p)
          PROVE  ServiceTyped'
      BY <1>0, <2>1 DEF RunnerLaunches, Runner!Launch, Runner!Is
    <2>2. ASSUME NEW p \in Procs, RunnerReplies(p)
          PROVE  ServiceTyped'
      <3>1. PICK a \in {"RUNNING", "STOPPED", "ERROR"} : Runner!Reply(p, a)
        BY <2>2 DEF RunnerReplies
      <3>2. call[p] \in [at : {"pending", "replied"}, kind : {"start", "stop"}, user : Users,
                         reply : {"none", "RUNNING", "STOPPED", "ERROR"}]
        BY <1>0, <3>1 DEF Runner!Reply, Runner!Is
      <3>3. [call[p] EXCEPT !.at = "replied", !.reply = a]
              \in [at : {"pending", "replied"}, kind : {"start", "stop"}, user : Users,
                   reply : {"none", "RUNNING", "STOPPED", "ERROR"}]
        BY <3>2
      <3>4. call' \in [Procs -> {Runner!Free} \cup
              [at : {"pending", "replied"}, kind : {"start", "stop"}, user : Users,
               reply : {"none", "RUNNING", "STOPPED", "ERROR"}]]
        BY <1>0, <3>1, <3>3 DEF Runner!Reply
      <3>5. up' \subseteq Users /\ late' \subseteq Users /\ strays' \subseteq up'
        BY <1>0, <3>1, <3>2 DEF Runner!Reply, Runner!Quits
      <3> QED
        BY <3>4, <3>5
    <2>3. ASSUME NEW u \in Users,
                 ContainerStops(u) \/ ContainerForgotten(u) \/ ContainerComesToLife(u)
          PROVE  ServiceTyped'
      BY <1>0, <2>3
         DEF ContainerStops, ContainerForgotten, ContainerComesToLife, Runner!Stop,
         Runner!Forget, Runner!ComeToLife, Runner!Quits
    <2> QED
      BY <1>2, <2>1, <2>2, <2>3 DEF ServiceStep
  <1>3. ASSUME NEW p \in Procs, Work(p)
        PROVE  ServiceTyped'
    <2>0. LocalsKnown(p) /\ UNCHANGED <<up, late, strays>>
      BY <1>3, WorkKeeps DEF SchedulerTyped, LocalsTyped
    <2>1. CASE StartCall(p) \/ StopCall(p)
      <3>1. w[p].user \in Users
        BY <2>0, <2>1
           DEF StartCall, StopCall, LocalsKnown, SchedulerTyped, RowsTyped, AcceptedOps,
           Active, Finished
      <3> QED
        BY <1>0, <2>0, <2>1, <3>1 DEF StartCall, StopCall, Call, Runner!Ask
    <2>2. CASE StartEnds(p) \/ StopEnds(p)
      BY <1>0, <2>0, <2>2 DEF StartEnds, StopEnds, CallEnds, Runner!Leave
    <2> QED
      BY <1>0, <1>3, <2>0, <2>1, <2>2, WorkKeeps DEF SchedulerTyped
  <1>4. ASSUME NEW p \in Procs, Crash(p) \/ LoseLock(p)
        PROVE  ServiceTyped'
    BY <1>0, <1>4 DEF Crash, LoseLock, Runner!Leave, runnerVars
  <1>5. CASE UNCHANGED vars
    BY <1>0, <1>5 DEF vars, runnerVars
  <1> QED
    BY <1>1, <1>2, <1>3, <1>4, <1>5, StepKinds

\* The strengthened types hold in every reachable state.
THEOREM SchedulerTypes == Spec => []SchedulerTyped
  <1>1. Init => SchedulerTyped
    <2>1. Init => RowsTyped
      BY DEF Init, RowsTyped
    <2>2. Init => UsersTyped
      <3>1. Init => sess \in [Users -> SessionStates] /\ stale \subseteq Users
        BY DEF Init, SessionStates
      <3>2. Init => closedBy \in [Users -> Ops \cup {"none"}]
        BY DEF Init
      <3>3. Init => disabled \in [Users -> BOOLEAN] /\ lock \in Procs \cup {NoProc}
        BY DEF Init
      <3>4. Init => /\ closing \subseteq Users /\ viewing \subseteq Users
                    /\ fresh \subseteq Users /\ calm \in BOOLEAN
        BY DEF Init
      <3> QED
        BY <3>1, <3>2, <3>3, <3>4 DEF UsersTyped
    <2>3. Init => ServiceTyped
      BY DEF Init, ServiceTyped, Runner!ServiceInit
    <2>4. Init => LocalsTyped
      BY DEF Init, LocalsTyped, LocalsKnown, Down, Locals
    <2> QED
      BY <2>1, <2>2, <2>3, <2>4 DEF SchedulerTyped
  <1>2. SchedulerTyped /\ [Next]_vars => SchedulerTyped'
    BY RowsStep, UsersStep, ServiceTypeStep, LocalsStep DEF SchedulerTyped
  <1> QED
    BY <1>1, <1>2, PTL DEF Spec

\* The rows of operations, users and sessions, the worker's locals and the
\* runner's state have the types they are declared with, whatever crashes,
\* breaks or fails (TypeOK).
THEOREM SchedulerTypeCorrect == Spec => []TypeOK
  <1>1. SchedulerTyped => TypeOK
    BY DEF SchedulerTyped, RowsTyped, UsersTyped, ServiceTyped, LocalsTyped,
       LocalsKnown, TypeOK
  <1> QED
    BY <1>1, SchedulerTypes, PTL

--------------------------------------------------------------------------------
(* One process works at a time                                             *)

\* At most one process can ever hold the advisory lock and work.
SoleScheduler == ~LockBreaks \/ \A p, q \in Procs : p = q

\* p got the advisory lock and has not noticed its loss.
Scheduling(p) == w[p].pc \notin {"down", "unlocked"}

\* A process that works holds the lock, unless the lock may break.
LockHeld == ~LockBreaks => \A p \in Procs : Scheduling(p) => lock = p
\* One process works.
OneWorker == \A p, q \in Procs : Scheduling(p) /\ Scheduling(q) => p = q

\* The request at the runner is the one its worker waits for, and its answer fits it.
CallsMatch ==
  \A p \in Procs : call[p].at # "free" =>
    /\ w[p].pc \in {"starting", "stopping"}
    /\ call[p].user = w[p].user
    /\ call[p].kind = (IF w[p].pc = "starting" THEN "start" ELSE "stop")
    /\ call[p].at = "replied" => call[p].reply \in {"RUNNING", "STOPPED", "ERROR"}
    /\ call[p].reply = "RUNNING" => call[p].kind = "start"
    /\ call[p].reply = "STOPPED" => call[p].at = "replied" /\ call[p].kind = "stop"

\* Whoever works has passed Boot.
LEMMA WorkerSchedules ==
  ASSUME SchedulerTyped, NEW p \in Procs, Work(p)
  PROVE  /\ Boot(p) \/ Scheduling(p)
         /\ Scheduling(p) => UNCHANGED lock
  <1>1. Boot(p) \/ Scheduling(p)
    BY DEF Scheduling, Work, Tick, Pick, Decide, Mark, Prepare, StartCall, StartEnds,
       AgentOpen,
       Finish, StopCall, StopEnds, Outcome, IdleQuery, IdleNext, List, Unwanted,
       MissingQuery,
       Missing, QueryFails
  <1>2. Boot(p) => ~Scheduling(p)
    BY DEF Boot, Scheduling
  <1> QED
    BY <1>1, <1>2, WorkKeeps DEF SchedulerTyped

\* pg_try_advisory_lock lets no second process work.
LEMMA OneWorkerStep ==
  ASSUME SoleScheduler, SchedulerTyped, LockHeld, OneWorker, [Next]_vars
  PROVE  LockHeld' /\ OneWorker'
  <1>0. DOMAIN w = Procs /\ \A p \in Procs : w[p] \in Locals
    BY DEF SchedulerTyped, LocalsTyped, LocalsKnown
  <1> USE DEF LockHeld, OneWorker, Scheduling
  <1>1. CASE UNCHANGED <<w, lock>>
    BY <1>1
  <1>2. ASSUME NEW p \in Procs, Work(p)
        PROVE  LockHeld' /\ OneWorker'
    <2>1. \A q \in Procs : q # p => w'[q] = w[q]
      BY <1>2, WorkKeeps DEF SchedulerTyped
    <2>2. CASE Boot(p)
      <3>1. CASE lock = NoProc
        BY <1>0, <2>1, <2>2, <3>1, NoProcAssumption DEF Boot, SoleScheduler
      <3>2. CASE lock # NoProc
        <4>1. UNCHANGED lock /\ w'[p].pc = "unlocked"
          BY <1>0, <2>2, <3>2 DEF Boot, Goto, Locals
        <4> QED
          BY <2>1, <4>1
      <3> QED
        BY <3>1, <3>2
    <2>3. CASE Scheduling(p)
      BY <1>2, <2>1, <2>3, WorkerSchedules
    <2> QED
      BY <1>2, <2>2, <2>3, WorkerSchedules
  <1>3. ASSUME NEW p \in Procs, Crash(p)
        PROVE  LockHeld' /\ OneWorker'
    BY <1>0, <1>3 DEF Crash, Down
  <1>4. ASSUME NEW p \in Procs, LoseLock(p)
        PROVE  LockHeld' /\ OneWorker'
    BY <1>4 DEF LoseLock
  <1> QED
    BY <1>1, <1>2, <1>3, <1>4, StepKinds, RowStepKeeps, UserStepKeeps, ServiceStepKeeps
       DEF vars

\* The request at the runner stays the one its worker waits for.
LEMMA CallsStep ==
  ASSUME SchedulerTyped, CallsMatch, [Next]_vars
  PROVE  CallsMatch'
  <1>0. DOMAIN w = Procs /\ DOMAIN call = Procs /\ \A p \in Procs : w[p] \in Locals
    BY DEF SchedulerTyped, LocalsTyped, LocalsKnown, ServiceTyped
  <1> USE DEF CallsMatch, Runner!Free, Runner!Is
  <1>1. CASE UNCHANGED <<w, call>>
    BY <1>1
  <1>2. CASE ServiceStep
    <2>1. UNCHANGED w
      BY <1>2, ServiceStepKeeps
    <2>2. ASSUME NEW p \in Procs, RunnerReplies(p)
          PROVE  CallsMatch'
      <3>1. PICK a \in {"RUNNING", "STOPPED", "ERROR"} : Runner!Reply(p, a)
        BY <2>2 DEF RunnerReplies
      <3>2. call[p].at = "pending"
        BY <3>1 DEF Runner!Reply
      <3>3. call' = [call EXCEPT ![p] = [call[p] EXCEPT !.at = "replied", !.reply = a]]
        BY <1>0, <3>1 DEF Runner!Reply
      <3>4. call[p] \in [at : {"pending", "replied"}, kind : {"start", "stop"}, user : Users,
                         reply : {"none", "RUNNING", "STOPPED", "ERROR"}]
        BY <3>2 DEF SchedulerTyped, ServiceTyped
      <3>5. /\ call'[p].at = "replied" /\ call'[p].reply = a
            /\ call'[p].kind = call[p].kind /\ call'[p].user = call[p].user
        BY <1>0, <3>3, <3>4
      <3>6. (a = "RUNNING" => call[p].kind = "start") /\ (a = "STOPPED" => call[p].kind = "stop")
        BY <3>1 DEF Runner!Reply
      <3>7. \A q \in Procs : q # p => call'[q] = call[q]
        BY <1>0, <3>3
      <3> QED
        BY <2>1, <3>2, <3>5, <3>6, <3>7
    <2>3. ASSUME \A p \in Procs : ~RunnerReplies(p)
          PROVE  UNCHANGED call
      BY <1>2, <2>3 DEF ServiceStep, RunnerLaunches, ContainerStops, ContainerForgotten,
         ContainerComesToLife, Runner!Launch, Runner!Stop, Runner!Forget,
         Runner!ComeToLife
    <2> QED
      BY <1>1, <2>1, <2>2, <2>3
  <1>3. ASSUME NEW p \in Procs, Work(p)
        PROVE  CallsMatch'
    <2>1. \A q \in Procs : q # p => w'[q] = w[q] /\ call'[q] = call[q]
      BY <1>3, WorkKeeps DEF SchedulerTyped
    <2>2. CASE StartCall(p) \/ StopCall(p)
      BY <1>0, <2>1, <2>2 DEF StartCall, StopCall, Call, Runner!Ask, Goto, Locals
    <2>3. CASE StartEnds(p) \/ StopEnds(p)
      <3>1. call' = [call EXCEPT ![p] = Runner!Free]
        BY <2>3 DEF StartEnds, StopEnds, CallEnds, Runner!Leave
      <3>2. call'[p].at = "free"
        BY <1>0, <3>1
      <3> QED
        BY <2>1, <3>2
    <2>4. CASE ~(StartCall(p) \/ StopCall(p) \/ StartEnds(p) \/ StopEnds(p))
      <3>1. UNCHANGED call
        BY <1>3, <2>4, WorkKeeps DEF SchedulerTyped
      <3>2. w[p].pc \notin {"starting", "stopping"}
        BY <1>3, <2>4
           DEF Work, Boot, Tick, Pick, Decide, Mark, Prepare, AgentOpen, Finish,
               Outcome,
           IdleQuery, IdleNext, List, Unwanted, MissingQuery, Missing, QueryFails
      <3> QED
        BY <2>1, <3>1, <3>2
    <2> QED
      BY <2>2, <2>3, <2>4
  <1>4. ASSUME NEW p \in Procs, Crash(p)
        PROVE  CallsMatch'
    BY <1>0, <1>4 DEF Crash, Runner!Leave
  <1>5. ASSUME NEW p \in Procs, LoseLock(p)
        PROVE  UNCHANGED <<w, call>>
    BY <1>5 DEF LoseLock, runnerVars
  <1> QED
    BY <1>1, <1>2, <1>3, <1>4, <1>5, StepKinds, RowStepKeeps, UserStepKeeps
       DEF vars, runnerVars

--------------------------------------------------------------------------------
(* Commands are executed in their order                                    *)

\* What was accepted before a command was created has an older created_at.
AheadIsOlder ==
  \A o \in Ops : \A x \in ahead[o] :
    /\ x \in AcceptedOps
    /\ ops[o].state \notin {"none", "lost"} => ops[x].at < ops[o].at

\* The command that is executed has not ended, all that were before it have.
ExecutesOldest ==
  \A p \in Procs : w[p].job = "op" => w[p].op \in Active /\ ahead[w[p].op] \subseteq Finished

\* The inductive invariant of the order in which commands are executed.
SchedulerInv ==
  /\ SchedulerTyped /\ LockHeld /\ OneWorker /\ CallsMatch
  /\ AheadIsOlder /\ ExecutesOldest /\ CommandsInOrder

\* While one process works, the others have no job and no request.
LEMMA OthersRest ==
  ASSUME SchedulerInv, NEW p \in Procs, NEW q \in Procs, q # p, Scheduling(p)
  PROVE  w[q].job = "none" /\ w[q].pc \in {"down", "unlocked"} /\ call[q].at = "free"
  <1>1. w[q].pc \in {"down", "unlocked"}
    BY DEF SchedulerInv, OneWorker, Scheduling
  <1> QED
    BY <1>1 DEF SchedulerInv, SchedulerTyped, LocalsTyped, LocalsKnown, CallsMatch

\* What the rows do in one step: ended ones stay, created ones are younger than
\* all accepted ones, and only Finish ends one.
LEMMA RowsMove ==
  ASSUME SchedulerInv, [Next]_vars
  PROVE  /\ \A o \in Finished : ops'[o] = ops[o]
         /\ \A o \in Ops : \/ ops'[o].state = "inserting" /\ ops[o].state = "none"
                              /\ ops'[o].at = clock + 1 /\ ahead'[o] = AcceptedOps
                           \/ /\ ahead'[o] = ahead[o]
                              /\ \/ ops'[o].state = "lost"
                                 \/ UNCHANGED ops[o]
                                 \/ ops[o].state \notin {"none", "lost"} /\ ops'[o].at = ops[o].at
         /\ \A o \in Active : o \in Active' \/ \E p \in Procs : Finish(p) /\ o = w[p].op
  <1>0. RowsTyped
    BY DEF SchedulerInv, SchedulerTyped
  <1> USE DEF Active, Finished
  <1>1. CASE RowStep
    <2>1. ASSUME NEW o \in Ops, NEW u \in Users, NEW k \in {"start", "open", "stop"}, Stamp(o, u, k)
          PROVE  /\ \A x \in Ops : x # o => ops'[x] = ops[x] /\ ahead'[x] = ahead[x]
                 /\ ops[o].state = "none" /\ ops'[o].state = "inserting"
                 /\ ops'[o].at = clock + 1 /\ ahead'[o] = AcceptedOps
      BY <1>0, <2>1 DEF Stamp, RowsTyped, AcceptedOps
    <2>2. ASSUME NEW o \in Ops, Accept(o)
          PROVE  /\ \A x \in Ops : x # o => ops'[x] = ops[x]
                 /\ ahead' = ahead /\ ops[o].state = "inserting" /\ ops'[o].state = "QUEUED"
                 /\ ops'[o].at = ops[o].at
      BY <1>0, <2>2 DEF Accept, RowsTyped
    <2>3. CASE \E o \in Ops, u \in Users, k \in {"start", "open", "stop"} : Stamp(o, u, k)
      BY <2>1, <2>3
    <2>4. CASE \E o \in Ops : Accept(o)
      BY <2>2, <2>4
    <2> QED
      BY <1>1, <2>3, <2>4 DEF RowStep, Submit, DisableStops
  <1>2. ASSUME UNCHANGED <<ops, ahead>>
        PROVE  /\ \A o \in Finished : ops'[o] = ops[o]
               /\ \A o \in Ops : ahead'[o] = ahead[o] /\ UNCHANGED ops[o]
               /\ Active' = Active
    BY <1>2
  <1>3. ASSUME NEW p \in Procs, Work(p), ~UNCHANGED ops
        PROVE  /\ ahead' = ahead /\ w[p].op \in Active
               /\ \A o \in Ops : o # w[p].op => ops'[o] = ops[o]
               /\ ops'[w[p].op].at = ops[w[p].op].at
               /\ Finish(p) \/ ops'[w[p].op].state = "RUNNING"
    <2>1. ahead' = ahead /\ (Mark(p) \/ Finish(p))
      BY <1>3, WorkKeeps DEF SchedulerInv, SchedulerTyped
    <2>2. w[p].op \in Active
      BY <2>1
         DEF Mark, Finish, SchedulerInv, SchedulerTyped, LocalsTyped, LocalsKnown,
             ExecutesOldest
    <2> QED
      BY <1>0, <1>3, <2>1, <2>2 DEF Mark, Finish, RowsTyped
  <1>4. ASSUME NEW p \in Procs, Crash(p)
        PROVE  /\ ahead' = ahead
               /\ \A o \in Ops : ops'[o].state = "lost" \/ ops'[o] = ops[o]
               /\ \A o \in Ops : ops[o].state # "inserting" => ops'[o] = ops[o]
    BY <1>4 DEF Crash
  <1>5. CASE \E p \in Procs : Work(p) /\ ~UNCHANGED ops
    BY <1>3, <1>5
  <1>6. CASE \E p \in Procs : Crash(p)
    <2>1. /\ ahead' = ahead
          /\ \A o \in Ops : ops'[o].state = "lost" \/ ops'[o] = ops[o]
          /\ \A o \in Ops : ops[o].state # "inserting" => ops'[o] = ops[o]
      BY <1>4, <1>6
    <2>2. /\ \A o \in Finished : ops'[o] = ops[o]
          /\ \A o \in Active : o \in Active'
      BY <2>1
    <2>3. \A o \in Ops : /\ ahead'[o] = ahead[o]
                         /\ \/ ops'[o].state = "lost"
                            \/ UNCHANGED ops[o]
                            \/ ops[o].state \notin {"none", "lost"} /\ ops'[o].at = ops[o].at
      BY <2>1
    <2> HIDE DEF Active, Finished
    <2> QED
      BY <2>2, <2>3
  <1>7. CASE UNCHANGED <<ops, ahead>>
    BY <1>2, <1>7
  <1>8. ASSUME NEW p \in Procs, LoseLock(p)
        PROVE  UNCHANGED <<ops, ahead>>
    BY <1>8 DEF LoseLock, opVars
  <1>9. ASSUME NEW p \in Procs, Work(p), UNCHANGED ops
        PROVE  UNCHANGED <<ops, ahead>>
    BY <1>9, WorkKeeps DEF SchedulerInv, SchedulerTyped
  <1>10. ASSUME UserStep \/ ServiceStep \/ UNCHANGED vars
         PROVE  UNCHANGED <<ops, ahead>>
    BY <1>10, UserStepKeeps, ServiceStepKeeps DEF vars, opVars
  <1> QED
    BY <1>1, <1>5, <1>6, <1>7, <1>8, <1>9, <1>10, StepKinds

\* Created commands are younger than accepted ones, after every step.
LEMMA AheadStep ==
  ASSUME SchedulerInv, [Next]_vars
  PROVE  AheadIsOlder'
  <1>0. RowsTyped /\ RowsKept /\ AheadIsOlder
    BY RowsStep DEF SchedulerInv, SchedulerTyped
  <1> SUFFICES ASSUME NEW o \in Ops, NEW x \in ahead'[o]
               PROVE  /\ x \in AcceptedOps'
                      /\ ops'[o].state \notin {"none", "lost"} => ops'[x].at < ops'[o].at
    BY DEF AheadIsOlder
  <1>1. CASE ops'[o].at = clock + 1 /\ ahead'[o] = AcceptedOps
    <2>1. ops[x].at \in 1..clock
      BY <1>0, <1>1 DEF RowsTyped, AcceptedOps, Active, Finished
    <2> QED
      BY <1>0, <1>1, <2>1 DEF RowsKept, RowsTyped
  <1>2. CASE /\ ahead'[o] = ahead[o]
             /\ \/ ops'[o].state = "lost"
                \/ UNCHANGED ops[o]
                \/ ops[o].state \notin {"none", "lost"} /\ ops'[o].at = ops[o].at
    BY <1>0, <1>2 DEF RowsKept, AheadIsOlder
  <1> QED
    BY <1>1, <1>2, RowsMove

\* The command that is executed stays unfinished: only its own worker ends it.
LEMMA ExecutesStep ==
  ASSUME SchedulerInv, [Next]_vars
  PROVE  ExecutesOldest'
  <1>0. /\ DOMAIN w = Procs /\ RowsTyped /\ AheadIsOlder
        /\ \A p \in Procs : w[p] \in Locals /\ LocalsKnown(p)
        /\ Finished \subseteq Finished'
    BY RowsMove DEF SchedulerInv, SchedulerTyped, LocalsTyped, LocalsKnown, Finished
  <1> SUFFICES ASSUME NEW p \in Procs, w'[p].job = "op"
               PROVE  w'[p].op \in Active' /\ ahead'[w'[p].op] \subseteq Finished'
    BY DEF ExecutesOldest
  <1>1. CASE w'[p].op = w[p].op /\ w[p].job = "op"
    <2>1. w[p].op \in Active /\ ahead[w[p].op] \subseteq Finished
      BY <1>1 DEF SchedulerInv, ExecutesOldest
    <2>2. Scheduling(p)
      BY <1>0, <1>1 DEF LocalsKnown, Scheduling
    <2>3. ASSUME NEW q \in Procs, Finish(q)
          PROVE  FALSE
      <3>1. q = p
        BY <2>2, <2>3 DEF Finish, Scheduling, SchedulerInv, OneWorker
      <3> QED
        BY <1>0, <2>3, <3>1 DEF Finish, Leave, Down
    <2>4. w[p].op \in Active'
      BY <2>1, <2>3, RowsMove
    <2>5. ahead'[w[p].op] = ahead[w[p].op]
      BY <2>1, RowsMove DEF Active
    <2> QED
      BY <1>0, <1>1, <2>1, <2>4, <2>5
  <1>2. CASE Pick(p)
    <2>1. UNCHANGED <<ops, ahead>>
      BY <1>2 DEF Pick, opVars
    <2>2. ~Goto(p, "idle")
      BY <1>0, <1>2 DEF Pick, Goto, LocalsKnown, Locals
    <2>3. PICK o \in Active :
            /\ \A x \in Active : ops[o].at <= ops[x].at
            /\ w' = [w EXCEPT ![p] = [Down EXCEPT !.pc = "decide", !.job = "op",
                                      !.op = o, !.user = ops[o].user]]
      BY <1>2, <2>2 DEF Pick
    <2>4. w'[p].op = o
      BY <1>0, <2>3 DEF Down
    <2>5. ASSUME NEW x \in ahead[o], x \in Active
          PROVE  FALSE
      <3>1. ops[x].at \in Nat /\ ops[o].at \in Nat
        BY <1>0, <2>5 DEF RowsTyped, Active
      <3>2. ops[x].at < ops[o].at
        BY <1>0 DEF AheadIsOlder, Active
      <3> QED
        BY <2>3, <2>5, <3>1, <3>2
    <2>6. ahead[o] \subseteq Finished
      BY <1>0, <2>5 DEF AheadIsOlder, AcceptedOps, Active
    <2> QED
      BY <2>1, <2>3, <2>4, <2>6 DEF Active, Finished
  <1>3. CASE Work(p) /\ ~Pick(p)
    <2>1. w[p].job = "op" /\ w'[p].op = w[p].op
      <3>1. CASE Boot(p) \/ Tick(p)
        BY <1>0, <3>1 DEF Boot, Tick, Goto, Down, Locals, LocalsKnown
      <3>2. CASE Decide(p)
        BY <1>0, <3>2 DEF Decide, Locals
      <3>3. CASE Mark(p)
        BY <1>0, <3>3 DEF Mark, Goto, Locals
      <3>4. CASE Prepare(p)
        BY <1>0, <3>4 DEF Prepare, Goto, Locals
      <3>5. CASE StartCall(p) \/ StopCall(p)
        BY <1>0, <3>5 DEF StartCall, StopCall, Call, Goto, Locals
      <3>6. CASE StartEnds(p)
        BY <1>0, <3>6 DEF StartEnds, Locals
      <3>7. CASE AgentOpen(p)
        BY <1>0, <3>7 DEF AgentOpen, Locals
      <3>8. CASE StopEnds(p)
        BY <1>0, <3>8 DEF StopEnds, Locals
      <3>9. CASE Outcome(p)
        BY <1>0, <3>9 DEF Outcome, Goto, Locals
      <3>10. CASE Finish(p)
        BY <1>0, <3>10 DEF Finish, Leave, Down
      <3>11. CASE IdleQuery(p)
        BY <1>0, <3>11 DEF IdleQuery, Down
      <3>12. CASE IdleNext(p)
        <4>1. w[p].job = "idle"
          BY <1>0, <3>12 DEF IdleNext, LocalsKnown
        <4>2. CASE Leave(p, "list")
          BY <1>0, <4>2 DEF Leave, Down
        <4>3. ASSUME NEW u \in w[p].todo, NEW pc,
                     w' = [w EXCEPT ![p].todo = @ \ {u}, ![p].user = u, ![p].pc = pc]
              PROVE  w'[p].job = w[p].job
          BY <1>0, <4>3 DEF Locals
        <4> QED
          BY <3>12, <4>1, <4>2, <4>3 DEF IdleNext
      <3>13. CASE List(p)
        BY <1>0, <3>13 DEF List, Leave, Down
      <3>14. CASE Unwanted(p)
        BY <1>0, <3>14 DEF Unwanted, Locals, LocalsKnown
      <3>15. CASE MissingQuery(p)
        BY <1>0, <3>15 DEF MissingQuery, Locals, LocalsKnown
      <3>16. CASE Missing(p)
        BY <1>0, <3>16 DEF Missing, Leave, Down, Locals, LocalsKnown
      <3>17. CASE QueryFails(p)
        BY <1>0, <3>17 DEF QueryFails, Leave, Down
      <3> QED
        BY <1>3, <3>1, <3>2, <3>3, <3>4, <3>5, <3>6, <3>7, <3>8, <3>9, <3>10, <3>11,
           <3>12,
           <3>13, <3>14, <3>15, <3>16, <3>17 DEF Work
    <2> QED
      BY <1>1, <2>1
  <1>4. CASE w'[p] = w[p]
    BY <1>1, <1>4
  <1>5. CASE Crash(p)
    BY <1>0, <1>5 DEF Crash, Down
  <1>6. ASSUME NEW q \in Procs, q # p, Work(q) \/ Crash(q)
        PROVE  w'[p] = w[p]
    BY <1>0, <1>6, WorkKeeps DEF Crash, SchedulerInv, SchedulerTyped
  <1>7. ASSUME NEW q \in Procs, LoseLock(q)
        PROVE  w'[p] = w[p]
    BY <1>7 DEF LoseLock
  <1> QED
    BY <1>2, <1>3, <1>4, <1>5, <1>6, <1>7, StepKinds, RowStepKeeps, UserStepKeeps,
       ServiceStepKeeps
       DEF vars

\* Only the command that is executed is marked or ended.
LEMMA InOrderStep ==
  ASSUME SchedulerInv, [Next]_vars
  PROVE  CommandsInOrder'
  <1> SUFFICES ASSUME NEW o \in Ops, ops'[o].state \in {"RUNNING", "SUCCEEDED", "FAILED", "UNKNOWN"}
               PROVE  ahead'[o] \subseteq Finished'
    BY DEF CommandsInOrder
  <1>0. ahead'[o] = ahead[o] /\ Finished \subseteq Finished'
    BY RowsMove DEF Finished
  <1>1. CASE ops[o].state \in {"RUNNING", "SUCCEEDED", "FAILED", "UNKNOWN"}
    BY <1>0, <1>1 DEF SchedulerInv, CommandsInOrder
  <1>2. ASSUME NEW p \in Procs, Mark(p) \/ Finish(p), o = w[p].op
        PROVE  ahead'[o] \subseteq Finished'
    BY <1>0, <1>2
       DEF Mark, Finish, SchedulerInv, SchedulerTyped, LocalsTyped, LocalsKnown,
           ExecutesOldest
  <1>3. CASE ops'[o].state = ops[o].state
    BY <1>1, <1>3
  <1>4. ASSUME NEW p \in Procs, Work(p)
        PROVE  ahead'[o] \subseteq Finished'
    BY <1>2, <1>3, <1>4, WorkKeeps
       DEF Mark, Finish, SchedulerInv, SchedulerTyped, RowsTyped
  <1>5. ASSUME NEW p \in Procs, Crash(p) \/ LoseLock(p)
        PROVE  ops'[o].state = ops[o].state
    BY <1>5 DEF Crash, LoseLock, opVars
  <1>6. CASE RowStep
    BY <1>3, <1>6
       DEF RowStep, Submit, DisableStops, Accept, Stamp, SchedulerInv, SchedulerTyped,
           RowsTyped
  <1> QED
    BY <1>3, <1>4, <1>5, <1>6, StepKinds, UserStepKeeps, ServiceStepKeeps
       DEF vars, opVars

\* The invariant of the order holds in every reachable state.
THEOREM SchedulerInvariant ==
  ASSUME SoleScheduler
  PROVE  Spec => []SchedulerInv
  <1>1. Init /\ SchedulerTyped => SchedulerInv
    BY
       DEF Init, SchedulerInv, LockHeld, OneWorker, Scheduling, CallsMatch,
           AheadIsOlder,
           ExecutesOldest,
       CommandsInOrder, Down, Runner!ServiceInit, Runner!Free
  <1>2. SchedulerInv /\ SchedulerTyped' /\ [Next]_vars => SchedulerInv'
    BY OneWorkerStep, CallsStep, AheadStep, ExecutesStep, InOrderStep DEF SchedulerInv
  <1> QED
    BY <1>1, <1>2, SchedulerTypes, PTL DEF Spec

\* No command is marked or ended before every command accepted before it was
\* created has ended, through crashes and failed updates (CommandsInOrder).
THEOREM InOrderHolds ==
  ASSUME SoleScheduler
  PROVE  Spec => []CommandsInOrder
  <1>1. SchedulerInv => CommandsInOrder
    BY DEF SchedulerInv
  <1> QED
    BY <1>1, SchedulerInvariant, PTL

\* As long as the advisory lock lasts, no two API processes execute one operation
\* (NoDoubleExecution, the claim of docs/architecture.md: it needs that assumption).
THEOREM SingleExecution ==
  ASSUME SoleScheduler
  PROVE  Spec => []NoDoubleExecution
  <1>1. SchedulerInv => NoDoubleExecution
    BY DEF SchedulerInv, OneWorker, Scheduling, NoDoubleExecution
  <1> QED
    BY <1>1, SchedulerInvariant, PTL

--------------------------------------------------------------------------------
(* What a job knows about its session                                      *)

\* The kind of the command that p executes.
Kind(p) == ops[w[p].op].kind

\* The session of p's job is in one of the states S, unless its last write failed.
Session(p, S) == w[p].user \in stale \/ sess[w[p].user] \in S

\* What the position of a worker says about the session of its job: STARTING or
\* RUNNING until a start has its answer, not RUNNING when a stop ends, RUNNING
\* when a success of another command is recorded.
SessionKnown(p) ==
  /\ w[p].pc \in {"start", "starting"} =>
       Kind(p) # "stop" /\ Session(p, {"STARTING", "RUNNING"})
  /\ w[p].pc = "agent" => Kind(p) # "stop" /\ Session(p, {"RUNNING"})
  /\ w[p].pc \in {"stop", "stopping"} /\ w[p].job = "op" => Kind(p) = "stop"
  /\ w[p].pc = "outcome" /\ w[p].job # "op" => w[p].out # "RUNNING"
  /\ w[p].pc = "outcome" /\ w[p].job = "op" =>
       /\ w[p].out \in (IF Kind(p) = "stop" THEN {"STOPPED", "FAILED"} ELSE {"RUNNING", "FAILED"})
       /\ w[p].out = "FAILED" <=> w[p].fin = "FAILED"
       /\ Kind(p) = "stop" => w[p].fin # "open"
  /\ w[p].pc = "finish" /\ Kind(p) = "stop" =>
       Session(p, {"STOPPED", "STOPPING", "STARTING", "FAILED"})
  /\ w[p].pc = "finish" /\ Kind(p) # "stop" /\ w[p].fin = "SUCCEEDED"
       => Session(p, {"RUNNING"})

\* What is said about sessions is true of every worker.
SessionsKnown == \A p \in Procs : SessionKnown(p)

\* It stays true while neither the worker nor a session changes.
LEMMA SessionStays ==
  ASSUME NEW p \in Procs, SessionKnown(p), LocalsKnown(p), RowsKept,
         UNCHANGED <<w[p], sessVars>>
  PROVE  SessionKnown(p)'
  BY DEF SessionKnown, Session, LocalsKnown, RowsKept, Kind

\* It is true after every step of the worker itself.
LEMMA WorkSession ==
  ASSUME SchedulerInv, RowsKept, NEW p \in Procs, SessionKnown(p), Work(p)
  PROVE  SessionKnown(p)'
  <1>0. /\ DOMAIN w = Procs /\ w[p] \in Locals /\ LocalsKnown(p)
        /\ sess \in [Users -> SessionStates]
    BY DEF SchedulerInv, SchedulerTyped, LocalsTyped, LocalsKnown, UsersTyped
  <1>u. w[p].job = "op" => w[p].user \in Users /\ Kind(p) \in {"start", "open", "stop"}
    BY <1>0
       DEF LocalsKnown, SchedulerInv, SchedulerTyped, RowsTyped, AcceptedOps, Active,
           Finished,
           Kind
  <1>k. w'[p].op = w[p].op /\ w[p].job = "op" => Kind(p)' = Kind(p)
    BY <1>0 DEF LocalsKnown, RowsKept, Kind
  <1>1. CASE Boot(p) \/ Tick(p)
    <2>1. w'[p].pc \in {"list", "pick", "unlocked"}
      BY <1>0, <1>1 DEF Boot, Tick, Goto, Down, Locals
    <2> QED
      BY <2>1 DEF SessionKnown
  <1>2. CASE Pick(p)
    <2>1. CASE Goto(p, "idle")
      BY <1>0, <2>1 DEF Goto, Locals, SessionKnown
    <2>2. ASSUME NEW o \in Active,
                 w' = [w EXCEPT ![p] = [Down EXCEPT !.pc = "decide", !.job = "op",
                                        !.op = o, !.user = ops[o].user]]
          PROVE  SessionKnown(p)'
      BY <1>0, <2>2 DEF Down, SessionKnown
    <2> QED
      BY <1>2, <2>1, <2>2 DEF Pick
  <1>3. CASE Decide(p)
    <2>1. w[p].job = "op" /\ UNCHANGED <<w[p].op, w[p].user, sessVars>>
      BY <1>0, <1>3 DEF Decide, LocalsKnown, Locals
    <2>2. \/ w'[p].pc = "mark"
          \/ w'[p].pc = "finish" /\ w'[p].fin = "FAILED" /\ Kind(p) # "stop"
      BY <1>0, <1>3 DEF Decide, Locals, Kind
    <2> QED
      BY <1>k, <2>1, <2>2 DEF SessionKnown
  <1>4. CASE Mark(p)
    BY <1>0, <1>4 DEF Mark, Goto, Locals, SessionKnown
  <1>5. CASE Prepare(p)
    <2>1. UNCHANGED <<w[p].job, w[p].op, w[p].user>>
      BY <1>0, <1>5 DEF Prepare, Goto, Locals
    <2>2. CASE w[p].job # "op" \/ Kind(p) = "stop"
      <3>1. w'[p].pc = "stop"
        BY <1>0, <1>5, <2>2 DEF Prepare, Goto, Locals, Kind
      <3> QED
        BY <1>k, <2>1, <2>2, <3>1 DEF SessionKnown
    <2>3. CASE w[p].job = "op" /\ Kind(p) # "stop"
      <3>1. w'[p].pc = "start"
        BY <1>0, <1>5, <2>3 DEF Prepare, Goto, Locals, Kind
      <3>2. w[p].user \in stale' \/ sess'[w[p].user] \in {"STARTING", "RUNNING"}
        BY <1>0, <1>u, <1>5, <2>3 DEF Prepare, SetState, Kind
      <3> QED
        BY <1>k, <2>1, <2>3, <3>1, <3>2 DEF SessionKnown, Session
    <2> QED
      BY <2>2, <2>3
  <1>6. CASE StartCall(p)
    <2>1. UNCHANGED <<w[p].job, w[p].op, w[p].user, sessVars>> /\ w'[p].pc = "starting"
      BY <1>0, <1>6 DEF StartCall, Call, Goto, Locals
    <2> QED
      BY <1>0, <1>k, <1>6, <2>1 DEF StartCall, SessionKnown, Session, LocalsKnown
  <1>7. CASE StopCall(p)
    <2>1. UNCHANGED <<w[p].job, w[p].op, w[p].user, sessVars>> /\ w'[p].pc = "stopping"
      BY <1>0, <1>7 DEF StopCall, Call, Goto, Locals
    <2> QED
      BY <1>0, <1>k, <1>7, <2>1 DEF StopCall, SessionKnown, LocalsKnown
  <1>8. CASE StartEnds(p)
    <2>1. /\ UNCHANGED <<w[p].job, w[p].op, w[p].user>> /\ w'[p].pc = "outcome"
          /\ \/ w'[p].out = "RUNNING" /\ w'[p].fin \in {"open", "SUCCEEDED"}
             \/ w'[p].out = "FAILED" /\ w'[p].fin = "FAILED"
      BY <1>0, <1>8 DEF StartEnds, Locals
    <2>2. w[p].job = "op" /\ Kind(p) # "stop"
      BY <1>0, <1>8 DEF StartEnds, LocalsKnown, SessionKnown
    <2> QED
      BY <1>k, <2>1, <2>2 DEF SessionKnown
  <1>9. CASE AgentOpen(p)
    <2>1. UNCHANGED <<w[p].job, w[p].op, w[p].user, sessVars>> /\ w'[p].pc = "finish"
      BY <1>0, <1>9 DEF AgentOpen, Locals
    <2>2. w[p].job = "op" /\ Kind(p) # "stop" /\ Session(p, {"RUNNING"})
      BY <1>0, <1>9 DEF AgentOpen, LocalsKnown, SessionKnown
    <2> QED
      BY <1>k, <2>1, <2>2 DEF SessionKnown, Session
  <1>10. CASE Finish(p)
    BY <1>0, <1>10 DEF Finish, Leave, Down, SessionKnown
  <1>11. CASE StopEnds(p)
    <2>1. /\ UNCHANGED <<w[p].job, w[p].op, w[p].user>> /\ w'[p].pc \in {"outcome", "unwanted"}
          /\ \/ w'[p].out = "STOPPED" /\ w'[p].fin = "SUCCEEDED"
             \/ w'[p].out = "FAILED" /\ w'[p].fin = "FAILED"
      BY <1>0, <1>11 DEF StopEnds, Locals
    <2>2. w[p].job = "op" => Kind(p) = "stop"
      BY <1>11 DEF StopEnds, SessionKnown
    <2> QED
      BY <1>k, <2>1, <2>2 DEF SessionKnown
  <1>12. CASE Outcome(p)
    <2>1. UNCHANGED <<w[p].job, w[p].op, w[p].user, w[p].fin>>
      BY <1>0, <1>12 DEF Outcome, Goto, Locals
    <2>2. w'[p].pc \in {"idleNext", "unwanted", "agent", "finish"}
      BY <1>0, <1>12 DEF Outcome, Goto, Locals
    <2>3. CASE w[p].job # "op"
      <3>1. w'[p].pc \notin {"agent", "finish"}
        BY <1>0, <1>12, <2>3 DEF Outcome, Goto, Locals, LocalsKnown
      <3> QED
        BY <2>2, <3>1 DEF SessionKnown
    <2>4. CASE w[p].job = "op"
      <3>1. w'[p].pc = IF w[p].fin = "open" THEN "agent" ELSE "finish"
        BY <1>0, <1>12, <2>4 DEF Outcome, Goto, Locals
      <3>2. w[p].user \in stale' \/ sess'[w[p].user] = w[p].out
        BY <1>0, <1>u, <1>12, <2>4 DEF Outcome, SetState
      <3>3. /\ w[p].out \in (IF Kind(p) = "stop" THEN {"STOPPED", "FAILED"} ELSE {"RUNNING", "FAILED"})
            /\ w[p].out = "FAILED" <=> w[p].fin = "FAILED"
            /\ Kind(p) = "stop" => w[p].fin # "open"
        BY <1>12, <2>4 DEF Outcome, SessionKnown
      <3> QED
        BY <1>k, <2>1, <2>4, <3>1, <3>2, <3>3 DEF SessionKnown, Session
    <2> QED
      BY <2>3, <2>4
  <1>13. CASE IdleQuery(p) \/ IdleNext(p) \/ List(p)
    <2>1. CASE IdleQuery(p) \/ List(p)
      <3>1. CASE IdleQuery(p)
        BY <1>0, <3>1 DEF IdleQuery, Down, SessionKnown
      <3>2. CASE List(p)
        BY <1>0, <3>2 DEF List, Leave, Down, SessionKnown
      <3> QED
        BY <2>1, <3>1, <3>2
    <2>2. CASE IdleNext(p)
      <3>1. CASE Leave(p, "list")
        BY <1>0, <3>1 DEF Leave, Down, SessionKnown
      <3>2. ASSUME NEW u \in w[p].todo, NEW pc \in {"idleNext", "prepare"},
                   w' = [w EXCEPT ![p].todo = @ \ {u}, ![p].user = u, ![p].pc = pc]
            PROVE  SessionKnown(p)'
        <4>1. w'[p].pc = pc
          BY <1>0, <3>2 DEF Locals
        <4> QED
          BY <4>1 DEF SessionKnown
      <3> QED
        BY <2>2, <3>1, <3>2 DEF IdleNext
    <2> QED
      BY <1>13, <2>1, <2>2
  <1>14. CASE Unwanted(p)
    <2>1. w'[p].pc \in {"stop", "unwanted"} /\ w'[p].job = "reconcile"
      BY <1>0, <1>14 DEF Unwanted, Locals, LocalsKnown
    <2> QED
      BY <2>1 DEF SessionKnown
  <1>15. CASE MissingQuery(p)
    BY <1>0, <1>15 DEF MissingQuery, Locals, SessionKnown
  <1>16. CASE Missing(p)
    <2>1. w'[p].pc \in {"tick", "missing"}
      BY <1>0, <1>16 DEF Missing, Leave, Down, Locals
    <2> QED
      BY <2>1 DEF SessionKnown
  <1>17. CASE QueryFails(p)
    BY <1>0, <1>17 DEF QueryFails, Leave, Down, SessionKnown
  <1> QED
    BY <1>1, <1>2, <1>3, <1>4, <1>5, <1>6, <1>7, <1>8, <1>9, <1>10, <1>11, <1>12, <1>13,
       <1>14, <1>15, <1>16, <1>17 DEF Work

\* It is true after every step: no two workers write sessions.
LEMMA SessionStep ==
  ASSUME SchedulerInv, SessionsKnown, [Next]_vars
  PROVE  SessionsKnown'
  <1> SUFFICES ASSUME NEW p \in Procs
               PROVE  SessionKnown(p)'
    BY DEF SessionsKnown
  <1>0. DOMAIN w = Procs /\ LocalsKnown(p) /\ RowsKept /\ SessionKnown(p)
    BY RowsStep DEF SchedulerInv, SchedulerTyped, LocalsTyped, SessionsKnown
  <1>1. CASE UNCHANGED <<w[p], sessVars>>
    BY <1>0, <1>1, SessionStays
  <1>2. CASE Work(p)
    BY <1>0, <1>2, WorkSession
  <1>3. ASSUME NEW q \in Procs, q # p, Work(q)
        PROVE  SessionKnown(p)'
    <2>1. w'[p] = w[p]
      BY <1>3, WorkKeeps DEF SchedulerInv, SchedulerTyped
    <2>2. CASE UNCHANGED sessVars
      BY <1>1, <2>1, <2>2
    <2>3. CASE Scheduling(q)
      <3>1. w'[p].pc \in {"down", "unlocked"}
        BY <1>3, <2>1, <2>3, OthersRest
      <3> QED
        BY <3>1 DEF SessionKnown
    <2>4. Boot(q) => UNCHANGED sessVars
      BY DEF Boot
    <2> QED
      BY <1>3, <2>2, <2>3, <2>4, WorkerSchedules DEF SchedulerInv
  <1>4. CASE Crash(p)
    BY <1>0, <1>4 DEF Crash, Down, SessionKnown
  <1>5. ASSUME NEW q \in Procs, (q # p /\ Crash(q)) \/ LoseLock(q)
        PROVE  UNCHANGED <<w[p], sessVars>>
    BY <1>0, <1>5 DEF Crash, LoseLock
  <1> QED
    BY <1>1, <1>2, <1>3, <1>4, <1>5, StepKinds, RowStepKeeps, UserStepKeeps,
       ServiceStepKeeps
       DEF vars

--------------------------------------------------------------------------------
(* A stopped session has no container                                      *)

\* The containers that run for a served start.
Served == up \ strays

\* What a worker has learnt about containers: none after the answer STOPPED, all
\* of them in the list that reconcile works with.
ServedKnown(p) ==
  /\ call[p].at = "replied" /\ call[p].reply = "STOPPED" => call[p].user \notin Served
  /\ w[p].pc = "outcome" /\ w[p].out = "STOPPED" => w[p].user \notin Served
  /\ w[p].job = "reconcile" => Served \subseteq w[p].actual
  /\ w[p].pc = "missing" => \A e \in w[p].todo : e.user \notin Served

\* The inductive invariant of StoppedHasNoContainer.
ContainerInv ==
  SchedulerInv /\ SessionsKnown /\ (\A p \in Procs : ServedKnown(p)) /\ StoppedHasNoContainer

\* Only a start that its worker waits for launches a container.
LEMMA ServedGrows ==
  ASSUME ContainerInv, [Next]_vars
  PROVE  \/ Served' \subseteq Served
         \/ \E p \in Procs : /\ w[p].pc = "starting" /\ RunnerLaunches(p)
                             /\ Served' \subseteq Served \cup {w[p].user}
  <1>0. strays \subseteq up
    BY DEF ContainerInv, SchedulerInv, SchedulerTyped, ServiceTyped
  <1>1. ASSUME NEW p \in Procs, RunnerLaunches(p)
        PROVE  w[p].pc = "starting" /\ Served' \subseteq Served \cup {w[p].user}
    <2>1. call[p].at = "pending" /\ call[p].kind = "start"
      BY <1>1 DEF RunnerLaunches, Runner!Launch, Runner!Is
    <2>2. w[p].pc = "starting" /\ call[p].user = w[p].user
      BY <2>1 DEF ContainerInv, SchedulerInv, CallsMatch
    <2> QED
      BY <1>1, <2>2 DEF RunnerLaunches, Runner!Launch, Served
  <1>2. ASSUME NEW p \in Procs, RunnerReplies(p)
        PROVE  Served' \subseteq Served
    BY <1>2 DEF RunnerReplies, Runner!Reply, Runner!Quits, Served
  <1>3. ASSUME NEW u \in Users,
               ContainerStops(u) \/ ContainerForgotten(u) \/ ContainerComesToLife(u)
        PROVE  Served' \subseteq Served
    BY <1>0, <1>3
       DEF ContainerStops, ContainerForgotten, ContainerComesToLife, Runner!Stop,
       Runner!Forget, Runner!ComeToLife, Runner!Quits, Served
  <1>4. CASE ServiceStep
    BY <1>1, <1>2, <1>3, <1>4 DEF ServiceStep
  <1>5. ASSUME NEW p \in Procs, Work(p)
        PROVE  Served' \subseteq Served
    BY <1>5, WorkKeeps DEF Served, ContainerInv, SchedulerInv, SchedulerTyped
  <1>6. ASSUME NEW p \in Procs, Crash(p) \/ LoseLock(p)
        PROVE  Served' \subseteq Served
    BY <1>6 DEF Crash, LoseLock, Runner!Leave, runnerVars, Served
  <1>7. CASE RowStep \/ UserStep \/ UNCHANGED vars
    BY <1>7, RowStepKeeps, UserStepKeeps DEF vars, runnerVars, Served
  <1> QED
    BY <1>4, <1>5, <1>6, <1>7, StepKinds

\* What a worker has learnt stays true while it starts nothing itself.
LEMMA SeenStays ==
  ASSUME ContainerInv, [Next]_vars, NEW p \in Procs, UNCHANGED <<w[p], call[p]>>
  PROVE  ServedKnown(p)'
  <1>0. ServedKnown(p) /\ LocalsKnown(p)
    BY DEF ContainerInv, SchedulerInv, SchedulerTyped, LocalsTyped
  <1>1. CASE Served' \subseteq Served
    BY <1>0, <1>1 DEF ServedKnown
  <1>2. ASSUME NEW q \in Procs, w[q].pc = "starting", RunnerLaunches(q)
        PROVE  ServedKnown(p)'
    <2>1. CASE q = p
      <3>1. call[p].at = "pending"
        BY <1>2, <2>1 DEF RunnerLaunches, Runner!Launch, Runner!Is
      <3> QED
        BY <1>0, <1>2, <2>1, <3>1 DEF ServedKnown, LocalsKnown
    <2>2. CASE q # p
      <3>1. w[p].job = "none" /\ w[p].pc \in {"down", "unlocked"} /\ call[p].at = "free"
        BY <1>2, <2>2, OthersRest DEF ContainerInv, Scheduling
      <3> QED
        BY <3>1 DEF ServedKnown
    <2> QED
      BY <2>1, <2>2
  <1> QED
    BY <1>1, <1>2, ServedGrows

\* A worker's own steps conclude nothing about containers it has not learnt.
LEMMA WorkSees ==
  ASSUME "inspect" \notin Faults, ContainerInv, NEW p \in Procs, Work(p)
  PROVE  ServedKnown(p)'
  <1>0. /\ DOMAIN w = Procs /\ DOMAIN call = Procs
        /\ w[p] \in Locals /\ LocalsKnown(p) /\ ServedKnown(p)
    BY DEF ContainerInv, SchedulerInv, SchedulerTyped, LocalsTyped, LocalsKnown,
       ServiceTyped
  <1>r. UNCHANGED Served
    BY WorkKeeps DEF ContainerInv, SchedulerInv, SchedulerTyped, Served
  <1>c. call[p].at # "free" => w[p].pc \in {"starting", "stopping"}
    BY DEF ContainerInv, SchedulerInv, CallsMatch
  <1>1. CASE Boot(p) \/ Tick(p) \/ Decide(p) \/ Mark(p) \/ AgentOpen(p)
    <2>1. UNCHANGED call
      BY <1>1 DEF Boot, Tick, Decide, Mark, AgentOpen, runnerVars
    <2>2. w'[p].pc \notin {"outcome", "missing"} /\ w'[p].job # "reconcile"
      BY <1>0, <1>1
         DEF Boot, Tick, Decide, Mark, AgentOpen, Goto, Down, Locals, LocalsKnown
    <2> QED
      BY <1>1, <1>c, <2>1, <2>2 DEF ServedKnown, Boot, Tick, Decide, Mark, AgentOpen
  <1>2. CASE Pick(p)
    <2>1. UNCHANGED call /\ w[p].pc = "pick"
      BY <1>2 DEF Pick, runnerVars
    <2>2. CASE Goto(p, "idle")
      BY <1>0, <1>c, <2>1, <2>2 DEF Goto, Locals, LocalsKnown, ServedKnown
    <2>3. ASSUME NEW o \in Active,
                 w' = [w EXCEPT ![p] = [Down EXCEPT !.pc = "decide", !.job = "op",
                                        !.op = o, !.user = ops[o].user]]
          PROVE  ServedKnown(p)'
      BY <1>0, <1>c, <2>1, <2>3 DEF Down, ServedKnown
    <2> QED
      BY <1>2, <2>2, <2>3 DEF Pick
  <1>3. CASE Prepare(p)
    <2>1. UNCHANGED call /\ w[p].pc = "prepare"
      BY <1>3 DEF Prepare, runnerVars
    <2>2. w'[p].pc \in {"stop", "start"} /\ w'[p].job = w[p].job
      BY <1>0, <1>3 DEF Prepare, Goto, Locals
    <2>3. w[p].job # "reconcile"
      BY <1>0, <2>1 DEF LocalsKnown
    <2> QED
      BY <1>c, <2>1, <2>2, <2>3 DEF ServedKnown
  <1>4. CASE StartCall(p) \/ StopCall(p)
    <2>1. UNCHANGED <<w[p].job, w[p].actual>> /\ w'[p].pc \in {"starting", "stopping"}
      BY <1>0, <1>4 DEF StartCall, StopCall, Call, Goto, Locals
    <2>2. call'[p].at = "pending"
      BY <1>0, <1>4 DEF StartCall, StopCall, Call, Runner!Ask
    <2> QED
      BY <1>0, <1>r, <2>1, <2>2 DEF ServedKnown
  <1>5. CASE StartEnds(p)
    <2>1. w'[p].job = w[p].job /\ w'[p].pc = "outcome" /\ w'[p].out # "STOPPED"
      BY <1>0, <1>5 DEF StartEnds, Locals
    <2>2. call'[p].at = "free"
      BY <1>0, <1>5 DEF StartEnds, CallEnds, Runner!Leave, Runner!Free
    <2>3. w[p].job = "op"
      BY <1>0, <1>5 DEF StartEnds, LocalsKnown
    <2> QED
      BY <2>1, <2>2, <2>3 DEF ServedKnown
  <1>6. CASE StopEnds(p)
    <2>1. call'[p].at = "free"
      BY <1>0, <1>6 DEF StopEnds, CallEnds, Runner!Leave, Runner!Free
    <2>2. PICK ok \in BOOLEAN :
            /\ CallEnds(p, ok)
            /\ w' = [w EXCEPT
                 ![p].pc = IF ok \/ w[p].job # "reconcile" THEN "outcome" ELSE "unwanted",
                 ![p].out = IF ok THEN "STOPPED" ELSE "FAILED",
                 ![p].fin = IF ok THEN "SUCCEEDED" ELSE "FAILED",
                 ![p].actual = IF ok THEN @ \ {w[p].user} ELSE @]
      BY <1>6 DEF StopEnds
    <2>3. /\ w'[p].pc \in {"outcome", "unwanted"}
          /\ w'[p].out = "STOPPED" => ok
          /\ w'[p].actual = IF ok THEN w[p].actual \ {w[p].user} ELSE w[p].actual
          /\ UNCHANGED <<w[p].job, w[p].user>>
      BY <1>0, <2>2 DEF Locals
    <2>4. ok => w[p].user \notin Served
      <3>1. SUFFICES ASSUME ok PROVE w[p].user \notin Served
        OBVIOUS
      <3>2. call[p].at = "replied" /\ call[p].reply # "ERROR"
        BY <2>2, <3>1 DEF CallEnds, Runner!Is
      <3>3. call[p].kind = "stop" /\ call[p].user = w[p].user
        BY <1>6, <3>2 DEF StopEnds, ContainerInv, SchedulerInv, CallsMatch
      <3>4. call[p].reply = "STOPPED"
        BY <3>2, <3>3 DEF ContainerInv, SchedulerInv, CallsMatch
      <3> QED
        BY <1>0, <3>2, <3>3, <3>4 DEF ServedKnown
    <2> QED
      BY <1>0, <1>r, <2>1, <2>3, <2>4 DEF ServedKnown
  <1>7. CASE Outcome(p)
    <2>1. UNCHANGED <<call, w[p].job, w[p].actual>>
      BY <1>0, <1>7 DEF Outcome, Goto, Locals, runnerVars
    <2>2. w'[p].pc \in {"idleNext", "unwanted", "agent", "finish"}
      BY <1>0, <1>7 DEF Outcome, Goto, Locals
    <2> QED
      BY <1>0, <1>r, <1>c, <1>7, <2>1, <2>2 DEF ServedKnown, Outcome
  <1>8. CASE Finish(p) \/ IdleQuery(p)
    <2>1. CASE Finish(p)
      BY <1>0, <1>c, <2>1 DEF Finish, Leave, Down, ServedKnown, runnerVars
    <2>2. CASE IdleQuery(p)
      BY <1>0, <1>c, <2>2 DEF IdleQuery, Down, ServedKnown, runnerVars
    <2> QED
      BY <1>8, <2>1, <2>2
  <1>9. CASE IdleNext(p)
    <2>1. UNCHANGED call /\ w[p].pc = "idleNext"
      BY <1>9 DEF IdleNext, runnerVars
    <2>2. CASE Leave(p, "list")
      BY <1>0, <1>c, <2>1, <2>2 DEF Leave, Down, ServedKnown
    <2>3. ASSUME NEW u \in w[p].todo, NEW pc \in {"idleNext", "prepare"},
                 w' = [w EXCEPT ![p].todo = @ \ {u}, ![p].user = u, ![p].pc = pc]
          PROVE  ServedKnown(p)'
      <3>1. w'[p].pc = pc /\ w'[p].job = w[p].job
        BY <1>0, <2>3 DEF Locals
      <3> QED
        BY <1>0, <1>c, <2>1, <3>1 DEF ServedKnown, LocalsKnown
    <2> QED
      BY <1>9, <2>2, <2>3 DEF IdleNext
  <1>10. CASE List(p)
    <2>1. UNCHANGED call /\ w[p].pc = "list"
      BY <1>10 DEF List, runnerVars
    <2>2. CASE Leave(p, "tick")
      BY <1>0, <1>c, <2>1, <2>2 DEF Leave, Down, ServedKnown
    <2>3. CASE w' = [w EXCEPT ![p] = [Down EXCEPT !.pc = "unwanted", !.job = "reconcile",
                                        !.todo = up, !.actual = up]]
      BY <1>0, <1>c, <1>r, <2>1, <2>3 DEF Down, ServedKnown, Served
    <2> QED
      BY <1>10, <2>2, <2>3 DEF List, Runner!Seen
  <1>11. CASE Unwanted(p)
    <2>1. UNCHANGED call /\ w[p].pc = "unwanted"
      BY <1>11 DEF Unwanted, runnerVars
    <2>2. w'[p].pc \in {"stop", "unwanted"} /\ UNCHANGED <<w[p].job, w[p].actual>>
      BY <1>0, <1>11 DEF Unwanted, Locals
    <2> QED
      BY <1>0, <1>c, <1>r, <2>1, <2>2 DEF ServedKnown
  <1>12. CASE MissingQuery(p)
    <2>1. UNCHANGED <<call, w[p].job, w[p].actual>> /\ w'[p].pc = "missing"
      BY <1>0, <1>12 DEF MissingQuery, Locals, runnerVars
    <2>2. w'[p].todo = {[user |-> u,
                         to |-> IF sess[u] = "STOPPING" THEN "STOPPED" ELSE "FAILED"] :
                          u \in {v \in Users \ w[p].actual :
                                   sess[v] \in {"RUNNING", "STARTING", "STOPPING"}}}
      BY <1>0, <1>12 DEF MissingQuery, Locals
    <2>3. Served \subseteq w[p].actual
      BY <1>0, <1>12 DEF MissingQuery, LocalsKnown, ServedKnown
    <2> QED
      BY <1>0, <1>c, <1>r, <1>12, <2>1, <2>2, <2>3 DEF MissingQuery, ServedKnown
  <1>13. CASE Missing(p)
    <2>1. UNCHANGED call /\ w[p].pc = "missing"
      BY <1>13 DEF Missing, runnerVars
    <2>2. CASE Leave(p, "tick")
      BY <1>0, <1>c, <2>1, <2>2 DEF Leave, Down, ServedKnown
    <2>3. ASSUME NEW e \in w[p].todo, w' = [w EXCEPT ![p].todo = @ \ {e}]
          PROVE  ServedKnown(p)'
      <3>1. w'[p].todo = w[p].todo \ {e} /\ UNCHANGED <<w[p].pc, w[p].job, w[p].actual>>
        BY <1>0, <2>3 DEF Locals
      <3> QED
        BY <1>0, <1>c, <1>r, <2>1, <3>1 DEF ServedKnown
    <2> QED
      BY <1>13, <2>2, <2>3 DEF Missing
  <1>14. CASE QueryFails(p)
    BY <1>0, <1>c, <1>14 DEF QueryFails, Leave, Down, ServedKnown, runnerVars
  <1> QED
    BY <1>1, <1>2, <1>3, <1>4, <1>5, <1>6, <1>7, <1>8, <1>9, <1>10, <1>11, <1>12, <1>13,
       <1>14 DEF Work

\* What a worker has learnt is true after every step.
LEMMA SeenStep ==
  ASSUME "inspect" \notin Faults, ContainerInv, [Next]_vars, NEW p \in Procs
  PROVE  ServedKnown(p)'
  <1>0. DOMAIN w = Procs /\ DOMAIN call = Procs
    BY DEF ContainerInv, SchedulerInv, SchedulerTyped, LocalsTyped, ServiceTyped
  <1>1. CASE Work(p)
    BY <1>1, WorkSees
  <1>2. ASSUME NEW q \in Procs, q # p, Work(q)
        PROVE  ServedKnown(p)'
    BY <1>2, WorkKeeps, SeenStays DEF ContainerInv, SchedulerInv, SchedulerTyped
  <1>3. CASE Crash(p)
    <2>1. w'[p] = Down /\ call'[p].at = "free"
      BY <1>0, <1>3 DEF Crash, Runner!Leave, Runner!Free
    <2> QED
      BY <2>1 DEF ServedKnown, Down
  <1>4. ASSUME NEW q \in Procs, (q # p /\ Crash(q)) \/ LoseLock(q)
        PROVE  UNCHANGED <<w[p], call[p]>>
    BY <1>0, <1>4 DEF Crash, LoseLock, Runner!Leave, runnerVars
  <1>5. CASE ServiceStep
    <2>1. UNCHANGED w
      BY <1>5, ServiceStepKeeps
    <2>2. ASSUME NEW q \in Procs, RunnerReplies(q)
          PROVE  ServedKnown(p)'
      <3>1. CASE q # p
        BY <1>0, <2>1, <2>2, <3>1, SeenStays DEF RunnerReplies, Runner!Reply
      <3>2. CASE q = p
        <4>1. PICK a \in {"RUNNING", "STOPPED", "ERROR"} : Runner!Reply(p, a)
          BY <2>2, <3>2 DEF RunnerReplies
        <4>2. call[p].at = "pending" /\ w[p].pc \in {"starting", "stopping"}
          BY <4>1 DEF Runner!Reply, Runner!Is, ContainerInv, SchedulerInv, CallsMatch
        <4>3. call[p] \in [at : {"pending", "replied"}, kind : {"start", "stop"}, user : Users,
                           reply : {"none", "RUNNING", "STOPPED", "ERROR"}]
          BY <4>2
             DEF ContainerInv, SchedulerInv, SchedulerTyped, ServiceTyped, Runner!Free
        <4>4. call'[p].reply = a /\ call'[p].user = call[p].user
          BY <1>0, <4>1, <4>3 DEF Runner!Reply
        <4>5. Served' \subseteq Served
          BY <4>1 DEF Runner!Reply, Runner!Quits, Served
        <4>6. a = "STOPPED" => call[p].user \notin up'
          BY <4>1 DEF Runner!Reply
        <4>7. ServedKnown(p)
          BY DEF ContainerInv
        <4> QED
          BY <2>1, <4>2, <4>4, <4>5, <4>6, <4>7 DEF ServedKnown, Served
      <3> QED
        BY <3>1, <3>2
    <2>3. ASSUME \A q \in Procs : ~RunnerReplies(q)
          PROVE  UNCHANGED call
      BY <1>5, <2>3 DEF ServiceStep, RunnerLaunches, ContainerStops, ContainerForgotten,
         ContainerComesToLife, Runner!Launch, Runner!Stop, Runner!Forget,
         Runner!ComeToLife
    <2> QED
      BY <2>1, <2>2, <2>3, SeenStays
  <1>6. CASE RowStep \/ UserStep \/ UNCHANGED vars
    BY <1>6, RowStepKeeps, UserStepKeeps, SeenStays DEF vars, runnerVars
  <1> QED
    BY <1>1, <1>2, <1>3, <1>4, <1>5, <1>6, SeenStays, StepKinds

\* A session becomes STOPPED only when its container is known to be gone.
LEMMA StoppedStep ==
  ASSUME ContainerInv, [Next]_vars
  PROVE  StoppedHasNoContainer'
  <1>0. /\ StoppedHasNoContainer /\ sess \in [Users -> SessionStates]
        /\ \A p \in Procs : LocalsKnown(p) /\ ServedKnown(p) /\ SessionKnown(p)
    BY DEF ContainerInv, SchedulerInv, SchedulerTyped, LocalsTyped, UsersTyped,
       SessionsKnown
  <1>1. CASE UNCHANGED sessVars
    <2>1. CASE Served' \subseteq Served
      BY <1>0, <1>1, <2>1 DEF StoppedHasNoContainer, Served
    <2>2. ASSUME NEW p \in Procs, w[p].pc = "starting", Served' \subseteq Served \cup {w[p].user}
          PROVE  StoppedHasNoContainer'
      <3>1. w[p].user \in stale \/ sess[w[p].user] # "STOPPED"
        BY <1>0, <2>2 DEF SessionKnown, Session
      <3> QED
        BY <1>0, <1>1, <2>2, <3>1 DEF StoppedHasNoContainer, Served
    <2> QED
      BY <2>1, <2>2, ServedGrows
  <1>2. ASSUME NEW p \in Procs, Work(p), ~UNCHANGED sessVars
        PROVE  StoppedHasNoContainer'
    <2>1. UNCHANGED Served
      BY <1>2, WorkKeeps DEF ContainerInv, SchedulerInv, SchedulerTyped, Served
    <2>2. ASSUME NEW v \in Users, NEW s, SetState(v, s), s = "STOPPED" => v \notin Served
          PROVE  StoppedHasNoContainer'
      BY <1>0, <2>1, <2>2 DEF SetState, StoppedHasNoContainer, Served
    <2>3. CASE Prepare(p)
      <3>1. w[p].user \in Users
        BY <1>0, <2>3 DEF Prepare, LocalsKnown
      <3>2. SetState(w[p].user, "STOPPING") \/ SetState(w[p].user, "STARTING")
        BY <1>2, <2>3 DEF Prepare
      <3> QED
        BY <2>2, <3>1, <3>2
    <2>4. CASE Outcome(p)
      BY <1>0, <2>2, <2>4 DEF Outcome, LocalsKnown, ServedKnown
    <2>5. CASE Missing(p)
      <3>1. PICK e \in w[p].todo : SetState(e.user, e.to)
        BY <1>2, <2>5 DEF Missing
      <3>2. e.user \in Users /\ e.user \notin Served
        BY <1>0, <2>5 DEF Missing, LocalsKnown, ServedKnown
      <3> QED
        BY <2>2, <3>1, <3>2
    <2> QED
      BY <1>2, <2>3, <2>4, <2>5, WorkKeeps
         DEF ContainerInv, SchedulerInv, SchedulerTyped
  <1>3. ASSUME NEW p \in Procs, Crash(p) \/ LoseLock(p)
        PROVE  UNCHANGED sessVars
    BY <1>3 DEF Crash, LoseLock
  <1> QED
    BY <1>1, <1>2, <1>3, StepKinds, RowStepKeeps, UserStepKeeps, ServiceStepKeeps
       DEF vars

\* The invariant of sessions and containers holds in every reachable state.
THEOREM ContainerInvariant ==
  ASSUME SoleScheduler, "inspect" \notin Faults
  PROVE  Spec => []ContainerInv
  <1>1. Init /\ SchedulerInv => ContainerInv
    BY
       DEF Init, ContainerInv, SessionsKnown, SessionKnown, ServedKnown,
           StoppedHasNoContainer,
           Served,
       Down, Runner!ServiceInit, Runner!Free
  <1>2. ContainerInv /\ SchedulerInv' /\ [Next]_vars => ContainerInv'
    BY SessionStep, SeenStep, StoppedStep DEF ContainerInv
  <1> QED
    BY <1>1, <1>2, SchedulerInvariant, PTL DEF Spec

\* A session that says STOPPED, and whose last write did not fail, has no
\* container left from a served start: not one abandoned by a dead API, a
\* timeout or a failed stop, provided `docker inspect` does not fail
\* (StoppedHasNoContainer).
THEOREM StoppedHolds ==
  ASSUME SoleScheduler, "inspect" \notin Faults
  PROVE  Spec => []StoppedHasNoContainer
  <1>1. ContainerInv => StoppedHasNoContainer
    BY DEF ContainerInv
  <1> QED
    BY <1>1, ContainerInvariant, PTL

--------------------------------------------------------------------------------
(* A disable ends the session                                              *)

\* closedBy names a stop of that user, and the user is disabled.
StopIsNamed ==
  \A u \in Users : closedBy[u] \in Ops =>
    /\ disabled[u]
    /\ ops[closedBy[u]].state # "none"
    /\ ops[closedBy[u]].state # "lost" =>
         ops[closedBy[u]].user = u /\ ops[closedBy[u]].kind = "stop"

\* A worker that may still start a session works before the stop of its disable.
NoStartAfterStop ==
  \A p \in Procs :
    /\ w[p].job = "op" /\ Kind(p) # "stop"
    /\ w[p].pc \in {"mark", "prepare", "start", "starting", "outcome"}
    => closedBy[w[p].user] \notin Finished

\* The inductive invariant of DisableEndsSession.
DisableInv ==
  SchedulerInv /\ SessionsKnown /\ StopIsNamed /\ NoStartAfterStop /\ DisableEndsSession

\* How an administrator's requests move closedBy and the flag.
LEMMA StopsMove ==
  ASSUME SchedulerInv, [Next]_vars, NEW u \in Users
  PROVE  \/ closedBy'[u] = closedBy[u] /\ (disabled'[u] = disabled[u] \/ disabled'[u])
         \/ closedBy'[u] = "none"
         \/ /\ closedBy'[u] \in Ops /\ disabled'[u]
            /\ ops'[closedBy'[u]].state = "inserting"
            /\ ops'[closedBy'[u]].user = u /\ ops'[closedBy'[u]].kind = "stop"
  <1>0. RowsTyped /\ UsersTyped
    BY DEF SchedulerInv, SchedulerTyped
  <1>1. CASE UNCHANGED <<closedBy, disabled>>
    BY <1>1
  <1>2. CASE RowStep
    <2>1. ASSUME NEW o \in Ops, NEW v \in Users, DisableStops(o, v), disabled[v], v = u
          PROVE  /\ closedBy'[u] = o /\ disabled' = disabled
                 /\ ops'[o].state = "inserting" /\ ops'[o].user = u /\ ops'[o].kind = "stop"
      BY <1>0, <2>1 DEF DisableStops, Stamp, RowsTyped, UsersTyped
    <2>2. ASSUME NEW o \in Ops, NEW v \in Users, DisableStops(o, v), ~(disabled[v] /\ v = u)
          PROVE  closedBy'[u] = closedBy[u] /\ disabled' = disabled
      BY <1>0, <2>2 DEF DisableStops, UsersTyped
    <2>3. CASE UNCHANGED userVars
      BY <1>1, <2>3 DEF userVars
    <2> QED
      BY <1>2, <2>1, <2>2, <2>3 DEF RowStep, Submit, Accept
  <1>3. CASE UserStep
    <2>1. ASSUME NEW v \in Users, Disable(v)
          PROVE  closedBy' = closedBy /\ (disabled'[u] = disabled[u] \/ disabled'[u])
      BY <1>0, <2>1 DEF Disable, UsersTyped
    <2>2. ASSUME NEW v \in Users, Enable(v)
          PROVE  \/ closedBy'[u] = closedBy[u] /\ disabled'[u] = disabled[u]
                 \/ closedBy'[u] = "none"
      BY <1>0, <2>2 DEF Enable, UsersTyped
    <2> QED
      BY <1>1, <1>3, <2>1, <2>2
         DEF UserStep, View, ViewEnds, Track, TenMinutesPass, Calm, userVars
  <1>4. ASSUME NEW p \in Procs, Work(p) \/ Crash(p) \/ LoseLock(p)
        PROVE  UNCHANGED <<closedBy, disabled>>
    BY <1>4, WorkKeeps DEF Crash, LoseLock, userVars, SchedulerInv, SchedulerTyped
  <1> QED
    BY <1>1, <1>2, <1>3, <1>4, StepKinds, ServiceStepKeeps DEF vars, userVars

\* Commands end one at a time, each by its worker, and stay ended.
LEMMA FinishedGrows ==
  ASSUME SchedulerInv, [Next]_vars
  PROVE  /\ Finished \subseteq Finished'
         /\ \A o \in Finished' : o \in Finished \/ \E p \in Procs : Finish(p) /\ o = w[p].op
  <1>0. RowsTyped /\ Finished \subseteq Finished'
    BY RowsMove DEF Finished, SchedulerInv, SchedulerTyped
  <1> SUFFICES ASSUME NEW o \in Ops, o \in Finished', o \notin Finished
               PROVE  \E p \in Procs : Finish(p) /\ o = w[p].op
    BY <1>0 DEF Finished
  <1>1. CASE RowStep
    BY <1>0, <1>1 DEF RowStep, Submit, DisableStops, Accept, Stamp, Finished, RowsTyped
  <1>2. CASE UNCHANGED ops
    BY <1>2 DEF Finished
  <1>3. ASSUME NEW p \in Procs, Work(p), ~UNCHANGED ops
        PROVE  Finish(p) /\ o = w[p].op
    <2>1. (Mark(p) \/ Finish(p)) /\ w[p].op \in Ops
      BY <1>3, WorkKeeps
         DEF Mark, Finish, SchedulerInv, SchedulerTyped, LocalsTyped, LocalsKnown,
         AcceptedOps, Active, Finished
    <2> QED
      BY <1>0, <2>1 DEF Mark, Finish, Finished, RowsTyped
  <1>4. ASSUME NEW p \in Procs, Crash(p)
        PROVE  FALSE
    BY <1>4 DEF Crash, Finished
  <1>5. ASSUME NEW p \in Procs, LoseLock(p)
        PROVE  UNCHANGED ops
    BY <1>5 DEF LoseLock, opVars
  <1> QED
    BY <1>1, <1>2, <1>3, <1>4, <1>5, StepKinds, UserStepKeeps, ServiceStepKeeps
       DEF vars, opVars

\* closedBy goes on naming a stop of a disabled user.
LEMMA NamedStep ==
  ASSUME SchedulerInv, StopIsNamed, [Next]_vars
  PROVE  StopIsNamed'
  <1> SUFFICES ASSUME NEW u \in Users, closedBy'[u] \in Ops
               PROVE  /\ disabled'[u]
                      /\ ops'[closedBy'[u]].state # "none"
                      /\ ops'[closedBy'[u]].state # "lost" =>
                           ops'[closedBy'[u]].user = u /\ ops'[closedBy'[u]].kind = "stop"
    BY DEF StopIsNamed
  <1>0. RowsTyped /\ LocalsTyped /\ ServiceTyped
    BY DEF SchedulerInv, SchedulerTyped
  <1>1. CASE closedBy'[u] = closedBy[u] /\ (disabled'[u] = disabled[u] \/ disabled'[u])
    <2> DEFINE o == closedBy[u]
    <2>1. /\ o \in Ops /\ disabled[u] /\ ops[o].state # "none"
          /\ ops[o].state # "lost" => ops[o].user = u /\ ops[o].kind = "stop"
      BY <1>1 DEF StopIsNamed
    <2>2. /\ ops'[o].state # "none"
          /\ ops'[o].state # "lost" => /\ ops[o].state # "lost"
                                       /\ ops'[o].user = ops[o].user /\ ops'[o].kind = ops[o].kind
      <3>1. CASE o \in AcceptedOps
        <4>1. o \in AcceptedOps' /\ ops'[o].user = ops[o].user /\ ops'[o].kind = ops[o].kind
          BY <1>0, <3>1, RowsStep DEF RowsKept
        <4> QED
          BY <3>1, <4>1 DEF AcceptedOps, Active, Finished
      <3>2. CASE ops[o].state \in {"inserting", "lost"}
        <4>1. CASE RowStep
          BY <1>0, <2>1, <3>2, <4>1
             DEF RowStep, Submit, DisableStops, Accept, Stamp, RowsTyped
        <4>2. CASE UNCHANGED ops
          BY <3>2, <4>2
        <4>3. ASSUME NEW p \in Procs, Work(p), ~UNCHANGED ops
              PROVE  ops'[o] = ops[o]
          <5>1. w[p].op \in AcceptedOps /\ (Mark(p) \/ Finish(p))
            BY <1>0, <4>3, WorkKeeps DEF LocalsTyped, LocalsKnown, Mark, Finish
          <5>2. w[p].op # o
            BY <3>2, <5>1 DEF AcceptedOps, Active, Finished
          <5>3. CASE Mark(p)
            BY <1>0, <2>1, <5>2, <5>3 DEF Mark, RowsTyped
          <5>4. CASE Finish(p)
            BY <1>0, <2>1, <5>2, <5>4 DEF Finish, RowsTyped
          <5> QED
            BY <5>1, <5>3, <5>4
        <4>4. ASSUME NEW p \in Procs, Crash(p)
              PROVE  ops'[o].state = "lost"
          BY <2>1, <3>2, <4>4 DEF Crash
        <4>5. ASSUME NEW p \in Procs, LoseLock(p)
              PROVE  UNCHANGED ops
          BY <4>5 DEF LoseLock, opVars
        <4> QED
          BY <3>2, <4>1, <4>2, <4>3, <4>4, <4>5, StepKinds, UserStepKeeps,
             ServiceStepKeeps
             DEF vars, opVars
      <3> QED
        BY <1>0, <2>1, <3>1, <3>2 DEF RowsTyped, AcceptedOps, Active, Finished
    <2> QED
      BY <1>1, <2>1, <2>2
  <1> QED
    BY <1>1, StopsMove, NoOpAssumption

\* A start that Decide lets through belongs to a user without a finished stop,
\* and no other command ends before it does.
LEMMA LaterStep ==
  ASSUME DisableInv, [Next]_vars
  PROVE  NoStartAfterStop'
  <1>0. /\ SchedulerInv /\ DOMAIN w = Procs
        /\ \A p \in Procs : w[p] \in Locals /\ LocalsKnown(p)
        /\ RowsTyped /\ UsersTyped /\ RowsKept
    BY RowsStep DEF DisableInv, SchedulerInv, SchedulerTyped, LocalsTyped, LocalsKnown
  <1> DEFINE Starts(p) == /\ w[p].job = "op" /\ Kind(p) # "stop"
                          /\ w[p].pc \in {"mark", "prepare", "start", "starting", "outcome"}
  <1> SUFFICES ASSUME NEW p \in Procs, Starts(p)'
               PROVE  closedBy'[w'[p].user] \notin Finished'
    BY DEF NoStartAfterStop
  <1>f. ASSUME NEW q \in Procs, Finish(q)
        PROVE  FALSE
    <2>1. w'[q].job = "none"
      BY <1>0, <1>f DEF Finish, Leave, Down
    <2>2. Scheduling(q)
      BY <1>f DEF Finish, Scheduling
    <2>3. q # p => w'[p].job = "none"
      BY <1>0, <1>f, <2>2, OthersRest, WorkKeeps DEF SchedulerInv, SchedulerTyped, Work
    <2> QED
      BY <2>1, <2>3
  <1>1. Finished' = Finished
    BY <1>0, <1>f, FinishedGrows
  <1>2. ASSUME w'[p].user \in Users, closedBy[w'[p].user] \notin Finished
        PROVE  closedBy'[w'[p].user] \notin Finished'
    BY <1>0, <1>1, <1>2, StopsMove, NoOpAssumption DEF Finished
  <1>3. CASE Starts(p) /\ w'[p].op = w[p].op /\ w'[p].user = w[p].user
    <2>1. w[p].user \in Users
      BY <1>0, <1>3 DEF LocalsKnown, RowsTyped, AcceptedOps, Active, Finished
    <2> QED
      BY <1>2, <1>3, <2>1 DEF DisableInv, NoStartAfterStop
  <1>4. CASE Work(p)
    <2>k. w'[p].op = w[p].op /\ w[p].job = "op" => Kind(p)' = Kind(p)
      BY <1>0 DEF LocalsKnown, RowsKept, Kind
    <2>1. CASE Decide(p)
      <3>1. w[p].job = "op" /\ UNCHANGED <<w[p].op, w[p].user, disabled>>
        BY <1>0, <2>1 DEF Decide, LocalsKnown, Locals, userVars
      <3>2. Kind(p) # "stop"
        BY <2>k, <3>1
      <3>3. w[p].user \in Users
        BY <1>0, <3>1 DEF LocalsKnown, RowsTyped, AcceptedOps, Active, Finished
      <3>4. ~disabled[w[p].user]
        BY <1>0, <2>1, <3>2 DEF Decide, Kind, Locals
      <3>5. closedBy[w[p].user] \notin Finished
        BY <3>3, <3>4 DEF DisableInv, StopIsNamed, Finished
      <3> QED
        BY <1>2, <3>1, <3>3, <3>5
    <2>2. CASE Mark(p) \/ Prepare(p) \/ StartCall(p)
      <3>1. UNCHANGED <<w[p].job, w[p].op, w[p].user>>
        BY <1>0, <2>2 DEF Mark, Prepare, StartCall, Call, Goto, Locals
      <3>2. Starts(p)
        BY <2>k, <2>2, <3>1 DEF Mark, Prepare, StartCall
      <3> QED
        BY <1>3, <3>1, <3>2
    <2>3. CASE StartEnds(p)
      <3>1. UNCHANGED <<w[p].job, w[p].op, w[p].user>> /\ w[p].pc = "starting"
        BY <1>0, <2>3 DEF StartEnds, Locals
      <3> QED
        BY <1>3, <2>k, <3>1
    <2>4. CASE StopCall(p)
      BY <1>0, <2>4 DEF StopCall, Call, Goto, Locals
    <2>5. CASE StopEnds(p)
      <3>1. UNCHANGED <<w[p].job, w[p].op, w[p].user>>
        BY <1>0, <2>5 DEF StopEnds, Locals
      <3> QED
        BY <2>k, <2>5, <3>1 DEF StopEnds, DisableInv, SessionsKnown, SessionKnown
    <2>6. CASE Outcome(p)
      BY <1>0, <2>6 DEF Outcome, Goto, Locals
    <2>7. CASE Boot(p) \/ Tick(p) \/ AgentOpen(p) \/ Finish(p) \/ IdleQuery(p) \/ List(p)
      <3>1. CASE Boot(p) \/ Tick(p) \/ AgentOpen(p)
        BY <1>0, <3>1 DEF Boot, Tick, AgentOpen, Goto, Down, Locals
      <3>2. CASE Finish(p) \/ IdleQuery(p)
        BY <1>0, <3>2 DEF Finish, IdleQuery, Leave, Down
      <3>3. CASE List(p)
        BY <1>0, <3>3 DEF List, Leave, Down
      <3> QED
        BY <2>7, <3>1, <3>2, <3>3
    <2>8. CASE Pick(p)
      <3>1. CASE Goto(p, "idle")
        BY <1>0, <3>1 DEF Goto, Locals
      <3>2. ASSUME NEW o \in Active,
                   w' = [w EXCEPT ![p] = [Down EXCEPT !.pc = "decide", !.job = "op",
                                          !.op = o, !.user = ops[o].user]]
            PROVE  FALSE
        BY <1>0, <3>2 DEF Down
      <3> QED
        BY <2>8, <3>1, <3>2 DEF Pick
    <2>9. CASE IdleNext(p)
      <3>1. CASE Leave(p, "list")
        BY <1>0, <3>1 DEF Leave, Down
      <3>2. ASSUME NEW u \in w[p].todo, NEW pc,
                   w' = [w EXCEPT ![p].todo = @ \ {u}, ![p].user = u, ![p].pc = pc]
            PROVE  FALSE
        <4>1. w[p].job = "idle"
          BY <1>0, <2>9 DEF LocalsKnown, IdleNext
        <4>2. w'[p].job = w[p].job
          BY <1>0, <3>2 DEF Locals
        <4> QED
          BY <4>1, <4>2
      <3> QED
        BY <2>9, <3>1, <3>2 DEF IdleNext
    <2>10. CASE Unwanted(p) \/ MissingQuery(p)
      <3>1. w[p].job = "reconcile"
        BY <1>0, <2>10 DEF Unwanted, MissingQuery, LocalsKnown
      <3>2. CASE Unwanted(p)
        BY <1>0, <3>1, <3>2 DEF Unwanted, Locals
      <3>3. CASE MissingQuery(p)
        BY <1>0, <3>1, <3>3 DEF MissingQuery, Locals
      <3> QED
        BY <2>10, <3>2, <3>3
    <2>11. CASE Missing(p)
      BY <1>0, <2>11 DEF Missing, Leave, Down, Locals, LocalsKnown
    <2>12. CASE QueryFails(p)
      BY <1>0, <2>12 DEF QueryFails, Leave, Down
    <2> QED
      BY <1>4, <2>1, <2>2, <2>3, <2>4, <2>5, <2>6, <2>7, <2>8, <2>9, <2>10, <2>11, <2>12
         DEF Work
  <1>5. CASE w'[p] = w[p]
    <2>1. Kind(p)' = Kind(p)
      BY <1>0, <1>5 DEF LocalsKnown, RowsKept, Kind
    <2> QED
      BY <1>3, <1>5, <2>1
  <1>6. CASE Crash(p)
    BY <1>0, <1>6 DEF Crash, Down
  <1>7. ASSUME NEW q \in Procs, q # p, Work(q) \/ Crash(q)
        PROVE  w'[p] = w[p]
    BY <1>0, <1>7, WorkKeeps DEF Crash, SchedulerInv, SchedulerTyped
  <1>8. ASSUME NEW q \in Procs, LoseLock(q)
        PROVE  w'[p] = w[p]
    BY <1>8 DEF LoseLock
  <1> QED
    BY <1>4, <1>5, <1>6, <1>7, <1>8, StepKinds, RowStepKeeps, UserStepKeeps,
       ServiceStepKeeps
       DEF vars

\* Only setState after a start makes a session RUNNING, in its row or by a write
\* that ends the row's being stale.
LEMMA TurnsOn ==
  ASSUME DisableInv, [Next]_vars, NEW u \in Users \ stale', sess'[u] = "RUNNING",
         sess[u] # "RUNNING" \/ u \in stale
  PROVE  \E p \in Procs : /\ Outcome(p) /\ w[p].user = u /\ w[p].job = "op" /\ Kind(p) # "stop"
  <1>0. sess \in [Users -> SessionStates]
    BY DEF DisableInv, SchedulerInv, SchedulerTyped, UsersTyped
  <1>1. ASSUME NEW p \in Procs, Work(p)
        PROVE  Outcome(p) /\ w[p].user = u /\ w[p].job = "op" /\ Kind(p) # "stop"
    <2>1. LocalsKnown(p) /\ SessionKnown(p)
      BY DEF DisableInv, SchedulerInv, SchedulerTyped, LocalsTyped, SessionsKnown
    <2>2. CASE Prepare(p)
      BY <1>0, <2>2 DEF Prepare, SetState
    <2>3. CASE Missing(p)
      BY <1>0, <2>1, <2>3 DEF Missing, SetState, LocalsKnown
    <2>4. CASE Outcome(p)
      <3>1. w[p].user = u /\ w[p].out = "RUNNING"
        BY <1>0, <2>4 DEF Outcome, SetState
      <3> QED
        BY <2>1, <2>4, <3>1 DEF Outcome, SessionKnown
    <2> QED
      BY <1>1, <2>2, <2>3, <2>4, WorkKeeps DEF DisableInv, SchedulerInv, SchedulerTyped
  <1>2. ASSUME NEW p \in Procs, Crash(p) \/ LoseLock(p)
        PROVE  UNCHANGED sessVars
    BY <1>2 DEF Crash, LoseLock
  <1> QED
    BY <1>1, <1>2, StepKinds, RowStepKeeps, UserStepKeeps, ServiceStepKeeps DEF vars

\* After the stop has ended no step makes the session RUNNING.
LEMMA DisableStep ==
  ASSUME DisableInv, [Next]_vars
  PROVE  DisableEndsSession'
  <1>0. SchedulerInv /\ StopIsNamed /\ DisableEndsSession /\ NoStartAfterStop
    BY DEF DisableInv
  <1> SUFFICES ASSUME NEW u \in Users \ stale', closedBy'[u] \in Finished'
               PROVE  sess'[u] # "RUNNING"
    BY DEF DisableEndsSession
  <1>1. closedBy'[u] = closedBy[u]
    BY <1>0, StopsMove, NoOpAssumption DEF Finished
  <1>2. CASE closedBy[u] \in Finished
    <2>1. sess[u] # "RUNNING" \/ u \in stale
      BY <1>0, <1>2 DEF StopIsNamed, DisableEndsSession, Finished
    <2>2. ASSUME NEW p \in Procs, Outcome(p), w[p].user = u, w[p].job = "op", Kind(p) # "stop"
          PROVE  FALSE
      BY <1>0, <1>2, <2>2 DEF NoStartAfterStop, Outcome
    <2> QED
      BY <2>1, <2>2, TurnsOn
  <1>3. CASE closedBy[u] \notin Finished
    <2>1. PICK p \in Procs : Finish(p) /\ closedBy[u] = w[p].op
      BY <1>0, <1>1, <1>3, FinishedGrows
    <2>2. w[p].op \in Active /\ LocalsKnown(p) /\ SessionKnown(p)
      BY <2>1
         DEF Finish, DisableInv, SchedulerInv, SchedulerTyped, LocalsTyped, LocalsKnown,
         ExecutesOldest, SessionsKnown
    <2>3. ops[w[p].op].user = u /\ Kind(p) = "stop" /\ w[p].user = u
      BY <1>0, <2>1, <2>2 DEF StopIsNamed, Active, Kind, LocalsKnown, Finish
    <2>4. UNCHANGED sessVars
      BY <2>1 DEF Finish
    <2>5. sess[u] # "RUNNING"
      BY <2>1, <2>2, <2>3, <2>4 DEF Finish, SessionKnown, Session
    <2> QED
      BY <2>4, <2>5
  <1> QED
    BY <1>2, <1>3

\* The invariant of the disable holds in every reachable state.
THEOREM DisableInvariant ==
  ASSUME SoleScheduler
  PROVE  Spec => []DisableInv
  <1>1. Init /\ SchedulerInv => DisableInv
    BY NoOpAssumption DEF Init, DisableInv, SessionsKnown, SessionKnown, StopIsNamed,
       NoStartAfterStop, DisableEndsSession, Down
  <1>2. DisableInv /\ SchedulerInv' /\ [Next]_vars => DisableInv'
    BY SessionStep, NamedStep, LaterStep, DisableStep DEF DisableInv
  <1> QED
    BY <1>1, <1>2, SchedulerInvariant, PTL DEF Spec

\* Once the stop that a disable added has ended, the session is not running unless
\* the write that says so failed, and no command accepted before, during or after
\* the disable makes it run while the user is disabled (DisableEndsSession).
THEOREM DisableHolds ==
  ASSUME SoleScheduler
  PROVE  Spec => []DisableEndsSession
  <1>1. DisableInv => DisableEndsSession
    BY DEF DisableInv
  <1> QED
    BY <1>1, DisableInvariant, PTL

--------------------------------------------------------------------------------
(* The refinement of BrowserCommands                                       *)

\* The users whose session runs, as BrowserCommands sees them.
On == {u \in Users : sess[u] = "RUNNING"}

\* The commands, as BrowserCommands sees them.
Cmd == [o \in Ops |->
          IF ops[o].state \in {"none", "inserting", "lost"} THEN [status |-> "none"]
          ELSE [status |-> IF ops[o].state \in {"QUEUED", "RUNNING"} THEN "pending"
                           ELSE ops[o].state,
                user |-> ops[o].user, kind |-> ops[o].kind]]

\* A step of BrowserCommands, or none.
CommandStep == Commands!CommandsNext \/ UNCHANGED <<On, stale, Cmd>>

\* The commit of an INSERT accepts the command.
LEMMA AcceptIsAccept ==
  ASSUME RowsTyped, NEW o \in Ops, Accept(o)
  PROVE  CommandStep
  <1>1. /\ ops[o].state = "inserting" /\ ops'[o].state = "QUEUED"
        /\ ops'[o].user \in Users /\ ops'[o].kind \in {"start", "open", "stop"}
        /\ \A x \in Ops : x # o => ops'[x] = ops[x]
    BY DEF Accept, RowsTyped
  <1>2. Cmd' = [Cmd EXCEPT ![o] = [status |-> "pending", user |-> ops'[o].user,
                                   kind |-> ops'[o].kind]]
    BY <1>1 DEF Cmd
  <1>3. Cmd[o].status = "none" /\ UNCHANGED <<On, stale>>
    BY <1>1 DEF Cmd, Accept, On
  <1>4. \E u \in Users, k \in {"start", "open", "stop"} :
          Cmd' = [Cmd EXCEPT ![o] = [status |-> "pending", user |-> u, kind |-> k]]
    BY <1>1, <1>2
  <1>5. Commands!AcceptCommand(o)
    BY <1>3, <1>4 DEF Commands!AcceptCommand, Cmd, On
  <1> QED
    BY <1>5 DEF CommandStep, Commands!CommandsNext

\* The last UPDATE resolves the command; what it calls a success is one.
LEMMA FinishResolves ==
  ASSUME SchedulerInv, SessionsKnown, NEW p \in Procs, Finish(p)
  PROVE  CommandStep
  <1>0. /\ w[p].op \in Active /\ w[p].fin \in {"SUCCEEDED", "FAILED", "UNKNOWN"}
        /\ w[p].user = ops[w[p].op].user
        /\ RowsTyped /\ SessionKnown(p) /\ UNCHANGED sessVars
    BY
       DEF Finish, SchedulerInv, SchedulerTyped, LocalsTyped, LocalsKnown,
           ExecutesOldest,
           SessionsKnown
  <1>o. PICK o \in Active, s \in {"SUCCEEDED", "FAILED", "UNKNOWN"} : o = w[p].op /\ s = w[p].fin
    BY <1>0
  <1>1. CASE UNCHANGED ops
    BY <1>0, <1>1 DEF CommandStep, On, Cmd
  <1>2. CASE ops' = [ops EXCEPT ![o].state = s]
    <2>1. /\ ops'[o].state = s /\ ops'[o].user = ops[o].user /\ ops'[o].kind = ops[o].kind
          /\ \A x \in Ops : x # o => ops'[x] = ops[x]
          /\ ops[o].user \in Users /\ o \in Ops /\ ops[o].state \in {"QUEUED", "RUNNING"}
      BY <1>0, <1>o, <1>2 DEF RowsTyped, Active
    <2>2. /\ Cmd[o] = [status |-> "pending", user |-> ops[o].user, kind |-> ops[o].kind]
          /\ Cmd'[o] = [status |-> s, user |-> ops[o].user, kind |-> ops[o].kind]
          /\ \A x \in Ops : x # o => Cmd'[x] = Cmd[x]
      BY <1>0, <2>1 DEF Cmd
    <2>3. Cmd' = [Cmd EXCEPT ![o].status = s]
      <3>1. Cmd = [x \in Ops |-> Cmd[x]] /\ Cmd' = [x \in Ops |-> Cmd'[x]]
        BY DEF Cmd
      <3> QED
        BY <2>1, <2>2, <3>1
    <2>4. s = "SUCCEEDED" => \/ (Cmd[o].user \in On) = (Cmd[o].kind # "stop")
                              \/ Cmd[o].user \in stale
      BY <1>0, <1>o, <2>1, <2>2 DEF SessionKnown, Session, Kind, Finish, On
    <2>5. Cmd[o].status = "pending" /\ UNCHANGED <<On, stale>>
      BY <1>0, <2>2 DEF On
    <2>6. Commands!Resolve(o)
      BY <1>0, <2>3, <2>4, <2>5 DEF Commands!Resolve, Commands!Fulfilled, Cmd, On
    <2> QED
      BY <2>1, <2>6 DEF CommandStep, Commands!CommandsNext
  <1> QED
    BY <1>o, <1>1, <1>2 DEF Finish

\* A setState turns the session on or off, or neither, or its write is lost;
\* RUNNING needs a pending start or open of its user.
LEMMA SetStateTurns ==
  ASSUME UsersTyped, UNCHANGED ops, NEW u \in Users, NEW s, SetState(u, s),
         s = "RUNNING" => \E o \in Active : ops[o].user = u /\ ops[o].kind \in {"start", "open"}
  PROVE  CommandStep
  <1>0. sess \in [Users -> SessionStates] /\ UNCHANGED Cmd
    BY DEF UsersTyped, Cmd
  <1>1. CASE sess' = [sess EXCEPT ![u] = s] /\ stale' = stale \ {u}
    <2>1. CASE s = "RUNNING" /\ u \notin On
      <3>1. On' = On \cup {u}
        BY <1>0, <1>1, <2>1 DEF On
      <3>2. \E o \in Ops : /\ Cmd[o].status = "pending" /\ Cmd[o].user = u
                           /\ Cmd[o].kind \in {"start", "open"}
        BY <2>1 DEF Cmd, Active
      <3>3. Commands!TurnOn(u)
        BY <1>0, <1>1, <2>1, <3>1, <3>2 DEF Commands!TurnOn, Cmd, On
      <3> QED
        BY <3>3 DEF CommandStep, Commands!CommandsNext
    <2>2. CASE s # "RUNNING" /\ u \in On
      <3>1. On' = On \ {u}
        BY <1>0, <1>1, <2>2 DEF On
      <3>2. Commands!TurnOff(u)
        BY <1>0, <1>1, <2>2, <3>1 DEF Commands!TurnOff, Cmd, On
      <3> QED
        BY <3>2 DEF CommandStep, Commands!CommandsNext
    <2>3. CASE (s = "RUNNING") = (u \in On)
      <3>1. UNCHANGED On
        BY <1>0, <1>1, <2>3 DEF On
      <3>2. Commands!Write(u)
        BY <1>0, <1>1, <3>1 DEF Commands!Write, Cmd, On
      <3> QED
        BY <3>2 DEF CommandStep, Commands!CommandsNext
    <2> QED
      BY <2>1, <2>2, <2>3
  <1>2. CASE UNCHANGED sess /\ stale' = stale \cup {u}
    <2>1. UNCHANGED On
      BY <1>2 DEF On
    <2>2. Commands!Write(u)
      BY <1>0, <1>2, <2>1 DEF Commands!Write, Cmd, On
    <2> QED
      BY <2>2 DEF CommandStep, Commands!CommandsNext
  <1> QED
    BY <1>1, <1>2 DEF SetState

\* Every step of a worker maps to a step of BrowserCommands or to none.
LEMMA WorkIsCommanded ==
  ASSUME SchedulerInv, SessionsKnown, NEW p \in Procs, Work(p)
  PROVE  CommandStep
  <1>0. /\ UsersTyped /\ RowsTyped /\ LocalsKnown(p) /\ SessionKnown(p)
        /\ w[p].job = "op" => w[p].op \in Active
    BY DEF SchedulerInv, SchedulerTyped, LocalsTyped, SessionsKnown, ExecutesOldest
  <1>1. CASE Mark(p)
    <2>1. w[p].op \in Active /\ w[p].job = "op"
      BY <1>0, <1>1 DEF Mark, LocalsKnown
    <2>2. /\ UNCHANGED sessVars
          /\ ops'[w[p].op].state = "RUNNING" /\ ops'[w[p].op].user = ops[w[p].op].user
          /\ ops'[w[p].op].kind = ops[w[p].op].kind
          /\ \A x \in Ops : x # w[p].op => ops'[x] = ops[x]
      BY <1>0, <1>1, <2>1 DEF Mark, RowsTyped, Active
    <2>3. UNCHANGED <<On, stale, Cmd>>
      BY <2>1, <2>2 DEF On, Cmd, Active
    <2> QED
      BY <2>3 DEF CommandStep
  <1>2. CASE Finish(p)
    BY <1>2, FinishResolves
  <1>3. CASE Prepare(p)
    <2>1. w[p].user \in Users /\ UNCHANGED ops
      BY <1>0, <1>3 DEF Prepare, LocalsKnown, opVars
    <2>2. CASE UNCHANGED sessVars
      BY <2>1, <2>2 DEF CommandStep, On, Cmd
    <2>3. CASE SetState(w[p].user, "STOPPING") \/ SetState(w[p].user, "STARTING")
      BY <1>0, <2>1, <2>3, SetStateTurns
    <2> QED
      BY <1>3, <2>2, <2>3 DEF Prepare
  <1>4. CASE Outcome(p)
    <2>1. w[p].user \in Users /\ UNCHANGED ops /\ SetState(w[p].user, w[p].out)
      BY <1>0, <1>4 DEF Outcome, LocalsKnown, opVars
    <2>2. w[p].out = "RUNNING" => w[p].job = "op" /\ Kind(p) # "stop"
      BY <1>0, <1>4 DEF Outcome, SessionKnown
    <2>3. w[p].out = "RUNNING" =>
            \E o \in Active : ops[o].user = w[p].user /\ ops[o].kind \in {"start",
            "open"}
      BY <1>0, <2>2 DEF LocalsKnown, RowsTyped, Kind, Active
    <2> QED
      BY <1>0, <2>1, <2>3, SetStateTurns
  <1>5. CASE Missing(p)
    <2>1. UNCHANGED ops
      BY <1>5 DEF Missing, opVars
    <2>2. CASE UNCHANGED sessVars
      BY <2>1, <2>2 DEF CommandStep, On, Cmd
    <2>3. ASSUME NEW e \in w[p].todo, SetState(e.user, e.to)
          PROVE  CommandStep
      <3>1. e.user \in Users /\ e.to \in {"STOPPED", "FAILED"}
        BY <1>0, <1>5 DEF Missing, LocalsKnown
      <3> QED
        BY <1>0, <2>1, <2>3, <3>1, SetStateTurns
    <2> QED
      BY <1>5, <2>2, <2>3 DEF Missing
  <1>6. CASE UNCHANGED <<ops, sessVars>>
    BY <1>6 DEF CommandStep, On, Cmd
  <1> QED
    BY <1>1, <1>2, <1>3, <1>4, <1>5, <1>6, WorkKeeps DEF SchedulerInv, SchedulerTyped

\* Every step maps to a step of BrowserCommands or to none.
LEMMA StepIsCommanded ==
  ASSUME SchedulerInv, SessionsKnown, [Next]_vars
  PROVE  CommandStep
  <1>0. RowsTyped
    BY DEF SchedulerInv, SchedulerTyped
  <1>1. CASE UNCHANGED <<ops, sessVars>>
    BY <1>1 DEF CommandStep, On, Cmd
  <1>2. CASE RowStep
    <2>1. ASSUME NEW o \in Ops, NEW u \in Users, NEW k \in {"start", "open", "stop"}, Stamp(o, u, k)
          PROVE  UNCHANGED Cmd
      <3>1. /\ ops[o].state = "none" /\ ops'[o].state = "inserting"
            /\ \A x \in Ops : x # o => ops'[x] = ops[x]
        BY <1>0, <2>1 DEF Stamp, RowsTyped
      <3> QED
        BY <3>1 DEF Cmd
    <2>2. UNCHANGED sessVars
      BY <1>2, RowStepKeeps
    <2> QED
      BY <1>0, <1>2, <2>1, <2>2, AcceptIsAccept
         DEF RowStep, Submit, DisableStops, CommandStep, On
  <1>3. ASSUME NEW p \in Procs, Crash(p)
        PROVE  UNCHANGED <<On, stale, Cmd>>
    BY <1>3 DEF Crash, On, Cmd
  <1>4. ASSUME NEW p \in Procs, LoseLock(p)
        PROVE  UNCHANGED <<ops, sessVars>>
    BY <1>4 DEF LoseLock, opVars
  <1>5. CASE \E p \in Procs : Crash(p)
    BY <1>3, <1>5 DEF CommandStep
  <1> QED
    BY <1>1, <1>2, <1>4, <1>5, StepKinds, WorkIsCommanded, UserStepKeeps,
       ServiceStepKeeps
       DEF vars, opVars

\* The scheduler, its handlers and the runner implement BrowserCommands: a
\* session comes to run only while a start or open for it is pending, a command
\* ends once, and a success is true when it is recorded unless setState's last
\* write failed, through crashes, re-executions and failing statements.
THEOREM SchedulerImplements ==
  ASSUME SoleScheduler
  PROVE  Spec => ImplementsBrowserCommands
  <1>1. Init => Commands!CommandsInit
    BY DEF Init, Commands!CommandsInit
  <1>2. DisableInv /\ [Next]_vars => [Commands!CommandsNext]_<<On, stale, Cmd>>
    BY StepIsCommanded DEF DisableInv, CommandStep
  <1>3. [Commands!CommandsNext]_<<On, stale, Cmd>> =>
          [Commands!CommandsNext]_<<{u \in Users : sess[u] = "RUNNING"}, stale,
             [o \in Ops |->
                IF ops[o].state \in {"none", "inserting",
                "lost"} THEN [status |-> "none"]
                ELSE [status |-> IF ops[o].state \in {"QUEUED",
                "RUNNING"} THEN "pending"
                                 ELSE ops[o].state,
                      user |-> ops[o].user, kind |-> ops[o].kind]]>>
    BY DEF On, Cmd
  <1> QED
    BY <1>1, <1>2, <1>3, DisableInvariant, PTL
       DEF Spec, ImplementsBrowserCommands, Commands!CommandsSpec

================================================================================
