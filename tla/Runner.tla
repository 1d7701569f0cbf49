-------------------------------- MODULE Runner --------------------------------
(***************************************************************************)
(* The runner (internal/runner/runner.go): the only process that talks to  *)
(* Docker.  It starts and stops at most one container per user, named      *)
(* after the user, and keeps no state but a mutex: every handler asks      *)
(* Docker again and issues several docker commands.  Containers exit by    *)
(* themselves between any two commands, clients hang up (which kills the   *)
(* docker command under way), and a killed `docker run' may still come to  *)
(* life in the daemon afterwards.                                          *)
(***************************************************************************)
EXTENDS Naturals, FiniteSets

CONSTANTS
  Users,   \* profiles; user u's container is cb-u
  Reqs,    \* request slots: bounds the start and stop requests at one time
  Max,     \* MAX_SESSIONS
  Faults   \* "inspect": docker inspect may fail on an existing container;
           \* "kill": a killed docker run may start its container later

ASSUME UsersAssumption == IsFiniteSet(Users)
ASSUME MaxAssumption == Max \in Nat \ {0}
ASSUME FaultsAssumption == Faults \subseteq {"inspect", "kill"}

VARIABLES
  cont,     \* cont[u]: "none", "exited" (also created) or "running"
  late,     \* users whose killed docker run the daemon may still complete
  rpc,      \* rpc[r]: where request r is in its handler
  rkind, ruser, \* what it asks
  gone,     \* requests whose client hung up: their context is cancelled
  reply,    \* reply[r]: the answer, once rpc[r] = "replied"
  answered, \* history: users whose running container a start has answered for
  strays    \* history: running containers that came to life late

reqVars == <<rpc, rkind, ruser, gone, reply>>
runnerVars == <<cont, late, reqVars, answered, strays>>

Running == {u \in Users : cont[u] = "running"}

\* r.mu is held from Lock to the answer.
Holding(r) == rpc[r] \notin {"free", "waiting", "replied"}

\* docker inspect of u's container gives an answer, or an error.
InspectWorks(r, u) == cont[u] # "none" /\ r \notin gone
InspectFails(r, u) == cont[u] = "none" \/ r \in gone \/ "inspect" \in Faults

Goto(r, pc) == rpc' = [rpc EXCEPT ![r] = pc] /\ UNCHANGED reply
Answer(r, a) == /\ rpc' = [rpc EXCEPT ![r] = "replied"]
                /\ reply' = [reply EXCEPT ![r] = a]

\* u's container takes state s; one that stops running forgets its past.
SetCont(u, s) ==
  /\ cont' = [cont EXCEPT ![u] = s]
  /\ answered' = IF s = "running" THEN answered ELSE answered \ {u}
  /\ strays' = IF s = "running" THEN strays ELSE strays \ {u}

RunnerInit ==
  /\ cont = [u \in Users |-> "none"]
  /\ late = {}
  /\ rpc = [r \in Reqs |-> "free"]
  /\ rkind = [r \in Reqs |-> "start"]
  /\ ruser \in [Reqs -> Users]    \* a free slot asks nothing
  /\ gone = {}
  /\ reply = [r \in Reqs |-> "none"]
  /\ answered = {}
  /\ strays = {}

-------------------------------------------------------------------------------
(***************************************************************************)
(* Clients                                                                 *)
(***************************************************************************)
Request(r, kind, u) ==
  /\ rpc[r] = "free"
  /\ rpc' = [rpc EXCEPT ![r] = "waiting"]
  /\ rkind' = [rkind EXCEPT ![r] = kind]
  /\ ruser' = [ruser EXCEPT ![r] = u]
  /\ UNCHANGED <<cont, late, gone, reply, answered, strays>>

\* The API's client times out, or its process dies.
HangUp(r) ==
  /\ rpc[r] # "free"
  /\ gone' = gone \cup {r}
  /\ UNCHANGED <<cont, late, rpc, rkind, ruser, reply, answered, strays>>

\* The answer is read, or dropped because nobody is there to read it.
Collect(r) ==
  /\ rpc[r] = "replied"
  /\ rpc' = [rpc EXCEPT ![r] = "free"]
  /\ reply' = [reply EXCEPT ![r] = "none"]
  /\ rkind' = [rkind EXCEPT ![r] = "start"]
  /\ gone' = gone \ {r}
  /\ UNCHANGED <<cont, late, ruser, answered, strays>>

-------------------------------------------------------------------------------
(***************************************************************************)
(* Both handlers: r.mu.Lock, which ignores the context, then inspect.      *)
(***************************************************************************)
Lock(r) ==
  /\ rpc[r] = "waiting"
  /\ \A q \in Reqs : ~Holding(q)
  /\ Goto(r, "inspect")
  /\ UNCHANGED <<cont, late, rkind, ruser, gone, answered, strays>>

-------------------------------------------------------------------------------
(***************************************************************************)
(* start                                                                   *)
(***************************************************************************)
\* Running already: only wait for it.  Otherwise, or on any error, go on.
StartInspect(r) ==
  LET u == ruser[r] IN
  /\ rpc[r] = "inspect" /\ rkind[r] = "start"
  /\ \/ InspectWorks(r, u) /\ cont[u] = "running" /\ Goto(r, "probeOld")
     \/ InspectWorks(r, u) /\ cont[u] = "exited" /\ Goto(r, "count")
     \/ InspectFails(r, u) /\ Goto(r, "count")
  /\ UNCHANGED <<cont, late, rkind, ruser, gone, answered, strays>>

\* What all() may return as running: a container it cannot inspect is left out.
Counted == IF "inspect" \in Faults THEN SUBSET Running ELSE {Running}

\* Fault: the limit is compared with > instead of >=.
StartCountOffByOne(r) ==
  /\ rpc[r] = "count"
  /\ \/ Answer(r, "ERROR")
     \/ /\ r \notin gone
        /\ \E seen \in Counted :
             IF Cardinality(seen) > Max THEN Answer(r, "FULL") ELSE Goto(r, "remove")
  /\ UNCHANGED <<cont, late, rkind, ruser, gone, answered, strays>>

\* all() and the limit; docker ps, memory, disk, home and quota may refuse.
StartCount(r) ==
  /\ rpc[r] = "count"
  /\ \/ Answer(r, "ERROR")
     \/ /\ r \notin gone
        /\ \E seen \in Counted :
             IF Cardinality(seen) >= Max THEN Answer(r, "FULL") ELSE Goto(r, "remove")
  /\ UNCHANGED <<cont, late, rkind, ruser, gone, answered, strays>>

\* docker rm of the old container: without -f it refuses a running one, and
\* killed half way it may or may not have removed an exited one.
Removed(r, s) ==
  LET u == ruser[r] IN
  /\ s \in {"none", cont[u]}
  /\ s = "none" => cont[u] = "exited"
  /\ SetCont(u, s)
  /\ late' = IF s = "none" THEN late \ {u} ELSE late

StartRemove(r) ==
  LET u == ruser[r] IN
  /\ rpc[r] = "remove"
  /\ \/ /\ InspectFails(r, u)
        /\ Goto(r, "run")
        /\ UNCHANGED <<cont, late, answered, strays>>
     \/ InspectWorks(r, u) /\ cont[u] = "exited" /\ Removed(r, "none") /\ Goto(r, "run")
     \/ /\ InspectWorks(r, u)
        /\ \E s \in {"none", "exited", "running"} : Removed(r, s)
        /\ Answer(r, "ERROR")
  /\ UNCHANGED <<rkind, ruser, gone>>

\* docker run: the name must be free.  It fails before or after creating the
\* container, or is killed while the daemon is starting it.
StartRun(r) ==
  LET u == ruser[r] IN
  /\ rpc[r] = "run"
  /\ \/ /\ cont[u] = "none" /\ r \notin gone
        /\ SetCont(u, "running") /\ Goto(r, "probeNew")
        /\ UNCHANGED late
     \/ Answer(r, "ERROR") /\ UNCHANGED <<cont, late, answered, strays>>
     \/ /\ cont[u] = "none" /\ r \notin gone
        /\ SetCont(u, "exited") /\ Answer(r, "ERROR")
        /\ late' = late \/ ("kill" \in Faults /\ late' = late \cup {u})
  /\ UNCHANGED <<rkind, ruser, gone>>

\* Fault: any answer on the container's port counts as healthy.
HealthyBlind(r) ==
  /\ Answer(r, "RUNNING")
  /\ answered' = answered \cup {ruser[r]}

\* wait: the agent answers /healthz, or 45 s pass or the client hangs up.
Healthy(r) ==
  /\ ruser[r] \in Running
  /\ r \notin gone
  /\ Answer(r, "RUNNING")
  /\ answered' = answered \cup {ruser[r]}

\* Fault: an unhealthy container is stopped whoever started it.
StartProbeOldCleansUp(r) ==
  /\ rpc[r] = "probeOld"
  /\ Healthy(r) \/ (Goto(r, "cleanup") /\ UNCHANGED answered)
  /\ UNCHANGED <<cont, late, rkind, ruser, gone, strays>>

StartProbeOld(r) ==
  /\ rpc[r] = "probeOld"
  /\ Healthy(r) \/ (Answer(r, "ERROR") /\ UNCHANGED answered)
  /\ UNCHANGED <<cont, late, rkind, ruser, gone, strays>>

StartProbeNew(r) ==
  /\ rpc[r] = "probeNew"
  /\ Healthy(r) \/ (Goto(r, "cleanup") /\ UNCHANGED answered)
  /\ UNCHANGED <<cont, late, rkind, ruser, gone, strays>>

\* docker stop with context.WithoutCancel; its error is ignored.
StartCleanup(r) ==
  LET u == ruser[r] IN
  /\ rpc[r] = "cleanup"
  /\ Answer(r, "ERROR")
  /\ \/ u \in Running /\ SetCont(u, "exited")
     \/ UNCHANGED <<cont, answered, strays>>
  /\ UNCHANGED <<late, rkind, ruser, gone>>

-------------------------------------------------------------------------------
(***************************************************************************)
(* stop                                                                    *)
(***************************************************************************)
\* A container that cannot be inspected counts as stopped if docker ps works.
StopInspect(r) ==
  LET u == ruser[r] IN
  /\ rpc[r] = "inspect" /\ rkind[r] = "stop"
  /\ \/ InspectWorks(r, u) /\ cont[u] = "running" /\ Goto(r, "halt")
     \/ InspectWorks(r, u) /\ cont[u] = "exited" /\ Goto(r, "reinspect")
     \/ InspectFails(r, u) /\ Answer(r, "ERROR")
     \/ InspectFails(r, u) /\ r \notin gone /\ Answer(r, "STOPPED")
  /\ UNCHANGED <<cont, late, rkind, ruser, gone, answered, strays>>

\* Fault: docker stop is waited for although the client has hung up.
StopHaltNeverFails(r) ==
  LET u == ruser[r] IN
  /\ rpc[r] = "halt"
  /\ r \notin gone /\ cont[u] # "none"
  /\ SetCont(u, "exited") /\ Goto(r, "reinspect")
  /\ UNCHANGED <<late, rkind, ruser, gone>>

\* docker stop --time 30: SIGTERM, then SIGKILL.  Killed, it may still stop it.
StopHalt(r) ==
  LET u == ruser[r] IN
  /\ rpc[r] = "halt"
  /\ \/ /\ r \notin gone /\ cont[u] # "none"
        /\ SetCont(u, "exited") /\ Goto(r, "reinspect")
     \/ Answer(r, "ERROR") /\ UNCHANGED <<cont, answered, strays>>
     \/ Answer(r, "ERROR") /\ cont[u] = "running" /\ SetCont(u, "exited")
  /\ UNCHANGED <<late, rkind, ruser, gone>>

\* Fault: the answer does not wait for docker rm.
StopReinspectAnswers(r) ==
  /\ rpc[r] = "reinspect"
  /\ Answer(r, "STOPPED")
  /\ UNCHANGED <<cont, late, rkind, ruser, gone, answered, strays>>

\* The exit code tells whether the stop was forced.
StopReinspect(r) ==
  LET u == ruser[r] IN
  /\ rpc[r] = "reinspect"
  /\ \/ InspectWorks(r, u) /\ Goto(r, "rm")
     \/ InspectFails(r, u) /\ Answer(r, "ERROR")
  /\ UNCHANGED <<cont, late, rkind, ruser, gone, answered, strays>>

StopRemove(r) ==
  /\ rpc[r] = "rm"
  /\ \/ r \notin gone /\ cont[ruser[r]] = "exited" /\ Removed(r, "none") /\ Answer(r, "STOPPED")
     \/ (\E s \in {"none", "exited", "running"} : Removed(r, s)) /\ Answer(r, "ERROR")
  /\ UNCHANGED <<rkind, ruser, gone>>

-------------------------------------------------------------------------------
(***************************************************************************)
(* Docker and Chrome                                                       *)
(***************************************************************************)
ContainerExits(u) ==
  /\ cont[u] = "running"
  /\ SetCont(u, "exited")
  /\ UNCHANGED <<late, reqVars>>

LateStart(u) ==
  /\ u \in late
  /\ late' = late \ {u}
  /\ \/ /\ cont[u] = "exited"
        /\ cont' = [cont EXCEPT ![u] = "running"]
        /\ strays' = strays \cup {u}
     \/ UNCHANGED <<cont, strays>>
  /\ UNCHANGED <<reqVars, answered>>

-------------------------------------------------------------------------------
\* One step of a request's own handler.
Handle(r) ==
  \/ StartInspect(r) \/ StartCount(r) \/ StartRemove(r) \/ StartRun(r)
  \/ StartProbeOld(r) \/ StartProbeNew(r) \/ StartCleanup(r)
  \/ StopInspect(r) \/ StopHalt(r) \/ StopReinspect(r) \/ StopRemove(r)

\* What the runner and its surroundings do without the API.
RunnerStep ==
  \/ \E r \in Reqs : Lock(r) \/ Handle(r)
  \/ \E u \in Users : ContainerExits(u) \/ LateStart(u)

RunnerNext ==
  \/ \E r \in Reqs : \/ \E u \in Users, k \in {"start", "stop"} : Request(r, k, u)
                     \/ HangUp(r) \/ Collect(r)
  \/ RunnerStep

RunnerSpec == RunnerInit /\ [][RunnerNext]_runnerVars

(***************************************************************************)
(* A handler that has the mutex takes its next step: each docker command   *)
(* ends, by itself or because the client's timeout kills it.  sync.Mutex   *)
(* hands itself to a waiter that has waited a millisecond, so a waiting    *)
(* handler is not passed over for ever.                                    *)
(***************************************************************************)
RunnerFairness == \A r \in Reqs : SF_runnerVars(Lock(r)) /\ WF_runnerVars(Handle(r))

FairRunnerSpec == RunnerSpec /\ RunnerFairness

-------------------------------------------------------------------------------
(***************************************************************************)
(* Properties                                                              *)
(***************************************************************************)
Positions == {"free", "waiting", "inspect", "count", "remove", "run", "probeOld",
              "probeNew", "cleanup", "halt", "reinspect", "rm", "replied"}

\* The values containers and requests can take.
RunnerTypeOK ==
  /\ cont \in [Users -> {"none", "exited", "running"}]
  /\ late \subseteq Users
  /\ rpc \in [Reqs -> Positions]
  /\ rkind \in [Reqs -> {"start", "stop"}]
  /\ ruser \in [Reqs -> Users]
  /\ gone \subseteq Reqs
  /\ reply \in [Reqs -> {"none", "RUNNING", "STOPPED", "FULL", "ERROR"}]
  /\ answered \subseteq Running
  /\ strays \subseteq Running

\* MAX_SESSIONS holds for every container but those that came to life after
\* their start had failed: concurrent starts, exits and hang-ups between the
\* count and the docker run do not let one more in (start, under r.mu).
CapacityKept == Cardinality(Running \ strays) <= Max

\* A start that gives up stops only the container it launched itself, never
\* one that another start has already reported as running.
CleanupSparesAnswered ==
  \A r \in Reqs : rpc[r] = "cleanup" => ruser[r] \notin answered

\* When stop answers STOPPED, that container is gone, whatever starts,
\* crashes and late launches went on meanwhile.
StoppedIsGone ==
  [][\A r \in Reqs : reply'[r] = "STOPPED" /\ reply[r] = "none"
                       => cont'[ruser[r]] = "none"]_runnerVars

\* The promise of ContainerService, on which module Scheduler relies.
Service == INSTANCE ContainerService WITH
  up <- Running,
  call <- [r \in Reqs |->
             IF rpc[r] = "free" \/ r \in gone THEN [at |-> "free"]
             ELSE [at |-> IF rpc[r] = "replied" THEN "replied" ELSE "pending",
                   kind |-> rkind[r], user |-> ruser[r],
                   reply |-> IF reply[r] = "FULL" THEN "ERROR" ELSE reply[r]]]

\* Every docker command of start and stop keeps that promise.
ImplementsContainerService == Service!ServiceSpec

\* No handler waits for ever for the mutex, and none keeps it.
EveryRequestAnswered ==
  \A r \in Reqs : rpc[r] # "free" ~> rpc[r] \in {"replied", "free"}

\* docs/deployment.md: at most MAX_SESSIONS containers run.
RunningNeverExceedsMax == Cardinality(Running) <= Max
===============================================================================
