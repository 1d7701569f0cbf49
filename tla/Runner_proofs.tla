----------------------------- MODULE Runner_proofs ------------------------------
(***************************************************************************)
(* Theorems about the runner, for every finite set of users, every set of  *)
(* requests and every MAX_SESSIONS.  The argument: r.mu keeps one handler  *)
(* between count and docker run, so the room it has counted is still there *)
(* when it launches; and a handler that launches and then gives up is the  *)
(* only one that can have answered for its container.  So the runner keeps *)
(* the promise of ContainerService, which the scheduler is checked with.   *)
(***************************************************************************)
EXTENDS Runner, FiniteSetTheorems, TLAPS

\* Served is what MAX_SESSIONS is kept for.
Served == Running \ strays

OneHolder == \A r, q \in Reqs : Holding(r) /\ Holding(q) => r = q
RoomCounted == \A r \in Reqs : rpc[r] \in {"remove", "run"} => Cardinality(Served) < Max
LaunchedUnanswered ==
  \A r \in Reqs : rpc[r] \in {"probeNew", "cleanup"} => ruser[r] \notin answered

RunnerInv == RunnerTypeOK /\ OneHolder /\ LaunchedUnanswered

-----------------------------------------------------------------------------
(* The sets of users are finite, and the served ones are counted.          *)
LEMMA ServedFinite ==
  IsFiniteSet(Running) /\ IsFiniteSet(Served) /\ Cardinality(Served) <= Cardinality(Running)
    /\ Cardinality(Served) \in Nat /\ Cardinality(Running) \in Nat
  <1>1. Running \in SUBSET Users
    BY DEF Running
  <1>2. IsFiniteSet(Running)
    BY <1>1, UsersAssumption, FS_Subset
  <1>3. Served \in SUBSET Running
    BY DEF Served
  <1> QED
    BY <1>2, <1>3, FS_Subset, FS_CardinalityType

\* The values of the runner's state after every step.
LEMMA RunnerTypeStep ==
  ASSUME RunnerTypeOK, [RunnerNext]_runnerVars
  PROVE  RunnerTypeOK'
  <1> USE DEF RunnerTypeOK, Running, Positions
  <1>1. ASSUME NEW r \in Reqs, NEW u \in Users, NEW k \in {"start", "stop"}, Request(r, k, u)
        PROVE  RunnerTypeOK'
    BY <1>1 DEF Request
  <1>2. ASSUME NEW r \in Reqs, HangUp(r)
        PROVE  RunnerTypeOK'
    BY <1>2 DEF HangUp
  <1>3. ASSUME NEW r \in Reqs, Collect(r)
        PROVE  RunnerTypeOK'
    BY <1>3 DEF Collect
  <1>4. ASSUME NEW r \in Reqs, Lock(r)
        PROVE  RunnerTypeOK'
    BY <1>4 DEF Lock, Goto
  <1>5. ASSUME NEW r \in Reqs, StartInspect(r)
        PROVE  RunnerTypeOK'
    BY <1>5 DEF StartInspect, Goto
  <1>6. ASSUME NEW r \in Reqs, StartCount(r)
        PROVE  RunnerTypeOK'
    BY <1>6 DEF StartCount, Goto, Answer
  <1>7. ASSUME NEW r \in Reqs, StartRemove(r)
        PROVE  RunnerTypeOK'
    BY <1>7 DEF StartRemove, Removed, SetCont, Goto, Answer
  <1>8. ASSUME NEW r \in Reqs, StartRun(r)
        PROVE  RunnerTypeOK'
    BY <1>8 DEF StartRun, SetCont, Goto, Answer
  <1>9. ASSUME NEW r \in Reqs, StartProbeOld(r) \/ StartProbeNew(r)
        PROVE  RunnerTypeOK'
    BY <1>9 DEF StartProbeOld, StartProbeNew, Healthy, Goto, Answer
  <1>10. ASSUME NEW r \in Reqs, StartCleanup(r)
         PROVE  RunnerTypeOK'
    BY <1>10 DEF StartCleanup, SetCont, Answer
  <1>11. ASSUME NEW r \in Reqs, StopInspect(r)
         PROVE  RunnerTypeOK'
    BY <1>11 DEF StopInspect, Goto, Answer
  <1>12. ASSUME NEW r \in Reqs, StopHalt(r)
         PROVE  RunnerTypeOK'
    BY <1>12 DEF StopHalt, SetCont, Goto, Answer
  <1>13. ASSUME NEW r \in Reqs, StopReinspect(r)
         PROVE  RunnerTypeOK'
    BY <1>13 DEF StopReinspect, Goto, Answer
  <1>14. ASSUME NEW r \in Reqs, StopRemove(r)
         PROVE  RunnerTypeOK'
    BY <1>14 DEF StopRemove, Removed, SetCont, Answer
  <1>15. ASSUME NEW u \in Users, ContainerExits(u)
         PROVE  RunnerTypeOK'
    BY <1>15 DEF ContainerExits, SetCont, reqVars
  <1>16. ASSUME NEW u \in Users, LateStart(u)
         PROVE  RunnerTypeOK'
    BY <1>16 DEF LateStart, reqVars
  <1>17. ASSUME UNCHANGED runnerVars
         PROVE  RunnerTypeOK'
    BY <1>17 DEF runnerVars, reqVars
  <1> QED
    BY <1>1, <1>2, <1>3, <1>4, <1>5, <1>6, <1>7, <1>8, <1>9, <1>10, <1>11, <1>12,
       <1>13, <1>14, <1>15, <1>16, <1>17 DEF RunnerNext, RunnerStep, Handle

\* Only the handler that holds r.mu moves on; a new holder finds it free.
LEMMA OneHolderStep ==
  ASSUME RunnerTypeOK, OneHolder, [RunnerNext]_runnerVars
  PROVE  OneHolder'
  <1> USE DEF RunnerTypeOK, OneHolder, Holding
  <1>1. ASSUME NEW r \in Reqs, NEW u \in Users, NEW k \in {"start", "stop"}, Request(r, k, u)
        PROVE  OneHolder'
    BY <1>1 DEF Request
  <1>2. ASSUME NEW r \in Reqs, HangUp(r) \/ Collect(r) \/ Lock(r)
        PROVE  OneHolder'
    BY <1>2 DEF HangUp, Collect, Lock, Goto
  <1>3. ASSUME NEW r \in Reqs, Handle(r)
        PROVE  OneHolder'
    <2>1. Holding(r) /\ \A q \in Reqs : q # r => rpc'[q] = rpc[q]
      BY <1>3 DEF Handle, StartInspect, StartCount, StartRemove, StartRun, StartProbeOld,
         StartProbeNew, Healthy, StartCleanup, StopInspect, StopHalt, StopReinspect,
         StopRemove, Goto, Answer
    <2> QED
      BY <2>1
  <1>4. ASSUME NEW u \in Users, ContainerExits(u) \/ LateStart(u)
        PROVE  OneHolder'
    BY <1>4 DEF ContainerExits, LateStart, reqVars
  <1>5. ASSUME UNCHANGED runnerVars
        PROVE  OneHolder'
    BY <1>5 DEF runnerVars, reqVars
  <1> QED
    BY <1>1, <1>2, <1>3, <1>4, <1>5 DEF RunnerNext, RunnerStep

\* A handler about to probe or to clean up after its own docker run: nobody
\* has answered for that container since, for nobody else held r.mu.
LEMMA LaunchedStep ==
  ASSUME RunnerInv, [RunnerNext]_runnerVars
  PROVE  LaunchedUnanswered'
  <1> USE DEF RunnerInv, RunnerTypeOK, LaunchedUnanswered
  <1>1. ASSUME NEW r \in Reqs, NEW u \in Users, NEW k \in {"start", "stop"}, Request(r, k, u)
        PROVE  LaunchedUnanswered'
    BY <1>1 DEF Request
  <1>2. ASSUME NEW r \in Reqs, HangUp(r) \/ Collect(r) \/ Lock(r)
        PROVE  LaunchedUnanswered'
    BY <1>2 DEF HangUp, Collect, Lock, Goto
  <1>3. ASSUME NEW r \in Reqs, StartRun(r)
        PROVE  LaunchedUnanswered'
    BY <1>3 DEF StartRun, SetCont, Goto, Answer, Running
  <1>4. ASSUME NEW r \in Reqs, StartProbeOld(r) \/ StartProbeNew(r)
        PROVE  LaunchedUnanswered'
    <2>1. \A q \in Reqs : rpc[q] \in {"probeNew", "cleanup"} => q = r
      BY <1>4 DEF OneHolder, Holding, StartProbeOld, StartProbeNew
    <2>2. ruser' = ruser /\ \A q \in Reqs : q # r => rpc'[q] = rpc[q]
      BY <1>4 DEF StartProbeOld, StartProbeNew, Healthy, Goto, Answer
    <2>3. rpc'[r] \in {"probeNew", "cleanup"} => rpc[r] = "probeNew" /\ answered' = answered
      BY <1>4 DEF StartProbeOld, StartProbeNew, Healthy, Goto, Answer
    <2> QED
      BY <2>1, <2>2, <2>3
  <1>5. ASSUME NEW r \in Reqs,
               \/ StartInspect(r) \/ StartCount(r) \/ StartRemove(r) \/ StartCleanup(r)
               \/ StopInspect(r) \/ StopHalt(r) \/ StopReinspect(r) \/ StopRemove(r)
        PROVE  LaunchedUnanswered'
    <2>1. ruser' = ruser /\ answered' \subseteq answered
      BY <1>5 DEF StartInspect, StartCount, StartRemove, StartCleanup, StopInspect, StopHalt,
         StopReinspect, StopRemove, Removed, SetCont
    <2>2. \A q \in Reqs : rpc'[q] \in {"probeNew", "cleanup"} => rpc'[q] = rpc[q]
      BY <1>5 DEF StartInspect, StartCount, StartRemove, StartCleanup, StopInspect, StopHalt,
         StopReinspect, StopRemove, Goto, Answer
    <2> QED
      BY <2>1, <2>2
  <1>6. ASSUME NEW u \in Users, ContainerExits(u) \/ LateStart(u)
        PROVE  LaunchedUnanswered'
    BY <1>6 DEF ContainerExits, LateStart, SetCont, reqVars
  <1>7. ASSUME UNCHANGED runnerVars
        PROVE  LaunchedUnanswered'
    BY <1>7 DEF runnerVars, reqVars
  <1> QED
    BY <1>1, <1>2, <1>3, <1>4, <1>5, <1>6, <1>7 DEF RunnerNext, RunnerStep, Handle

\* The three invariants hold of every reachable state.
THEOREM RunnerInvariant == RunnerSpec => []RunnerInv
  <1>1. RunnerInit => RunnerInv
    BY DEF RunnerInit, RunnerInv, RunnerTypeOK, Positions, Running, OneHolder, Holding,
       LaunchedUnanswered
  <1>2. RunnerInv /\ [RunnerNext]_runnerVars => RunnerInv'
    BY RunnerTypeStep, OneHolderStep, LaunchedStep DEF RunnerInv
  <1> QED
    BY <1>1, <1>2, PTL DEF RunnerSpec

\* Containers and requests have values of their types (runner.go, all handlers).
THEOREM RunnerTypeCorrect == RunnerSpec => []RunnerTypeOK
  <1>1. RunnerInv => RunnerTypeOK
    BY DEF RunnerInv
  <1> QED
    BY <1>1, RunnerInvariant, PTL

\* A start that gives up never stops a container that another start has
\* reported as running (runner.go, docker stop after a failed wait).
THEOREM CleanupIsSafe == RunnerSpec => []CleanupSparesAnswered
  <1>1. RunnerInv => CleanupSparesAnswered
    BY DEF RunnerInv, LaunchedUnanswered, CleanupSparesAnswered
  <1> QED
    BY <1>1, RunnerInvariant, PTL

\* If docker inspect is reliable, a stop answered STOPPED has left no container.
THEOREM StopIsTrue ==
  ASSUME "inspect" \notin Faults
  PROVE  RunnerSpec => StoppedIsGone
  <1>1. ASSUME RunnerInv, [RunnerNext]_runnerVars, NEW r \in Reqs,
               reply'[r] = "STOPPED", reply[r] = "none"
        PROVE  cont'[ruser[r]] = "none"
    <2> USE DEF RunnerInv, RunnerTypeOK
    <2>1. CASE StopInspect(r) \/ StopRemove(r)
      BY <2>1, <1>1 DEF StopInspect, StopRemove, InspectFails, Removed, SetCont, Goto, Answer
    <2>2. CASE ~(StopInspect(r) \/ StopRemove(r))
      <3>1. reply'[r] # "STOPPED" \/ reply'[r] = reply[r]
        BY <2>2, <1>1 DEF RunnerNext, RunnerStep, Request, HangUp, Collect, Lock, Handle,
           StartInspect, StartCount, StartRemove, StartRun, StartProbeOld, StartProbeNew,
           Healthy, StartCleanup, StopInspect, StopHalt, StopReinspect, StopRemove,
           ContainerExits, LateStart, Goto, Answer, reqVars, runnerVars
      <3> QED
        BY <3>1, <1>1
    <2> QED
      BY <2>1, <2>2
  <1>2. RunnerInv /\ [RunnerNext]_runnerVars =>
          [\A r \in Reqs : reply'[r] = "STOPPED" /\ reply[r] = "none"
                             => cont'[ruser[r]] = "none"]_runnerVars
    BY <1>1
  <1> QED
    BY <1>2, RunnerInvariant, PTL DEF RunnerSpec, StoppedIsGone

-----------------------------------------------------------------------------
(* MAX_SESSIONS                                                            *)
CapacityInv == RunnerInv /\ RoomCounted /\ CapacityKept

\* Every step but a successful docker run leaves the served containers alone
\* or takes some away: a late launch is a stray from the start.
LEMMA ServedShrinks ==
  ASSUME RunnerInv, [RunnerNext]_runnerVars, \A r \in Reqs : ~StartRun(r)
  PROVE  Served' \subseteq Served
  <1> USE DEF RunnerInv, RunnerTypeOK, Served, Running
  <1>1. ASSUME NEW r \in Reqs,
               \/ \E u \in Users, k \in {"start", "stop"} : Request(r, k, u)
               \/ HangUp(r) \/ Collect(r) \/ Lock(r) \/ StartInspect(r) \/ StartCount(r)
               \/ StartProbeOld(r) \/ StartProbeNew(r) \/ StopInspect(r) \/ StopReinspect(r)
        PROVE  Served' \subseteq Served
    <2>1. cont' = cont /\ strays' = strays
      BY <1>1 DEF Request, HangUp, Collect, Lock, StartInspect, StartCount, StartProbeOld,
         StartProbeNew, Healthy, StopInspect, StopReinspect
    <2> QED
      BY <2>1
  <1>2. ASSUME NEW r \in Reqs, StartRemove(r) \/ StopRemove(r)
        PROVE  Served' \subseteq Served
    BY <1>2 DEF StartRemove, StopRemove, Removed, SetCont
  <1>3. ASSUME NEW r \in Reqs, StartCleanup(r) \/ StopHalt(r)
        PROVE  Served' \subseteq Served
    BY <1>3 DEF StartCleanup, StopHalt, SetCont
  <1>4. ASSUME NEW u \in Users, ContainerExits(u) \/ LateStart(u)
        PROVE  Served' \subseteq Served
    BY <1>4 DEF ContainerExits, LateStart, SetCont
  <1>5. ASSUME UNCHANGED runnerVars
        PROVE  Served' \subseteq Served
    BY <1>5 DEF runnerVars
  <1> QED
    BY <1>1, <1>2, <1>3, <1>4, <1>5 DEF RunnerNext, RunnerStep, Handle

\* A handler comes to docker rm or docker run from its own count only.
LEMMA RoomComesFromCount ==
  ASSUME RunnerInv, [RunnerNext]_runnerVars, NEW r \in Reqs, rpc'[r] \in {"remove", "run"}
  PROVE  rpc[r] \in {"remove", "run"} \/ StartCount(r)
  <1> USE DEF RunnerInv, RunnerTypeOK
  <1>1. ASSUME NEW q \in Reqs, NEW u \in Users, NEW k \in {"start", "stop"}, Request(q, k, u)
        PROVE  rpc[r] \in {"remove", "run"}
    BY <1>1 DEF Request
  <1>2. ASSUME NEW q \in Reqs, HangUp(q) \/ Collect(q) \/ Lock(q)
        PROVE  rpc[r] \in {"remove", "run"}
    BY <1>2 DEF HangUp, Collect, Lock, Goto
  <1>3. ASSUME NEW q \in Reqs, Handle(q)
        PROVE  rpc[r] \in {"remove", "run"} \/ StartCount(r)
    BY <1>3 DEF Handle, StartInspect, StartCount, StartRemove, StartRun, StartProbeOld,
       StartProbeNew, Healthy, StartCleanup, StopInspect, StopHalt, StopReinspect,
       StopRemove, Goto, Answer
  <1>4. ASSUME NEW u \in Users, ContainerExits(u) \/ LateStart(u)
        PROVE  rpc[r] \in {"remove", "run"}
    BY <1>4 DEF ContainerExits, LateStart, reqVars
  <1>5. ASSUME UNCHANGED runnerVars
        PROVE  rpc[r] \in {"remove", "run"}
    BY <1>5 DEF runnerVars, reqVars
  <1> QED
    BY <1>1, <1>2, <1>3, <1>4, <1>5 DEF RunnerNext, RunnerStep

\* A count below the limit leaves room for one more.
LEMMA CountLeavesRoom ==
  ASSUME "inspect" \notin Faults, RunnerInv, NEW r \in Reqs, StartCount(r),
         rpc'[r] \in {"remove", "run"}
  PROVE  Cardinality(Served) < Max
  <1>1. Cardinality(Running) < Max \/ Cardinality(Running) >= Max
    BY ServedFinite, MaxAssumption
  <1>2. ~(Cardinality(Running) >= Max)
    BY DEF StartCount, Counted, Goto, Answer, RunnerInv, RunnerTypeOK
  <1> QED
    BY <1>1, <1>2, ServedFinite, MaxAssumption

\* The only step that adds to the served containers adds one, where one is free.
LEMMA CapacityStep ==
  ASSUME "inspect" \notin Faults, CapacityInv, [RunnerNext]_runnerVars
  PROVE  RoomCounted' /\ CapacityKept'
  <1> USE DEF CapacityInv
  <1>1. CASE \E r \in Reqs : StartRun(r)
    <2>1. PICK r \in Reqs : StartRun(r)
      BY <1>1
    <2>2. \A q \in Reqs : rpc'[q] \notin {"remove", "run"}
      BY <2>1 DEF StartRun, Goto, Answer, RunnerInv, RunnerTypeOK, OneHolder, Holding
    <2>3. Served' \subseteq Served \cup {ruser[r]}
      BY <2>1 DEF StartRun, SetCont, Served, Running, RunnerInv, RunnerTypeOK
    <2>4. Cardinality(Served) < Max
      BY <2>1 DEF StartRun, RoomCounted
    <2>5. Cardinality(Served \cup {ruser[r]}) <= Cardinality(Served) + 1
          /\ IsFiniteSet(Served \cup {ruser[r]})
      BY ServedFinite, FS_AddElement
    <2>6. Cardinality(Served') <= Cardinality(Served \cup {ruser[r]})
          /\ Cardinality(Served') \in Nat /\ Cardinality(Served \cup {ruser[r]}) \in Nat
      BY <2>3, <2>5, FS_Subset, FS_CardinalityType
    <2>7. Cardinality(Served') <= Max
      BY <2>4, <2>5, <2>6, ServedFinite, MaxAssumption
    <2> QED
      BY <2>2, <2>7 DEF RoomCounted, CapacityKept, Served
  <1>2. CASE \A r \in Reqs : ~StartRun(r)
    <2>1. Served' \subseteq Served
      BY <1>2, ServedShrinks
    <2>2. Cardinality(Served') <= Cardinality(Served) /\ Cardinality(Served') \in Nat
      BY <2>1, ServedFinite, FS_Subset, FS_CardinalityType
    <2>3. ASSUME NEW r \in Reqs, rpc'[r] \in {"remove", "run"}
          PROVE  Cardinality(Served) < Max
      BY <2>3, RoomComesFromCount, CountLeavesRoom DEF RoomCounted
    <2>4. RoomCounted'
      BY <2>2, <2>3, ServedFinite, MaxAssumption DEF RoomCounted
    <2>5. Cardinality(Served) <= Max
      BY DEF CapacityKept, Served
    <2>6. Cardinality(Served') <= Max
      BY <2>2, <2>5, ServedFinite, MaxAssumption
    <2> QED
      BY <2>4, <2>6 DEF CapacityKept, Served
  <1> QED
    BY <1>1, <1>2

\* If docker inspect is reliable, starts never let more than MAX_SESSIONS
\* containers run, however many requests race (runner.go, start under r.mu).
THEOREM CapacityHolds ==
  ASSUME "inspect" \notin Faults
  PROVE  RunnerSpec => []CapacityKept
  <1>1. RunnerInit => CapacityInv
    <2>1. ASSUME RunnerInit
          PROVE  Served = {} /\ RoomCounted
      BY <2>1 DEF RunnerInit, Served, Running, RoomCounted
    <2>2. RunnerInit => RunnerInv
      BY DEF RunnerInit, RunnerInv, RunnerTypeOK, Positions, Running, OneHolder, Holding,
         LaunchedUnanswered
    <2> QED
      BY <2>1, <2>2, FS_EmptySet, MaxAssumption DEF CapacityInv, CapacityKept, Served
  <1>2. CapacityInv /\ [RunnerNext]_runnerVars => CapacityInv'
    BY CapacityStep, RunnerTypeStep, OneHolderStep, LaunchedStep DEF CapacityInv, RunnerInv
  <1>3. CapacityInv => CapacityKept
    BY DEF CapacityInv
  <1> QED
    BY <1>1, <1>2, <1>3, PTL DEF RunnerSpec

\* Only a docker run that is killed lets a container come to life late.
LEMMA NothingLateStep ==
  ASSUME "kill" \notin Faults, late = {}, strays = {}, [RunnerNext]_runnerVars
  PROVE  late' = {} /\ strays' = {}
  <1> USE DEF reqVars
  <1>1. ASSUME NEW r \in Reqs,
               \/ \E u \in Users, k \in {"start", "stop"} : Request(r, k, u)
               \/ HangUp(r) \/ Collect(r) \/ Lock(r) \/ StartInspect(r) \/ StartCount(r)
               \/ StartProbeOld(r) \/ StartProbeNew(r) \/ StopInspect(r) \/ StopReinspect(r)
        PROVE  UNCHANGED <<late, strays>>
    BY <1>1 DEF Request, HangUp, Collect, Lock, StartInspect, StartCount, StartProbeOld,
       StartProbeNew, Healthy, StopInspect, StopReinspect
  <1>2. ASSUME NEW r \in Reqs, StartRemove(r) \/ StopRemove(r)
        PROVE  late' = {} /\ strays' = {}
    BY <1>2 DEF StartRemove, StopRemove, Removed, SetCont
  <1>3. ASSUME NEW r \in Reqs, StartRun(r) \/ StartCleanup(r) \/ StopHalt(r)
        PROVE  late' = {} /\ strays' = {}
    BY <1>3 DEF StartRun, StartCleanup, StopHalt, SetCont
  <1>4. ASSUME NEW u \in Users, ContainerExits(u) \/ LateStart(u)
        PROVE  late' = {} /\ strays' = {}
    BY <1>4 DEF ContainerExits, LateStart, SetCont
  <1>5. ASSUME UNCHANGED runnerVars
        PROVE  UNCHANGED <<late, strays>>
    BY <1>5 DEF runnerVars
  <1> QED
    BY <1>1, <1>2, <1>3, <1>4, <1>5 DEF RunnerNext, RunnerStep, Handle

\* The documentation's limit, MAX_SESSIONS containers and no exception, holds if
\* moreover no docker run is killed: then every container that runs is counted.
THEOREM MaxSessionsHold ==
  ASSUME "inspect" \notin Faults, "kill" \notin Faults
  PROVE  RunnerSpec => []RunningNeverExceedsMax
  <1> DEFINE NothingLate == late = {} /\ strays = {}
  <1>1. RunnerInit => NothingLate
    BY DEF RunnerInit
  <1>2. NothingLate /\ [RunnerNext]_runnerVars => NothingLate'
    BY NothingLateStep
  <1>3. CapacityKept /\ NothingLate => RunningNeverExceedsMax
    BY DEF CapacityKept, RunningNeverExceedsMax
  <1> HIDE DEF NothingLate
  <1> QED
    BY <1>1, <1>2, <1>3, CapacityHolds, PTL DEF RunnerSpec

-----------------------------------------------------------------------------
(* The refinement of ContainerService                                      *)

\* The containers a late launch may bring up exist; r.mu's handler knows what
\* it handles, and whom it handles it for.
LateExists == \A u \in late : cont[u] # "none"
HandlersKnown ==
  \A r \in Reqs :
    /\ rpc[r] = "free" => r \notin gone
    /\ rpc[r] # "replied" => reply[r] = "none"
    /\ rpc[r] \in {"count", "remove", "run", "probeOld", "probeNew", "cleanup"}
         => rkind[r] = "start"
    /\ rpc[r] \in {"halt", "reinspect", "rm"} => rkind[r] = "stop"

\* The inductive invariant of the refinement: the room that docker run finds
\* is counted unless docker inspect may fail.
ServiceInv ==
  /\ RunnerInv /\ LateExists /\ HandlersKnown
  /\ "inspect" \notin Faults => RoomCounted /\ CapacityKept

\* The requests, as ContainerService sees them.
Calls == [r \in Reqs |->
            IF rpc[r] = "free" \/ r \in gone THEN [at |-> "free"]
            ELSE [at |-> IF rpc[r] = "replied" THEN "replied" ELSE "pending",
                  kind |-> rkind[r], user |-> ruser[r],
                  reply |-> IF reply[r] = "FULL" THEN "ERROR" ELSE reply[r]]]

\* The API learns that a start is refused, and not why.
Shown(a) == IF a = "FULL" THEN "ERROR" ELSE a

\* A step of ContainerService, or none.
ServiceStep == Service!ServiceNext \/ UNCHANGED <<Running, late, strays, Calls>>

\* A container that a killed docker run may still start has been created, and
\* docker rm takes both away.
LEMMA LateStep ==
  ASSUME RunnerTypeOK, LateExists, [RunnerNext]_runnerVars
  PROVE  LateExists'
  <1> USE DEF RunnerTypeOK, LateExists
  <1>1. ASSUME NEW r \in Reqs, StartRemove(r) \/ StopRemove(r)
        PROVE  LateExists'
    BY <1>1 DEF StartRemove, StopRemove, Removed, SetCont
  <1>2. ASSUME NEW r \in Reqs, StartRun(r) \/ StartCleanup(r) \/ StopHalt(r)
        PROVE  LateExists'
    BY <1>2 DEF StartRun, StartCleanup, StopHalt, SetCont
  <1>3. ASSUME NEW u \in Users, ContainerExits(u) \/ LateStart(u)
        PROVE  LateExists'
    BY <1>3 DEF ContainerExits, LateStart, SetCont
  <1>4. CASE UNCHANGED <<cont, late>>
    BY <1>4
  <1>5. ASSUME NEW r \in Reqs,
               \/ \E u \in Users, k \in {"start", "stop"} : Request(r, k, u)
               \/ HangUp(r) \/ Collect(r) \/ Lock(r) \/ StartInspect(r) \/ StartCount(r)
               \/ StartProbeOld(r) \/ StartProbeNew(r) \/ StopInspect(r) \/ StopReinspect(r)
        PROVE  UNCHANGED <<cont, late>>
    BY <1>5 DEF Request, HangUp, Collect, Lock, StartInspect, StartCount, StartProbeOld,
       StartProbeNew, StopInspect, StopReinspect
  <1> QED
    BY <1>1, <1>2, <1>3, <1>4, <1>5 DEF RunnerNext, RunnerStep, Handle, runnerVars

\* A handler goes from one position of its own kind to the next.
LEMMA HandlersStep ==
  ASSUME RunnerTypeOK, HandlersKnown, [RunnerNext]_runnerVars
  PROVE  HandlersKnown'
  <1> USE DEF RunnerTypeOK, HandlersKnown
  <1>1. ASSUME NEW r \in Reqs, NEW u \in Users, NEW k \in {"start", "stop"}, Request(r, k, u)
        PROVE  HandlersKnown'
    BY <1>1 DEF Request
  <1>2. ASSUME NEW r \in Reqs, HangUp(r)
        PROVE  HandlersKnown'
    BY <1>2 DEF HangUp
  <1>3. ASSUME NEW r \in Reqs, Collect(r)
        PROVE  HandlersKnown'
    BY <1>3 DEF Collect
  <1>4. ASSUME NEW r \in Reqs, Lock(r) \/ Handle(r)
        PROVE  HandlersKnown'
    <2>1. UNCHANGED <<rkind, gone>> /\ rpc[r] \notin {"free", "replied"}
      BY <1>4 DEF Lock, Handle, StartInspect, StartCount, StartRemove, StartRun, StartProbeOld,
         StartProbeNew, StartCleanup, StopInspect, StopHalt, StopReinspect, StopRemove
    <2>2. CASE \E a : Answer(r, a)
      BY <2>1, <2>2 DEF Answer
    <2>3. CASE \E pc : /\ Goto(r, pc) /\ pc \notin {"free", "replied"}
                       /\ pc \in {"count", "remove", "run", "probeOld", "probeNew", "cleanup"}
                            => rkind[r] = "start"
                       /\ pc \in {"halt", "reinspect", "rm"} => rkind[r] = "stop"
      BY <2>1, <2>3 DEF Goto
    <2>4. CASE Lock(r)
      BY <2>3, <2>4 DEF Lock
    <2>5. CASE StartInspect(r) \/ StopInspect(r)
      BY <2>2, <2>3, <2>5 DEF StartInspect, StopInspect
    <2>6. CASE StartCount(r) \/ StartRemove(r) \/ StartRun(r)
      BY <2>2, <2>3, <2>6 DEF StartCount, StartRemove, StartRun
    <2>7. CASE StartProbeOld(r) \/ StartProbeNew(r) \/ StartCleanup(r)
      BY <2>2, <2>3, <2>7 DEF StartProbeOld, StartProbeNew, StartCleanup, Healthy
    <2>8. CASE StopHalt(r) \/ StopReinspect(r) \/ StopRemove(r)
      BY <2>2, <2>3, <2>8 DEF StopHalt, StopReinspect, StopRemove
    <2> QED
      BY <1>4, <2>4, <2>5, <2>6, <2>7, <2>8 DEF Handle
  <1>5. ASSUME NEW u \in Users, ContainerExits(u) \/ LateStart(u)
        PROVE  HandlersKnown'
    BY <1>5 DEF ContainerExits, LateStart, reqVars
  <1>6. CASE UNCHANGED runnerVars
    BY <1>6 DEF runnerVars, reqVars
  <1> QED
    BY <1>1, <1>2, <1>3, <1>4, <1>5, <1>6 DEF RunnerNext, RunnerStep

\* What SetCont does to the containers that run.
LEMMA SetContRunning ==
  ASSUME RunnerTypeOK, NEW u \in Users, NEW s \in {"none", "exited", "running"}, SetCont(u, s)
  PROVE  IF s = "running" THEN Running' = Running \cup {u} /\ strays' = strays
                          ELSE Running' = Running \ {u} /\ strays' = strays \ {u}
  BY DEF RunnerTypeOK, SetCont, Running

\* Between two docker commands a request stays pending.
LEMMA StaysPending ==
  ASSUME RunnerTypeOK, NEW r \in Reqs, NEW pc, Goto(r, pc), pc \notin {"free", "replied"},
         rpc[r] \notin {"free", "replied"}, UNCHANGED <<rkind, ruser, gone>>
  PROVE  UNCHANGED Calls
  <1>1. \A q \in Reqs : q # r => rpc'[q] = rpc[q]
    BY DEF Goto, RunnerTypeOK
  <1>2. rpc'[r] = pc /\ reply' = reply
    BY DEF Goto, RunnerTypeOK
  <1> QED
    BY <1>1, <1>2 DEF Calls

\* An answer is seen by a client that is still there.
LEMMA AnswerSeen ==
  ASSUME RunnerTypeOK, HandlersKnown, NEW r \in Reqs,
         NEW a \in {"RUNNING", "STOPPED", "FULL", "ERROR"}, Answer(r, a),
         rpc[r] \notin {"free", "replied"}, UNCHANGED <<rkind, ruser, gone>>
  PROVE  /\ r \in gone => UNCHANGED Calls
         /\ r \notin gone =>
              /\ Calls[r] = [at |-> "pending", kind |-> rkind[r], user |-> ruser[r],
                             reply |-> "none"]
              /\ Calls' = [Calls EXCEPT ![r].at = "replied",
                                        ![r].reply = Shown(a)]
  <1>1. \A q \in Reqs : q # r => rpc'[q] = rpc[q] /\ reply'[q] = reply[q]
    BY DEF Answer, RunnerTypeOK
  <1>2. rpc'[r] = "replied" /\ reply'[r] = a /\ reply[r] = "none"
    BY DEF Answer, RunnerTypeOK, HandlersKnown
  <1>3. \A q \in Reqs : q # r => Calls'[q] = Calls[q]
    BY <1>1 DEF Calls
  <1>4. Calls = [q \in Reqs |-> Calls[q]] /\ Calls' = [q \in Reqs |-> Calls'[q]]
    BY DEF Calls
  <1>5. CASE r \in gone
    <2>1. Calls'[r] = Calls[r]
      BY <1>5 DEF Calls
    <2> QED
      BY <1>3, <1>4, <1>5, <2>1
  <1>6. CASE r \notin gone
    <2>1. /\ Calls[r] = [at |-> "pending", kind |-> rkind[r], user |-> ruser[r], reply |-> "none"]
          /\ Calls'[r] = [at |-> "replied", kind |-> rkind[r], user |-> ruser[r],
                          reply |-> Shown(a)]
      BY <1>2, <1>6 DEF Calls, Shown
    <2> DEFINE seen == [Calls EXCEPT ![r].at = "replied", ![r].reply = Shown(a)]
    <2>2. Calls'[r] = [Calls[r] EXCEPT !.at = "replied", !.reply = Shown(a)]
      <3>1. PICK c, k, u, b :
              c = Calls[r] /\ k = rkind[r] /\ u = ruser[r] /\ b = Shown(a)
        OBVIOUS
      <3>2. /\ c = [at |-> "pending", kind |-> k, user |-> u, reply |-> "none"]
            /\ Calls'[r] = [at |-> "replied", kind |-> k, user |-> u, reply |-> b]
        BY <2>1, <3>1
      <3>3. [c EXCEPT !.at = "replied", !.reply = b]
              \in [at : {"replied"}, kind : {k}, user : {u}, reply : {b}]
        BY <3>2
      <3>4. ASSUME NEW d \in [at : {"replied"}, kind : {k}, user : {u}, reply : {b}]
            PROVE  d = [at |-> "replied", kind |-> k, user |-> u, reply |-> b]
        OBVIOUS
      <3>5. Calls'[r] = [c EXCEPT !.at = "replied", !.reply = b]
        BY <3>2, <3>3, <3>4
      <3> QED
        BY <3>1, <3>5
    <2>3. seen[r] = [Calls[r] EXCEPT !.at = "replied", !.reply = Shown(a)]
      <3>1. DOMAIN Calls = Reqs
        BY <1>4
      <3> QED
        BY <3>1, SMTT(30)
    <2>4. (\A q \in Reqs : q # r => seen[q] = Calls[q]) /\ seen = [q \in Reqs |-> seen[q]]
      BY <1>4
    <2> HIDE DEF seen
    <2>5. Calls' = seen
      BY <1>3, <1>4, <2>2, <2>3, <2>4
    <2> QED
      BY <1>6, <2>1, <2>5 DEF seen
  <1> QED
    BY <1>5, <1>6

\* ContainerService counts as the runner does.
LEMMA SameCount ==
  ASSUME NEW S
  PROVE  Service!Cardinality(S) = Cardinality(S)
  BY Zenon DEF Service!Cardinality, Cardinality

\* A container quits while the requests stay as they are.
LEMMA QuitsIsStop ==
  ASSUME RunnerTypeOK, NEW u \in Users, Running' = Running \ {u}, strays' = strays \ {u},
         UNCHANGED <<late, Calls>>
  PROVE  ServiceStep
  <1>1. CASE u \in Running
    <2>1. Service!Stop(u)
      BY <1>1 DEF Service!Stop, Service!Quits, Calls
    <2> QED
      BY <2>1 DEF ServiceStep, Service!ServiceNext
  <1>2. CASE u \notin Running
    BY <1>2 DEF ServiceStep, RunnerTypeOK
  <1> QED
    BY <1>1, <1>2

\* docker rm takes the old container away while the requests stay as they are.
LEMMA RemovedIsForget ==
  ASSUME NEW u \in Users, late' = late \ {u}, UNCHANGED <<Running, strays, Calls>>
  PROVE  ServiceStep
  <1>1. CASE u \in late
    <2>1. Service!Forget(u)
      BY <1>1 DEF Service!Forget, Calls
    <2> QED
      BY <2>1 DEF ServiceStep, Service!ServiceNext
  <1>2. CASE u \notin late
    BY <1>2 DEF ServiceStep
  <1> QED
    BY <1>1, <1>2

\* An error is seen with what the handler has done, or only that is.
LEMMA ErrorIsReply ==
  ASSUME ServiceInv, NEW r \in Reqs, NEW a \in {"FULL", "ERROR"}, Answer(r, a),
         rpc[r] \notin {"free", "replied"}, UNCHANGED <<rkind, ruser, gone>>,
         \/ UNCHANGED <<Running, strays, late>>
         \/ Running' = Running \ {ruser[r]} /\ strays' = strays \ {ruser[r]} /\ UNCHANGED late
         \/ late' = late \ {ruser[r]} /\ UNCHANGED <<Running, strays>>
         \/ /\ r \notin gone /\ "kill" \in Faults /\ rkind[r] = "start"
            /\ late' = late \cup {ruser[r]} /\ UNCHANGED <<Running, strays>>
  PROVE  ServiceStep
  <1>0. RunnerTypeOK /\ HandlersKnown /\ ruser[r] \in Users
    BY DEF ServiceInv, RunnerInv, RunnerTypeOK
  <1>1. CASE r \in gone
    <2>1. UNCHANGED Calls
      BY <1>0, <1>1, AnswerSeen
    <2> QED
      BY <1>0, <1>1, <2>1, QuitsIsStop, RemovedIsForget DEF ServiceStep
  <1>2. CASE r \notin gone
    <2>1. /\ Calls[r].at = "pending" /\ Calls[r].user = ruser[r] /\ Calls[r].kind = rkind[r]
          /\ Calls' = [Calls EXCEPT ![r].at = "replied", ![r].reply = "ERROR"]
      <3>1. Shown(a) = "ERROR"
        BY DEF Shown
      <3>2. /\ Calls[r] = [at |-> "pending", kind |-> rkind[r], user |-> ruser[r], reply |-> "none"]
            /\ Calls' = [Calls EXCEPT ![r].at = "replied", ![r].reply = Shown(a)]
        BY <1>0, <1>2, AnswerSeen
      <3> QED
        BY <3>1, <3>2
    <2>2. Service!Reply(r, "ERROR")
      BY <2>1 DEF Service!Reply, Service!Is, Service!Quits, Calls
    <2> QED
      BY <2>2 DEF ServiceStep, Service!ServiceNext
  <1> QED
    BY <1>1, <1>2

\* The steps of clients ask, and hang up or take the answer.
LEMMA ClientStep ==
  ASSUME ServiceInv, NEW r \in Reqs,
         \/ \E u \in Users, k \in {"start", "stop"} : Request(r, k, u)
         \/ HangUp(r) \/ Collect(r)
  PROVE  ServiceStep
  <1>0. RunnerTypeOK /\ HandlersKnown
    BY DEF ServiceInv, RunnerInv
  <1>1. UNCHANGED <<Running, late, strays>>
    BY DEF Request, HangUp, Collect, Running
  <1>2. Calls = [q \in Reqs |-> Calls[q]] /\ Calls' = [q \in Reqs |-> Calls'[q]]
    BY DEF Calls
  <1>3. ASSUME NEW u \in Users, NEW k \in {"start", "stop"}, Request(r, k, u)
        PROVE  ServiceStep
    <2>1. /\ Calls[r] = [at |-> "free"]
          /\ Calls'[r] = [at |-> "pending", kind |-> k, user |-> u, reply |-> "none"]
          /\ \A q \in Reqs : q # r => Calls'[q] = Calls[q]
      BY <1>0, <1>3 DEF Request, Calls, RunnerTypeOK, HandlersKnown
    <2>2. Calls' = [Calls EXCEPT ![r] = [at |-> "pending", kind |-> k, user |-> u,
                                         reply |-> "none"]]
      BY <1>2, <2>1
    <2>3. Service!Ask(r, k, u)
      BY <1>1, <2>1, <2>2 DEF Service!Ask, Service!Is, Calls
    <2> QED
      BY <2>3 DEF ServiceStep, Service!ServiceNext
  <1>4. CASE HangUp(r) \/ Collect(r)
    <2>1. Calls'[r] = [at |-> "free"] /\ \A q \in Reqs : q # r => Calls'[q] = Calls[q]
      BY <1>0, <1>4 DEF HangUp, Collect, Calls, RunnerTypeOK
    <2>2. Calls' = [Calls EXCEPT ![r] = [at |-> "free"]]
      BY <1>2, <2>1
    <2>3. Service!Leave(r)
      BY <1>1, <2>2 DEF Service!Leave, Service!Free, Calls
    <2> QED
      BY <2>3 DEF ServiceStep, Service!ServiceNext
  <1> QED
    BY <1>3, <1>4

\* A start or a stop that only moves on: nothing happens to its container.
LEMMA MovesOn ==
  ASSUME ServiceInv, NEW r \in Reqs, NEW pc, Goto(r, pc), pc \notin {"free", "replied"},
         rpc[r] \notin {"free", "replied"}, UNCHANGED <<rkind, ruser, gone>>,
         UNCHANGED <<cont, late, strays>>
  PROVE  ServiceStep
  BY StaysPending DEF ServiceInv, RunnerInv, ServiceStep, Running

\* An error without any effect.
LEMMA GivesUp ==
  ASSUME ServiceInv, NEW r \in Reqs, NEW a \in {"FULL", "ERROR"}, Answer(r, a),
         rpc[r] \notin {"free", "replied"}, UNCHANGED <<rkind, ruser, gone>>,
         UNCHANGED <<cont, late, strays>>
  PROVE  ServiceStep
  <1>1. UNCHANGED <<Running, late, strays>>
    BY DEF Running
  <1> QED
    BY <1>1, ErrorIsReply

\* docker run, with the room the handler has counted, launches the container.
LEMMA RunIsLaunch ==
  ASSUME ServiceInv, NEW r \in Reqs, StartRun(r)
  PROVE  ServiceStep
  <1> DEFINE u == ruser[r]
  <1>0. RunnerTypeOK /\ HandlersKnown /\ u \in Users /\ rpc[r] = "run" /\ rkind[r] = "start"
    BY DEF ServiceInv, RunnerInv, RunnerTypeOK, HandlersKnown, StartRun
  <1>1. CASE cont[u] = "none" /\ r \notin gone /\ SetCont(u, "running") /\ Goto(r, "probeNew")
             /\ UNCHANGED late
    <2>1. UNCHANGED Calls
      BY <1>0, <1>1, StaysPending DEF StartRun
    <2>2. u \notin Running /\ Running' = Running \cup {u} /\ strays' = strays
      BY <1>0, <1>1, SetContRunning DEF Running
    <2>3. late' = late \ {u}
      BY <1>1 DEF ServiceInv, LateExists
    <2>4. "inspect" \in Faults \/ Service!Cardinality(Running \ strays) < Max
      BY <1>0, SameCount DEF ServiceInv, RoomCounted, Served
    <2>5. Calls[r].at = "pending" /\ Calls[r].kind = "start" /\ Calls[r].user = u
      BY <1>0, <1>1 DEF Calls
    <2>6. Service!Launch(r)
      BY <2>1, <2>2, <2>3, <2>4, <2>5 DEF Service!Launch, Service!Is, Calls
    <2> QED
      BY <2>6 DEF ServiceStep, Service!ServiceNext
  <1>2. CASE Answer(r, "ERROR") /\ UNCHANGED <<cont, late, answered, strays>>
    BY <1>0, <1>2, GivesUp DEF StartRun
  <1>3. CASE /\ cont[u] = "none" /\ r \notin gone
             /\ SetCont(u, "exited") /\ Answer(r, "ERROR")
             /\ late' = late \/ ("kill" \in Faults /\ late' = late \cup {u})
    <2>1. UNCHANGED <<Running, strays>>
      BY <1>0, <1>3, SetContRunning DEF Running, RunnerTypeOK
    <2> QED
      BY <1>0, <1>3, <2>1, ErrorIsReply DEF StartRun
  <1> QED
    BY <1>1, <1>2, <1>3 DEF StartRun

\* A healthy container is running when the start is answered.
LEMMA HealthyIsReply ==
  ASSUME ServiceInv, NEW r \in Reqs, Healthy(r), rpc[r] \notin {"free", "replied"},
         rkind[r] = "start", UNCHANGED <<rkind, ruser, gone, cont, late, strays>>
  PROVE  ServiceStep
  <1>0. RunnerTypeOK /\ HandlersKnown
    BY DEF ServiceInv, RunnerInv
  <1>1. /\ Calls[r].at = "pending" /\ Calls[r].user = ruser[r] /\ Calls[r].kind = "start"
        /\ Calls' = [Calls EXCEPT ![r].at = "replied", ![r].reply = "RUNNING"]
    <2>1. Shown("RUNNING") = "RUNNING"
      BY DEF Shown
    <2>2. /\ Calls[r] = [at |-> "pending", kind |-> rkind[r], user |-> ruser[r], reply |-> "none"]
          /\ Calls' = [Calls EXCEPT ![r].at = "replied", ![r].reply = Shown("RUNNING")]
      BY <1>0, AnswerSeen DEF Healthy
    <2>3. Calls[r].at = "pending" /\ Calls[r].user = ruser[r] /\ Calls[r].kind = "start"
      BY <2>2
    <2>4. Calls' = [Calls EXCEPT ![r].at = "replied", ![r].reply = "RUNNING"]
      BY <2>1, <2>2, Zenon
    <2> QED
      BY <2>3, <2>4
  <1>2. ruser[r] \in Running /\ UNCHANGED <<Running, late, strays>>
    BY DEF Healthy, Running
  <1>3. Service!Reply(r, "RUNNING")
    BY <1>1, <1>2 DEF Service!Reply, Service!Is, Calls
  <1> QED
    BY <1>3 DEF ServiceStep, Service!ServiceNext

\* A stop that is answered STOPPED has no running container, unless docker
\* inspect has failed.
LEMMA StoppedIsReply ==
  ASSUME ServiceInv, NEW r \in Reqs, Answer(r, "STOPPED"), rpc[r] \notin {"free", "replied"},
         rkind[r] = "stop", r \notin gone, UNCHANGED <<rkind, ruser, gone, Running, strays>>,
         ruser[r] \notin Running \/ "inspect" \in Faults,
         late' \in {late, late \ {ruser[r]}}
  PROVE  ServiceStep
  <1>0. RunnerTypeOK /\ HandlersKnown
    BY DEF ServiceInv, RunnerInv
  <1>1. /\ Calls[r].at = "pending" /\ Calls[r].user = ruser[r] /\ Calls[r].kind = "stop"
        /\ Calls' = [Calls EXCEPT ![r].at = "replied", ![r].reply = "STOPPED"]
    <2>1. Shown("STOPPED") = "STOPPED"
      BY DEF Shown
    <2>2. /\ Calls[r] = [at |-> "pending", kind |-> rkind[r], user |-> ruser[r], reply |-> "none"]
          /\ Calls' = [Calls EXCEPT ![r].at = "replied", ![r].reply = Shown("STOPPED")]
      BY <1>0, AnswerSeen
    <2>3. Calls[r].at = "pending" /\ Calls[r].user = ruser[r] /\ Calls[r].kind = "stop"
      BY <2>2
    <2>4. Calls' = [Calls EXCEPT ![r].at = "replied", ![r].reply = "STOPPED"]
      BY <2>1, <2>2, Zenon
    <2> QED
      BY <2>3, <2>4
  <1>2. Service!Reply(r, "STOPPED")
    BY <1>1 DEF Service!Reply, Service!Is, Calls
  <1> QED
    BY <1>2 DEF ServiceStep, Service!ServiceNext

\* docker rm only takes away what does not run.
LEMMA RemovedKeepsRunning ==
  ASSUME RunnerTypeOK, NEW r \in Reqs, NEW s \in {"none", "exited", "running"}, Removed(r, s)
  PROVE  UNCHANGED <<Running, strays>> /\ late' \in {late, late \ {ruser[r]}}
  <1>1. ruser[r] \in Users /\ SetCont(ruser[r], s)
    BY DEF RunnerTypeOK, Removed
  <1>2. s = "running" <=> ruser[r] \in Running
    BY <1>1 DEF Removed, Running
  <1>3. UNCHANGED <<Running, strays>>
    <2>1. Running \cup {ruser[r]} = Running \/ s # "running"
      BY <1>2
    <2>2. (Running \ {ruser[r]} = Running /\ strays \ {ruser[r]} = strays) \/ s = "running"
      BY <1>2 DEF RunnerTypeOK
    <2> QED
      BY <1>1, <2>1, <2>2, SetContRunning
  <1> QED
    BY <1>3 DEF Removed

\* Every docker command of start keeps the promise.
LEMMA StartKeeps ==
  ASSUME ServiceInv, NEW r \in Reqs,
         \/ StartInspect(r) \/ StartCount(r) \/ StartRemove(r) \/ StartRun(r)
         \/ StartProbeOld(r) \/ StartProbeNew(r) \/ StartCleanup(r)
  PROVE  ServiceStep
  <1>0. RunnerTypeOK /\ HandlersKnown /\ ruser[r] \in Users
    BY DEF ServiceInv, RunnerInv, RunnerTypeOK
  <1>1. CASE StartInspect(r)
    BY <1>1, MovesOn DEF StartInspect
  <1>2. CASE StartCount(r)
    BY <1>2, MovesOn, GivesUp DEF StartCount
  <1>3. CASE StartRemove(r)
    <2>1. rpc[r] = "remove" /\ UNCHANGED <<rkind, ruser, gone>>
      BY <1>3 DEF StartRemove
    <2>2. CASE Goto(r, "run") /\ UNCHANGED <<cont, late, strays>>
      BY <2>1, <2>2, MovesOn
    <2>3. CASE Goto(r, "run") /\ Removed(r, "none")
      <3>1. UNCHANGED <<Running, strays, Calls>> /\ late' \in {late, late \ {ruser[r]}}
        BY <1>0, <2>1, <2>3, StaysPending, RemovedKeepsRunning
      <3> QED
        BY <1>0, <3>1, RemovedIsForget DEF ServiceStep
    <2>4. ASSUME NEW s \in {"none", "exited", "running"}, Removed(r, s), Answer(r, "ERROR")
          PROVE  ServiceStep
      <3>1. UNCHANGED <<Running, strays>> /\ late' \in {late, late \ {ruser[r]}}
        BY <1>0, <2>4, RemovedKeepsRunning
      <3> QED
        BY <2>1, <2>4, <3>1, ErrorIsReply
    <2> QED
      BY <1>3, <2>2, <2>3, <2>4 DEF StartRemove
  <1>4. CASE StartRun(r)
    BY <1>4, RunIsLaunch
  <1>5. CASE StartProbeOld(r) \/ StartProbeNew(r)
    <2>1. /\ rpc[r] \in {"probeOld", "probeNew"} /\ rkind[r] = "start"
          /\ UNCHANGED <<rkind, ruser, gone, cont, late, strays>>
      BY <1>0, <1>5 DEF StartProbeOld, StartProbeNew, HandlersKnown
    <2>2. Healthy(r) \/ Answer(r, "ERROR") \/ Goto(r, "cleanup")
      BY <1>5 DEF StartProbeOld, StartProbeNew
    <2> QED
      BY <2>1, <2>2, HealthyIsReply, GivesUp, MovesOn
  <1>6. CASE StartCleanup(r)
    <2>1. \/ Running' = Running \ {ruser[r]} /\ strays' = strays \ {ruser[r]}
          \/ UNCHANGED <<Running, strays>>
      BY <1>0, <1>6, SetContRunning DEF StartCleanup, Running
    <2> QED
      BY <1>6, <2>1, ErrorIsReply DEF StartCleanup
  <1> QED
    BY <1>1, <1>2, <1>3, <1>4, <1>5, <1>6

\* Every docker command of stop keeps the promise.
LEMMA StopKeeps ==
  ASSUME ServiceInv, NEW r \in Reqs,
         StopInspect(r) \/ StopHalt(r) \/ StopReinspect(r) \/ StopRemove(r)
  PROVE  ServiceStep
  <1>0. RunnerTypeOK /\ HandlersKnown /\ ruser[r] \in Users
    BY DEF ServiceInv, RunnerInv, RunnerTypeOK
  <1>1. CASE StopInspect(r)
    <2>1. CASE Answer(r, "STOPPED") /\ r \notin gone /\ InspectFails(r, ruser[r])
      <3>1. UNCHANGED <<Running, strays>> /\ (ruser[r] \notin Running \/ "inspect" \in Faults)
        BY <1>1, <2>1 DEF StopInspect, InspectFails, Running
      <3> QED
        BY <1>1, <2>1, <3>1, StoppedIsReply DEF StopInspect
    <2>2. CASE Answer(r, "ERROR")
      BY <1>1, <2>2, GivesUp DEF StopInspect
    <2>3. CASE Goto(r, "halt") \/ Goto(r, "reinspect")
      BY <1>1, <2>3, MovesOn DEF StopInspect
    <2> QED
      BY <1>1, <2>1, <2>2, <2>3 DEF StopInspect
  <1>2. CASE StopHalt(r)
    <2>1. rpc[r] = "halt" /\ UNCHANGED <<rkind, ruser, gone, late>>
      BY <1>2 DEF StopHalt
    <2>2. CASE SetCont(ruser[r], "exited") /\ Goto(r, "reinspect")
      <3>1. UNCHANGED Calls
        BY <1>0, <2>1, <2>2, StaysPending
      <3>2. Running' = Running \ {ruser[r]} /\ strays' = strays \ {ruser[r]}
        BY <1>0, <2>2, SetContRunning
      <3> QED
        BY <1>0, <2>1, <3>1, <3>2, QuitsIsStop
    <2>3. CASE Answer(r, "ERROR") /\ UNCHANGED <<cont, strays>>
      BY <2>1, <2>3, GivesUp
    <2>4. CASE Answer(r, "ERROR") /\ SetCont(ruser[r], "exited")
      <3>1. Running' = Running \ {ruser[r]} /\ strays' = strays \ {ruser[r]}
        BY <1>0, <2>4, SetContRunning
      <3> QED
        BY <2>1, <2>4, <3>1, ErrorIsReply
    <2> QED
      BY <1>2, <2>2, <2>3, <2>4 DEF StopHalt
  <1>3. CASE StopReinspect(r)
    BY <1>3, MovesOn, GivesUp DEF StopReinspect
  <1>4. CASE StopRemove(r)
    <2>1. rpc[r] = "rm" /\ rkind[r] = "stop" /\ UNCHANGED <<rkind, ruser, gone>>
      BY <1>0, <1>4 DEF StopRemove, HandlersKnown
    <2>2. CASE /\ r \notin gone /\ cont[ruser[r]] = "exited"
               /\ Removed(r, "none") /\ Answer(r, "STOPPED")
      <3>1. UNCHANGED <<Running, strays>> /\ late' \in {late, late \ {ruser[r]}}
        BY <1>0, <2>2, RemovedKeepsRunning
      <3>2. ruser[r] \notin Running
        BY <2>2 DEF Running
      <3> QED
        BY <2>1, <2>2, <3>1, <3>2, StoppedIsReply
    <2>3. ASSUME NEW s \in {"none", "exited", "running"}, Removed(r, s), Answer(r, "ERROR")
          PROVE  ServiceStep
      <3>1. UNCHANGED <<Running, strays>> /\ late' \in {late, late \ {ruser[r]}}
        BY <1>0, <2>3, RemovedKeepsRunning
      <3> QED
        BY <2>1, <2>3, <3>1, ErrorIsReply
    <2> QED
      BY <1>4, <2>2, <2>3 DEF StopRemove
  <1> QED
    BY <1>1, <1>2, <1>3, <1>4

\* What happens to containers by itself is part of the promise.
LEMMA ContainerKeeps ==
  ASSUME ServiceInv, NEW u \in Users, ContainerExits(u) \/ LateStart(u)
  PROVE  ServiceStep
  <1>0. RunnerTypeOK
    BY DEF ServiceInv, RunnerInv
  <1>1. UNCHANGED Calls
    BY DEF ContainerExits, LateStart, reqVars, Calls
  <1>2. CASE ContainerExits(u)
    BY <1>0, <1>1, <1>2, SetContRunning, QuitsIsStop DEF ContainerExits
  <1>3. CASE LateStart(u) /\ UNCHANGED <<cont, strays>>
    <2>1. UNCHANGED Running /\ late' = late \ {u}
      BY <1>3 DEF Running, LateStart
    <2> QED
      BY <1>1, <1>3, <2>1, RemovedIsForget
  <1>4. CASE /\ LateStart(u) /\ cont[u] = "exited"
             /\ cont' = [cont EXCEPT ![u] = "running"] /\ strays' = strays \cup {u}
    <2>1. u \in late \ Running /\ late' = late \ {u} /\ Running' = Running \cup {u}
      BY <1>0, <1>4 DEF LateStart, Running, RunnerTypeOK
    <2>2. Service!ComeToLife(u)
      BY <1>1, <1>4, <2>1 DEF Service!ComeToLife, Calls
    <2> QED
      BY <2>2 DEF ServiceStep, Service!ServiceNext
  <1> QED
    BY <1>2, <1>3, <1>4 DEF LateStart

\* Every step of the runner maps to a step of ContainerService or to none.
LEMMA RunnerStepKeeps ==
  ASSUME ServiceInv, [RunnerNext]_runnerVars
  PROVE  ServiceStep
  <1>1. CASE UNCHANGED runnerVars
    BY <1>1 DEF runnerVars, reqVars, ServiceStep, Running, Calls
  <1>2. ASSUME NEW r \in Reqs, Lock(r)
        PROVE  ServiceStep
    BY <1>2, MovesOn DEF Lock
  <1> QED
    BY <1>1, <1>2, ClientStep, StartKeeps, StopKeeps, ContainerKeeps
       DEF RunnerNext, RunnerStep, Handle

\* The runner implements ContainerService: a start answered RUNNING has its
\* container running, a stop answered STOPPED has none, a container is launched
\* only for a pending start and where there is room, whatever hangs up, exits,
\* fails or comes to life late (runner.go, start and stop).
THEOREM RunnerImplements == RunnerSpec => ImplementsContainerService
  <1>1. RunnerInit => ServiceInv /\ Service!ServiceInit
    <2>1. RunnerInit => RunnerInv /\ LateExists /\ HandlersKnown /\ RoomCounted
      BY DEF RunnerInit, RunnerInv, RunnerTypeOK, Positions, Running, OneHolder, Holding,
         LaunchedUnanswered, LateExists, HandlersKnown, RoomCounted
    <2>2. RunnerInit => CapacityKept
      <3>1. RunnerInit => Running \ strays = {}
        BY DEF RunnerInit, Running
      <3> QED
        BY <3>1, FS_EmptySet, MaxAssumption DEF CapacityKept
    <2>3. RunnerInit => Service!ServiceInit
      BY DEF RunnerInit, Service!ServiceInit, Service!Free, Running
    <2> QED
      BY <2>1, <2>2, <2>3 DEF ServiceInv
  <1>2. ServiceInv /\ [RunnerNext]_runnerVars => ServiceInv'
    <2>1. ASSUME ServiceInv, [RunnerNext]_runnerVars, "inspect" \notin Faults
          PROVE  RoomCounted' /\ CapacityKept'
      BY <2>1, CapacityStep DEF ServiceInv, CapacityInv
    <2>2. ASSUME ServiceInv, [RunnerNext]_runnerVars
          PROVE  RunnerInv' /\ LateExists' /\ HandlersKnown'
      BY <2>2, RunnerTypeStep, OneHolderStep, LaunchedStep, LateStep, HandlersStep
         DEF ServiceInv, RunnerInv
    <2> QED
      BY <2>1, <2>2 DEF ServiceInv
  <1>3. ServiceInv /\ [RunnerNext]_runnerVars =>
          [Service!ServiceNext]_<<Running, late, strays, Calls>>
    BY RunnerStepKeeps DEF ServiceStep
  <1>4. [Service!ServiceNext]_<<Running, late, strays, Calls>> =>
          [Service!ServiceNext]_(Service!serviceVars)
    BY DEF Service!serviceVars, Calls
  <1> QED
    BY <1>1, <1>2, <1>3, <1>4, PTL DEF RunnerSpec, ImplementsContainerService, Service!ServiceSpec
=============================================================================
