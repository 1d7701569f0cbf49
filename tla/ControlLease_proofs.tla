------------------------- MODULE ControlLease_proofs -------------------------
(***************************************************************************)
(* Type correctness and exclusive control of ControlLease, for any number  *)
(* of logins, takeovers, streams and requests, with and without database   *)
(* faults; and, without them, the release of control by a session that has *)
(* stopped.                                                                *)
(***************************************************************************)
EXTENDS ControlLease, TLAPS

\* No handler, worker step, tracker step or restart puts a row, a registry
\* entry or a handler's position outside its type.
LEMMA TypeStep == TypeOK /\ [Next]_vars => TypeOK'
<1> SUFFICES ASSUME TypeOK, [Next]_vars PROVE TypeOK'
  OBVIOUS
<1> USE DEF TypeOK, Slots, TakeoverSteps, SessionStates, Registered,
            vars, dbVars, takeoverVars, connVars, workerVars
<1>1. ASSUME NEW a \in Auths, Login(a) PROVE TypeOK'
  BY <1>1 DEF Login
<1>2. ASSUME NEW a \in Auths, LoginExpires(a) PROVE TypeOK'
  BY <1>2 DEF LoginExpires
<1>3. ASSUME NEW a \in Auths, Logout(a) PROVE TypeOK'
  BY <1>3 DEF Logout
<1>4. ASSUME NEW a \in Auths, ChangePassword(a) PROVE TypeOK'
  BY <1>4 DEF ChangePassword
<1>5. ASSUME NEW r \in revocations, RevokeLogins(r) PROVE TypeOK'
  BY <1>5 DEF RevokeLogins, Revoke
<1>6. ASSUME DisableUser PROVE TypeOK'
  BY <1>6 DEF DisableUser
<1>7. ASSUME DisableDeletesLogins PROVE TypeOK'
  BY <1>7 DEF DisableDeletesLogins
<1>8. ASSUME DisableRevokes PROVE TypeOK'
  BY <1>8 DEF DisableRevokes, Revoke
<1>9. ASSUME EnableUser PROVE TypeOK'
  BY <1>9 DEF EnableUser
<1>10. ASSUME NEW t \in Takeovers, NEW a \in Auths, TakeoverBegin(t, a) PROVE TypeOK'
  BY <1>10 DEF TakeoverBegin
<1>11. ASSUME NEW t \in Takeovers, TakeoverLock(t) PROVE TypeOK'
  BY <1>11 DEF TakeoverLock
<1>12. ASSUME NEW t \in Takeovers, TakeoverRollback(t) PROVE TypeOK'
  BY <1>12 DEF TakeoverRollback
<1>13. ASSUME NEW t \in Takeovers, TakeoverCommit(t) PROVE TypeOK'
  BY <1>13 DEF TakeoverCommit, Commit
<1>14. ASSUME NEW t \in Takeovers, TakeoverCommitUnacknowledged(t) PROVE TypeOK'
  BY <1>14 DEF TakeoverCommitUnacknowledged, Commit
<1>15. ASSUME NEW t \in Takeovers, TakeoverRevoke(t) PROVE TypeOK'
  BY <1>15 DEF TakeoverRevoke, Revoke
<1>16. ASSUME NEW c \in Conns, NEW a \in Auths, NEW t \in Takeovers, StreamRequest(c, a, t)
       PROVE  TypeOK'
  BY <1>16 DEF StreamRequest
<1>17. ASSUME NEW c \in Conns, StreamCheck(c) PROVE TypeOK'
  BY <1>17 DEF StreamCheck, FreeSlot
<1>18. ASSUME NEW c \in Conns, StreamRegister(c) PROVE TypeOK'
  BY <1>18 DEF StreamRegister
<1>19. ASSUME NEW c \in Conns, StreamRecheck(c) PROVE TypeOK'
  BY <1>19 DEF StreamRecheck
<1>20. ASSUME NEW c \in Conns, StreamEnd(c) PROVE TypeOK'
  BY <1>20 DEF StreamEnd, FreeSlot
<1>21. ASSUME NEW c \in Conns, TrackCheck(c) PROVE TypeOK'
  BY <1>21 DEF TrackCheck
<1>22. ASSUME NEW i \in Inputs, NEW a \in Auths, NEW t \in Takeovers, InputCheck(i, a, t)
       PROVE  TypeOK'
  BY <1>22 DEF InputCheck
<1>23. ASSUME NEW i \in Inputs, InputDeliver(i) PROVE TypeOK'
  BY <1>23 DEF InputDeliver
<1>24. ASSUME NEW outcome \in {"STOPPED", "FAILED"}, StopJob(outcome) PROVE TypeOK'
  BY <1>24 DEF StopJob, Revoke
<1>25. ASSUME NEW outcome \in {"RUNNING", "FAILED"}, StartJob(outcome) PROVE TypeOK'
  <2>1. plan' \in Seq(SessionStates)
    <3>1. CASE sess = "RUNNING"
      BY <1>25, <3>1 DEF StartJob
    <3>2. CASE sess # "RUNNING"
      BY <1>25, <3>2 DEF StartJob
    <3> QED
      BY <3>1, <3>2
  <2>2. cancelled' \subseteq Registered'
    BY <1>25 DEF StartJob, connVars
  <2>3. UNCHANGED <<login, disabled, sess, lease, tpc, tAuth, order, commits, cpc,
                    cAuth, cTok, input, revocations, admin, wpc, working, track>>
    BY <1>25 DEF StartJob, dbVars, takeoverVars, connVars
  <2> QED
    BY <2>1, <2>2, <2>3
<1>26. ASSUME ReconcileUnwanted PROVE TypeOK'
  BY <1>26 DEF ReconcileUnwanted, Revoke
<1>27. ASSUME ReconcileMissing PROVE TypeOK'
  BY <1>27 DEF ReconcileMissing, Revoke
<1>28. ASSUME SetStateRevoke PROVE TypeOK'
  BY <1>28 DEF SetStateRevoke, Revoke
<1>29. ASSUME SetStateDelete PROVE TypeOK'
  BY <1>29 DEF SetStateDelete
<1>30. ASSUME SetStateUpdate PROVE TypeOK'
  BY <1>30 DEF SetStateUpdate
<1>31. ASSUME TrackSnapshot PROVE TypeOK'
  BY <1>31 DEF TrackSnapshot
<1>32. ASSUME ApiRestart PROVE TypeOK'
  BY <1>32 DEF ApiRestart
<1>33. CASE UNCHANGED vars
  BY <1>33 DEF vars, dbVars, takeoverVars, connVars, workerVars
<1> QED
  BY <1>1, <1>2, <1>3, <1>4, <1>5, <1>6, <1>7, <1>8, <1>9, <1>10, <1>11,
     <1>12, <1>13, <1>14, <1>15, <1>16, <1>17, <1>18, <1>19, <1>20, <1>21,
     <1>22, <1>23, <1>24, <1>25, <1>26, <1>27, <1>28, <1>29, <1>30, <1>31,
     <1>32, <1>33 DEF Next

\* Every reachable state of every instance is well typed.
THEOREM TypeCorrect == Spec => []TypeOK
<1>1. Init => TypeOK
  <2> SUFFICES ASSUME Init PROVE TypeOK
    OBVIOUS
  <2>1. plan \in Seq(SessionStates)
    BY DEF Init
  <2>2. cancelled \subseteq Registered /\ track \subseteq Registered
    BY DEF Init
  <2>3. lease \in Takeovers \cup {NoLease}
    BY DEF Init
  <2>4. revocations \subseteq [kind : {"logout", "password"}, auth : Auths]
    BY DEF Init
  <2> QED
    BY <2>1, <2>2, <2>3, <2>4 DEF Init, TypeOK, Slots, TakeoverSteps, SessionStates
<1> QED
  BY <1>1, TypeStep, PTL DEF Spec

-------------------------------------------------------------------------------
(***************************************************************************)
(* The inductive invariant.  ControlIsExclusive is not inductive: that two *)
(* streams are live with one token follows from when their takeovers       *)
(* committed, so the invariant is about the order of the commits.          *)
(***************************************************************************)

\* A takeover has a place in the order exactly from its commit on.
CommitOrder ==
  /\ \A t \in Takeovers : order[t] <= commits
  /\ \A t, u \in Takeovers : order[t] > 0 /\ order[t] = order[u] => t = u
  /\ \A t \in Takeovers :
       /\ tpc[t] \in {"idle", "begun", "locked", "refused"} => order[t] = 0
       /\ tpc[t] \in {"committed", "done"} => order[t] > 0

\* The lease row is that of the newest commit: rows are replaced or deleted.
LeaseIsNewest ==
  lease # NoLease => \A t \in Takeovers : order[t] <= order[lease]

\* A stream request carries a token that a takeover has handed out.
SlotsHoldKnownTokens == \A c \in Conns : cpc[c] # "idle" => cTok[c] \in Known

\* No takeover that has answered is newer than the token of a live stream.
LiveIsNewest ==
  \A c \in Conns, t \in Known : Live(c) => order[t] <= order[cTok[c]]

ControlInv == CommitOrder /\ LeaseIsNewest /\ SlotsHoldKnownTokens /\ LiveIsNewest

-------------------------------------------------------------------------------
\* A step that commits nothing, answers nobody, lets no stream in and at most
\* cancels streams: most handlers, the worker and the tracker.
QuietStep ==
  /\ UNCHANGED <<tpc, order, commits, lease, cpc, cTok>>
  /\ cancelled \subseteq cancelled'

LEMMA QuietKeeps == ControlInv /\ QuietStep => ControlInv'
<1> SUFFICES ASSUME ControlInv, QuietStep PROVE ControlInv'
  OBVIOUS
<1>1. CommitOrder' /\ LeaseIsNewest' /\ SlotsHoldKnownTokens'
  BY DEF ControlInv, QuietStep, CommitOrder, LeaseIsNewest, SlotsHoldKnownTokens, Known
<1>2. LiveIsNewest'
  BY DEF ControlInv, QuietStep, LiveIsNewest, Live, Known
<1> QED
  BY <1>1, <1>2 DEF ControlInv

\* The commit gives the new lease the last place in the order.  Its client has
\* no token yet, so no request and no stream is concerned.
LEMMA CommitKeeps ==
  ASSUME TypeOK, ControlInv, NEW t \in Takeovers, NEW pc \in {"committed", "lost"},
         Commit(t, pc)
  PROVE  ControlInv'
<1> USE DEF TypeOK, connVars
<1>1. /\ order' = [order EXCEPT ![t] = commits + 1]
      /\ commits' = commits + 1
      /\ tpc' = [tpc EXCEPT ![t] = pc]
      /\ lease' = t
      /\ tpc[t] = "locked"
      /\ UNCHANGED <<cpc, cTok, cancelled>>
  BY DEF Commit
<1>2. CommitOrder'
  BY <1>1 DEF ControlInv, CommitOrder
<1>3. LeaseIsNewest'
  BY <1>1, <1>2 DEF CommitOrder, ControlInv, LeaseIsNewest
<1>4. Known' = Known /\ t \notin Known
  BY <1>1 DEF Known
<1>5. SlotsHoldKnownTokens'
  BY <1>1, <1>4 DEF ControlInv, SlotsHoldKnownTokens
<1>6. LiveIsNewest'
  BY <1>1, <1>4 DEF ControlInv, LiveIsNewest, SlotsHoldKnownTokens, Live, Known
<1> QED
  BY <1>2, <1>3, <1>5, <1>6 DEF ControlInv

\* The revocation leaves no live stream, so the newly known token meets none.
LEMMA RevokeKeeps ==
  ASSUME TypeOK, ControlInv, NEW t \in Takeovers, TakeoverRevoke(t)
  PROVE  ControlInv'
<1> USE DEF TypeOK, connVars, dbVars
<1>1. /\ tpc[t] = "committed"
      /\ tpc' = [tpc EXCEPT ![t] = "done"]
      /\ cancelled' = cancelled \cup Registered
      /\ UNCHANGED <<order, commits, lease, cpc, cTok>>
  BY DEF TakeoverRevoke, Revoke, Registered
<1>2. Known' = Known \cup {t}
  BY <1>1 DEF Known
<1>3. \A c \in Conns : ~Live(c)'
  BY <1>1 DEF Live, Registered
<1>4. CommitOrder' /\ LeaseIsNewest'
  BY <1>1 DEF ControlInv, CommitOrder, LeaseIsNewest
<1> QED
  BY <1>1, <1>2, <1>3, <1>4 DEF ControlInv, SlotsHoldKnownTokens, LiveIsNewest

\* A stream passes its recheck only with the token of the lease row.
LEMMA RecheckKeeps ==
  ASSUME TypeOK, ControlInv, NEW c \in Conns, StreamRecheck(c)
  PROVE  ControlInv'
<1> USE DEF TypeOK, dbVars, takeoverVars
<1>1. /\ cpc[c] = "registered"
      /\ lease = cTok[c]
      /\ cpc' = [cpc EXCEPT ![c] = "served"]
      /\ UNCHANGED <<tpc, order, commits, lease, cTok, cancelled>>
  BY DEF StreamRecheck, LeaseOK
<1>2. cTok[c] \in Known
  BY <1>1 DEF ControlInv, SlotsHoldKnownTokens
<1>3. \A t \in Takeovers : order[t] <= order[cTok[c]]
  BY <1>1, <1>2, NoLeaseAssumption DEF ControlInv, LeaseIsNewest, Known
<1>4. CommitOrder' /\ LeaseIsNewest' /\ SlotsHoldKnownTokens'
  BY <1>1 DEF ControlInv, CommitOrder, LeaseIsNewest, SlotsHoldKnownTokens, Known
<1>5. LiveIsNewest'
  BY <1>1, <1>3 DEF ControlInv, LiveIsNewest, Live, Known
<1> QED
  BY <1>4, <1>5 DEF ControlInv

\* The other steps of a stream request let nothing in.
LEMMA SlotKeeps ==
  ASSUME TypeOK, ControlInv, NEW c \in Conns,
         \/ \E a \in Auths, t \in Takeovers : StreamRequest(c, a, t)
         \/ StreamCheck(c)
         \/ StreamRegister(c)
         \/ StreamEnd(c)
  PROVE  ControlInv'
<1> USE DEF TypeOK, dbVars, takeoverVars
<1>1. UNCHANGED <<tpc, order, commits, lease>>
  BY DEF StreamRequest, StreamCheck, StreamRegister, StreamEnd
<1>2. \E pc \in Slots \ {"served"}, k \in Takeovers \cup {NoLease} :
        /\ cpc' = [cpc EXCEPT ![c] = pc]
        /\ cTok' = [cTok EXCEPT ![c] = k]
        /\ pc # "idle" => k \in Known
  <2>1. CASE \E a \in Auths, t \in Takeovers : StreamRequest(c, a, t)
    BY <2>1 DEF StreamRequest, Slots
  <2>2. CASE FreeSlot(c)
    BY <2>2 DEF FreeSlot, Slots
  <2>3. CASE cpc[c] # "idle" /\ UNCHANGED cTok
               /\ \E pc \in {"checked", "registered"} : cpc' = [cpc EXCEPT ![c] = pc]
    <3>1. cTok' = [cTok EXCEPT ![c] = cTok[c]] /\ cTok[c] \in Known
      BY <2>3 DEF ControlInv, SlotsHoldKnownTokens
    <3> QED
      BY <2>3, <3>1 DEF Slots, Known
  <2> QED
    BY <2>1, <2>2, <2>3 DEF StreamCheck, StreamRegister, StreamEnd
<1>3. \A d \in Conns \ {c} : d \in cancelled => d \in cancelled'
  BY DEF StreamRequest, StreamCheck, StreamRegister, StreamEnd
<1>4. CommitOrder' /\ LeaseIsNewest' /\ SlotsHoldKnownTokens'
  BY <1>1, <1>2 DEF ControlInv, CommitOrder, LeaseIsNewest, SlotsHoldKnownTokens, Known
<1>5. LiveIsNewest'
  BY <1>1, <1>2, <1>3 DEF ControlInv, LiveIsNewest, Live, Known
<1> QED
  BY <1>4, <1>5 DEF ControlInv

-------------------------------------------------------------------------------
\* The quiet actions are quiet.
LEMMA QuietActions ==
  ASSUME TypeOK,
         \/ \E a \in Auths : \/ Login(a) \/ LoginExpires(a)
                             \/ Logout(a) \/ ChangePassword(a)
         \/ \E r \in revocations : RevokeLogins(r)
         \/ DisableUser \/ DisableDeletesLogins \/ DisableRevokes \/ EnableUser
         \/ \E c \in Conns : TrackCheck(c)
         \/ \E i \in Inputs : \/ \E a \in Auths, t \in Takeovers : InputCheck(i, a, t)
                              \/ InputDeliver(i)
         \/ \E outcome \in {"STOPPED", "FAILED"} : StopJob(outcome)
         \/ \E outcome \in {"RUNNING", "FAILED"} : StartJob(outcome)
         \/ ReconcileUnwanted \/ ReconcileMissing
         \/ SetStateRevoke \/ SetStateUpdate
         \/ TrackSnapshot
         \/ UNCHANGED vars
  PROVE  QuietStep
<1> USE DEF QuietStep, vars, dbVars, takeoverVars, connVars
<1>1. CASE \E a \in Auths : Login(a) \/ LoginExpires(a) \/ Logout(a) \/ ChangePassword(a)
  BY <1>1 DEF Login, LoginExpires, Logout, ChangePassword
<1>2. CASE \E r \in revocations : RevokeLogins(r)
  BY <1>2 DEF RevokeLogins, Revoke
<1>3. CASE DisableUser \/ DisableDeletesLogins \/ DisableRevokes \/ EnableUser
  BY <1>3 DEF DisableUser, DisableDeletesLogins, DisableRevokes, EnableUser, Revoke
<1>4. CASE \E c \in Conns : TrackCheck(c)
  BY <1>4 DEF TrackCheck
<1>5. CASE \E i \in Inputs : \/ \E a \in Auths, t \in Takeovers : InputCheck(i, a, t)
                            \/ InputDeliver(i)
  BY <1>5 DEF InputCheck, InputDeliver
<1>6. CASE \E outcome \in {"STOPPED", "FAILED"} : StopJob(outcome)
  BY <1>6 DEF StopJob, Revoke
<1>7. CASE \E outcome \in {"RUNNING", "FAILED"} : StartJob(outcome)
  BY <1>7 DEF StartJob
<1>8. CASE ReconcileUnwanted \/ ReconcileMissing
  BY <1>8 DEF ReconcileUnwanted, ReconcileMissing, Revoke
<1>9. CASE SetStateRevoke \/ SetStateUpdate \/ TrackSnapshot \/ UNCHANGED vars
  BY <1>9 DEF SetStateRevoke, SetStateUpdate, TrackSnapshot, Revoke
<1> QED
  BY <1>1, <1>2, <1>3, <1>4, <1>5, <1>6, <1>7, <1>8, <1>9

LEMMA ControlStep == TypeOK /\ ControlInv /\ [Next]_vars => ControlInv'
<1> SUFFICES ASSUME TypeOK, ControlInv, [Next]_vars PROVE ControlInv'
  OBVIOUS
<1>1. CASE QuietStep
  BY <1>1, QuietKeeps
<1>2. ASSUME NEW t \in Takeovers,
             \/ \E a \in Auths : TakeoverBegin(t, a)
             \/ TakeoverLock(t)
             \/ TakeoverRollback(t)
      PROVE  ControlInv'
  <2>1. /\ \E pc \in {"begun", "locked", "refused"} : tpc' = [tpc EXCEPT ![t] = pc]
        /\ tpc[t] \in {"idle", "begun", "locked"}
        /\ UNCHANGED <<order, commits, lease, cpc, cTok, cancelled>>
    BY <1>2 DEF TakeoverBegin, TakeoverLock, TakeoverRollback, dbVars, connVars
  <2>2. Known' = Known
    BY <2>1 DEF Known, TypeOK
  <2>3. CommitOrder'
    BY <2>1 DEF ControlInv, CommitOrder, TypeOK
  <2> QED
    BY <2>1, <2>2, <2>3 DEF ControlInv, LeaseIsNewest, SlotsHoldKnownTokens, LiveIsNewest, Live
<1>3. ASSUME NEW t \in Takeovers, TakeoverCommit(t) \/ TakeoverCommitUnacknowledged(t)
      PROVE  ControlInv'
  BY <1>3, CommitKeeps DEF TakeoverCommit, TakeoverCommitUnacknowledged
<1>4. ASSUME NEW t \in Takeovers, TakeoverRevoke(t) PROVE ControlInv'
  BY <1>4, RevokeKeeps
<1>5. ASSUME NEW c \in Conns, StreamRecheck(c) PROVE ControlInv'
  BY <1>5, RecheckKeeps
<1>6. ASSUME NEW c \in Conns,
             \/ \E a \in Auths, t \in Takeovers : StreamRequest(c, a, t)
             \/ StreamCheck(c)
             \/ StreamRegister(c)
             \/ StreamEnd(c)
      PROVE  ControlInv'
  BY <1>6, SlotKeeps
<1>7. CASE SetStateDelete
  <2>1. /\ lease' \in {lease, NoLease}
        /\ UNCHANGED <<tpc, order, commits, cpc, cTok, cancelled>>
    BY <1>7 DEF SetStateDelete, takeoverVars, connVars
  <2> QED
    BY <2>1 DEF ControlInv, CommitOrder, LeaseIsNewest, SlotsHoldKnownTokens,
                LiveIsNewest, Live, Known
<1>8. CASE ApiRestart
  <2>1. /\ tpc' = [t \in Takeovers |->
                     IF tpc[t] \in {"begun", "locked", "committed"} THEN "lost"
                     ELSE tpc[t]]
        /\ cpc' = [c \in Conns |-> "idle"]
        /\ UNCHANGED <<order, commits, lease>>
    BY <1>8 DEF ApiRestart, dbVars
  <2>2. CommitOrder' /\ LeaseIsNewest'
    BY <2>1 DEF ControlInv, CommitOrder, LeaseIsNewest, TypeOK
  <2>3. SlotsHoldKnownTokens' /\ LiveIsNewest'
    BY <2>1 DEF SlotsHoldKnownTokens, LiveIsNewest, Live
  <2> QED
    BY <2>2, <2>3 DEF ControlInv
<1> QED
  BY <1>1, <1>2, <1>3, <1>4, <1>5, <1>6, <1>7, <1>8, QuietActions DEF Next

LEMMA ControlInit == Init => ControlInv
BY DEF Init, ControlInv, CommitOrder, LeaseIsNewest, SlotsHoldKnownTokens,
       LiveIsNewest, Live, Known

\* The inductive invariant holds in every reachable state.
LEMMA ControlInvariant == Spec => [](TypeOK /\ ControlInv)
<1>1. Spec => []TypeOK
  BY TypeCorrect
<1> QED
  BY <1>1, ControlInit, ControlStep, PTL DEF Spec

-------------------------------------------------------------------------------
\* Two streams past socket's recheck and not cancelled carry one control
\* token: their takeovers have both answered, so neither is the newer.
THEOREM ControlExclusive == Spec => []ControlIsExclusive
<1>1. TypeOK /\ ControlInv => ControlIsExclusive
  <2> SUFFICES ASSUME TypeOK, ControlInv, NEW c \in Conns, NEW d \in Conns,
                      Live(c), Live(d)
               PROVE  cTok[c] = cTok[d]
    BY DEF ControlIsExclusive
  <2>1. cTok[c] \in Known /\ cTok[d] \in Known
    BY DEF ControlInv, SlotsHoldKnownTokens, Live
  <2>2. order[cTok[c]] <= order[cTok[d]] /\ order[cTok[d]] <= order[cTok[c]]
    BY <2>1 DEF ControlInv, LiveIsNewest
  <2>3. order[cTok[c]] = order[cTok[d]] /\ order[cTok[c]] > 0
    BY <2>1, <2>2 DEF ControlInv, CommitOrder, Known, TypeOK
  <2> QED
    BY <2>1, <2>3 DEF ControlInv, CommitOrder, Known
<1> QED
  BY <1>1, ControlInvariant, PTL

\* Once a takeover has answered, nothing older is live or current.
THEOREM OlderControlCut == Spec => []TakeoverCutsOlderControl
<1>1. TypeOK /\ ControlInv => TakeoverCutsOlderControl
  BY DEF ControlInv, LeaseIsNewest, LiveIsNewest, TakeoverCutsOlderControl, Known
<1> QED
  BY <1>1, ControlInvariant, PTL

\* Once a takeover has answered, every plain request with an older token that
\* comes to its lease check is refused.
THEOREM OlderRequestsRefused == Spec => OldControllerRefused
<1> DEFINE Step == \A i \in Inputs : input'[i] \notin {input[i], NoLease}
                     => \A t \in Known : order[t] <= order[input'[i]]
<1>1. TypeOK /\ ControlInv /\ [Next]_vars => [Step]_vars
  <2> SUFFICES ASSUME TypeOK, ControlInv, [Next]_vars, NEW i \in Inputs,
                      input'[i] \notin {input[i], NoLease}, NEW t \in Known
               PROVE  order[t] <= order[input'[i]]
    OBVIOUS
  <2>1. PICK a \in Auths, u \in Takeovers : InputCheck(i, a, u)
    BY DEF Next, vars, connVars, takeoverVars, workerVars, dbVars, TypeOK,
           Login, LoginExpires, Logout, ChangePassword, RevokeLogins, DisableUser,
           DisableDeletesLogins, DisableRevokes, EnableUser, TakeoverBegin,
           TakeoverLock, TakeoverRollback, TakeoverCommit,
           TakeoverCommitUnacknowledged, Commit, TakeoverRevoke, StreamRequest,
           StreamCheck, StreamRegister, StreamRecheck, StreamEnd, TrackCheck,
           InputCheck, InputDeliver, StopJob, StartJob, ReconcileUnwanted,
           ReconcileMissing, SetStateRevoke, SetStateDelete, SetStateUpdate,
           TrackSnapshot, ApiRestart
  <2>2. lease = u /\ input'[i] = u
    BY <2>1 DEF InputCheck, LeaseOK, TypeOK
  <2> QED
    BY <2>2, NoLeaseAssumption DEF ControlInv, LeaseIsNewest, Known
<1> QED
  BY <1>1, ControlInvariant, PTL DEF Spec, OldControllerRefused

-------------------------------------------------------------------------------
(***************************************************************************)
(* A stopped session is released, when setState's statements do not fail.  *)
(* That nothing is live when sessions.state becomes STOPPED follows from   *)
(* what the worker did before: the state it sets last is set when the      *)
(* session has left RUNNING already, so nobody can take control or come    *)
(* past the recheck after setState's revoke and delete.                    *)
(***************************************************************************)

\* The states a job of the worker still has to set.
Jobs ==
  {<<>>, <<"STOPPED">>, <<"RUNNING">>, <<"FAILED">>}
    \cup {<<"STOPPING", s>> : s \in {"STOPPED", "FAILED"}}
    \cup {<<"STARTING", s>> : s \in {"RUNNING", "FAILED"}}

\* setState is at work on STOPPED, or will be next.
Quits == plan # <<>> /\ Head(plan) = "STOPPED"

NothingLive == \A c \in Conns : ~Live(c)

\* The row lock is held in RUNNING only; setState has a state to set, which ends
\* control if it has begun to revoke; STOPPED is set outside RUNNING only, and
\* once it has revoked and deleted, there is nothing for anyone to come back to.
ReleaseInv ==
  /\ RowLocked => sess = "RUNNING"
  /\ plan \in Jobs
  /\ wpc # "next" => plan # <<>> /\ Head(plan) \in Ending
  /\ Quits => sess # "RUNNING"
  /\ Quits /\ wpc # "next" => NothingLive
  /\ Quits /\ wpc = "deleted" => lease = NoLease
  /\ StoppedMeansReleased

\* A step beside the worker that gains something, a lock, the lease or a stream,
\* gains it while the session is RUNNING.
BesideStep ==
  /\ UNCHANGED <<sess, plan, wpc>>
  /\ \/ sess = "RUNNING"
     \/ /\ RowLocked' => RowLocked
        /\ UNCHANGED lease
        /\ \A c \in Conns : Live(c)' => Live(c)

LEMMA BesideKeeps == ReleaseInv /\ BesideStep => ReleaseInv'
<1> SUFFICES ASSUME ReleaseInv, BesideStep PROVE ReleaseInv'
  OBVIOUS
<1>1. UNCHANGED <<sess, plan, wpc, Quits>>
  BY DEF BesideStep, Quits
<1>2. CASE sess = "RUNNING"
  <2>1. sess' = "RUNNING" /\ ~Quits'
    BY <1>1, <1>2 DEF ReleaseInv
  <2>2. StoppedMeansReleased'
    BY <2>1 DEF StoppedMeansReleased
  <2> QED
    BY <1>1, <2>1, <2>2 DEF ReleaseInv
<1>3. CASE sess # "RUNNING"
  <2>1. (RowLocked' => RowLocked) /\ UNCHANGED lease /\ (NothingLive => NothingLive')
    BY <1>3 DEF BesideStep, NothingLive
  <2>2. StoppedMeansReleased'
    BY <1>1, <2>1 DEF ReleaseInv, StoppedMeansReleased, NothingLive
  <2> QED
    BY <1>1, <2>1, <2>2 DEF ReleaseInv
<1> QED
  BY <1>2, <1>3

\* Handlers of logins, plain requests and the tracker gain nothing; a takeover
\* needs the row lock, and a stream its recheck.
LEMMA BesideActions ==
  ASSUME TypeOK, ReleaseInv,
         \/ \E a \in Auths : \/ Login(a) \/ LoginExpires(a)
                             \/ Logout(a) \/ ChangePassword(a)
         \/ \E r \in revocations : RevokeLogins(r)
         \/ DisableUser \/ DisableDeletesLogins \/ DisableRevokes \/ EnableUser
         \/ \E t \in Takeovers : \/ \E a \in Auths : TakeoverBegin(t, a)
                                 \/ TakeoverLock(t) \/ TakeoverRollback(t)
                                 \/ TakeoverCommit(t)
                                 \/ TakeoverCommitUnacknowledged(t)
                                 \/ TakeoverRevoke(t)
         \/ \E c \in Conns : \/ \E a \in Auths, t \in Takeovers : StreamRequest(c, a, t)
                             \/ StreamCheck(c) \/ StreamRegister(c)
                             \/ StreamRecheck(c) \/ StreamEnd(c)
                             \/ TrackCheck(c)
         \/ \E i \in Inputs : \/ \E a \in Auths, t \in Takeovers : InputCheck(i, a, t)
                              \/ InputDeliver(i)
         \/ TrackSnapshot
         \/ UNCHANGED vars
  PROVE  BesideStep
<1> USE DEF vars, dbVars, takeoverVars, connVars, workerVars
<1>1. UNCHANGED <<sess, plan, wpc>>
  BY DEF Login, LoginExpires, Logout, ChangePassword, RevokeLogins, DisableUser,
         DisableDeletesLogins, DisableRevokes, EnableUser, TakeoverBegin,
         TakeoverLock, TakeoverRollback, TakeoverCommit,
         TakeoverCommitUnacknowledged, Commit, TakeoverRevoke, StreamRequest,
         StreamCheck, StreamRegister, StreamRecheck, StreamEnd, TrackCheck,
         InputCheck, InputDeliver, TrackSnapshot
<1>2. ASSUME \A t \in Takeovers : tpc'[t] = "locked" => tpc[t] = "locked",
             UNCHANGED lease,
             \A c \in Conns : Live(c)' => Live(c)
      PROVE  BesideStep
  BY <1>1, <1>2 DEF BesideStep, RowLocked
<1>3. ASSUME UNCHANGED <<tpc, lease, cpc>>, cancelled \subseteq cancelled'
      PROVE  BesideStep
  BY <1>2, <1>3 DEF Live
<1>4. CASE \/ \E a \in Auths : Login(a) \/ LoginExpires(a) \/ Logout(a) \/ ChangePassword(a)
           \/ \E r \in revocations : RevokeLogins(r)
           \/ DisableUser \/ DisableDeletesLogins \/ DisableRevokes \/ EnableUser
           \/ \E c \in Conns : TrackCheck(c)
           \/ \E i \in Inputs : \/ \E a \in Auths, t \in Takeovers : InputCheck(i, a, t)
                                \/ InputDeliver(i)
           \/ TrackSnapshot
           \/ UNCHANGED vars
  <2>1. QuietStep
    BY <1>4, QuietActions
  <2> QED
    BY <2>1, <1>3 DEF QuietStep
<1>5. ASSUME NEW t \in Takeovers, NEW a \in Auths, TakeoverBegin(t, a) PROVE BesideStep
  BY <1>2, <1>5 DEF TakeoverBegin, TypeOK, Live
<1>6. ASSUME NEW t \in Takeovers, TakeoverLock(t) PROVE BesideStep
  <2>1. CASE sess = "RUNNING"
    BY <1>1, <2>1 DEF BesideStep
  <2>2. CASE sess # "RUNNING"
    BY <1>2, <1>6, <2>2 DEF TakeoverLock, TypeOK, Live
  <2> QED
    BY <2>1, <2>2
<1>7. ASSUME NEW t \in Takeovers, TakeoverRollback(t) PROVE BesideStep
  BY <1>2, <1>7 DEF TakeoverRollback, TypeOK, Live
<1>8. ASSUME NEW t \in Takeovers, TakeoverCommit(t) \/ TakeoverCommitUnacknowledged(t)
      PROVE  BesideStep
  <2>1. RowLocked
    BY <1>8 DEF TakeoverCommit, TakeoverCommitUnacknowledged, Commit, RowLocked
  <2> QED
    BY <1>1, <2>1 DEF ReleaseInv, BesideStep
<1>9. ASSUME NEW t \in Takeovers, TakeoverRevoke(t) PROVE BesideStep
  BY <1>2, <1>9 DEF TakeoverRevoke, Revoke, TypeOK, Live
<1>10. ASSUME NEW c \in Conns, NEW a \in Auths, NEW t \in Takeovers, StreamRequest(c, a, t)
       PROVE  BesideStep
  BY <1>2, <1>10 DEF StreamRequest, TypeOK, Live
<1>11. ASSUME NEW c \in Conns, StreamCheck(c) PROVE BesideStep
  BY <1>2, <1>11 DEF StreamCheck, FreeSlot, TypeOK, Live
<1>12. ASSUME NEW c \in Conns, StreamRegister(c) PROVE BesideStep
  BY <1>2, <1>12 DEF StreamRegister, TypeOK, Live
<1>13. ASSUME NEW c \in Conns, StreamRecheck(c) PROVE BesideStep
  BY <1>1, <1>13 DEF StreamRecheck, LeaseOK, BesideStep
<1>14. ASSUME NEW c \in Conns, StreamEnd(c) PROVE BesideStep
  BY <1>2, <1>14 DEF StreamEnd, FreeSlot, TypeOK, Live
<1> QED
  BY <1>4, <1>5, <1>6, <1>7, <1>8, <1>9, <1>10, <1>11, <1>12, <1>13, <1>14

\* The worker sets the first state of its job, and then has the rest of it.
LEMMA JobParts ==
  /\ \A s : Head(<<s>>) = s /\ Tail(<<s>>) = <<>>
  /\ \A s, u : Head(<<s, u>>) = s /\ Tail(<<s, u>>) = <<u>>
OBVIOUS

\* A job that begins with STOPPED has nothing else to set; one that goes on to it
\* sets STOPPING first.
LEMMA JobOrder ==
  ASSUME plan \in Jobs, plan # <<>>
  PROVE  /\ Tail(plan) \in Jobs
         /\ Tail(plan) # <<>> /\ Head(Tail(plan)) = "STOPPED" => Head(plan) = "STOPPING"
         /\ Head(plan) = "STOPPED" => Tail(plan) = <<>>
<1>1. CASE plan \in {<<"STOPPED">>, <<"RUNNING">>, <<"FAILED">>}
  <2>1. Tail(plan) = <<>>
    BY <1>1, JobParts
  <2> QED
    BY <2>1 DEF Jobs
<1>2. ASSUME NEW s \in {"STOPPED", "FAILED"}, plan = <<"STOPPING", s>>
      PROVE  /\ Tail(plan) \in Jobs
             /\ Head(plan) = "STOPPING"
  <2>1. Tail(plan) = <<s>> /\ Head(plan) = "STOPPING"
    BY <1>2, JobParts
  <2> QED
    BY <2>1 DEF Jobs
<1>3. ASSUME NEW s \in {"RUNNING", "FAILED"}, plan = <<"STARTING", s>>
      PROVE  /\ Tail(plan) \in Jobs
             /\ Head(plan) = "STARTING"
             /\ Head(Tail(plan)) # "STOPPED"
  <2>1. Tail(plan) = <<s>> /\ Head(plan) = "STARTING" /\ Head(<<s>>) = s
    BY <1>3, JobParts
  <2> QED
    BY <2>1 DEF Jobs
<1> QED
  BY <1>1, <1>2, <1>3 DEF Jobs

\* A revocation of the user's streams leaves none live.
LEMMA RevokedAll == Revoke(Conns) /\ UNCHANGED connVars => NothingLive'
BY DEF Revoke, Registered, connVars, NothingLive, Live

\* Nothing is gained by a step that starts a job.
LEMMA JobStarts ==
  ASSUME TypeOK, ReleaseInv, plan = <<>>,
         UNCHANGED <<dbVars, takeoverVars, connVars, wpc>>,
         cancelled \subseteq cancelled',
         plan' \in Jobs,
         plan' # <<>> /\ Head(plan') = "STOPPED" => sess # "RUNNING"
  PROVE  ReleaseInv'
<1>1. wpc' = "next" /\ UNCHANGED <<sess, lease, RowLocked>>
  BY DEF ReleaseInv, TypeOK, dbVars, takeoverVars, RowLocked
<1>2. NothingLive => NothingLive'
  BY DEF NothingLive, Live, connVars
<1>3. StoppedMeansReleased'
  BY <1>1, <1>2 DEF ReleaseInv, StoppedMeansReleased, NothingLive
<1>4. Quits' => sess' # "RUNNING"
  BY <1>1 DEF Quits
<1> QED
  BY <1>1, <1>3, <1>4 DEF ReleaseInv

LEMMA ReleaseStep ==
  ASSUME ~DbFaults, TypeOK, ReleaseInv, [Next]_vars
  PROVE  ReleaseInv'
<1>1. CASE BesideStep
  BY <1>1, BesideKeeps
<1>2. ASSUME NEW outcome \in {"STOPPED", "FAILED"}, StopJob(outcome) PROVE ReleaseInv'
  <2>1. /\ plan = <<>> /\ plan' = <<"STOPPING", outcome>>
        /\ UNCHANGED <<dbVars, takeoverVars, connVars, wpc>>
        /\ cancelled \subseteq cancelled'
    BY <1>2 DEF StopJob, Revoke
  <2>2. plan' \in Jobs /\ Head(plan') = "STOPPING"
    BY <2>1, JobParts DEF Jobs
  <2> QED
    BY <2>1, <2>2, JobStarts
<1>3. ASSUME NEW outcome \in {"RUNNING", "FAILED"}, StartJob(outcome) PROVE ReleaseInv'
  <2>1. /\ plan = <<>>
        /\ plan' \in {<<outcome>>, <<"STARTING", outcome>>}
        /\ UNCHANGED <<dbVars, takeoverVars, connVars, wpc, cancelled>>
    BY <1>3 DEF StartJob
  <2>2. plan' \in Jobs /\ Head(plan') # "STOPPED"
    BY <2>1, JobParts DEF Jobs
  <2> QED
    BY <2>1, <2>2, JobStarts
<1>4. CASE ReconcileUnwanted
  <2>1. /\ plan = <<>> /\ plan' = <<"STOPPED">> /\ sess # "RUNNING"
        /\ UNCHANGED <<dbVars, takeoverVars, connVars, wpc>>
        /\ cancelled \subseteq cancelled'
    BY <1>4 DEF ReconcileUnwanted, Revoke, Ending
  <2>2. plan' \in Jobs
    BY <2>1 DEF Jobs
  <2> QED
    BY <2>1, <2>2, JobStarts
<1>5. CASE ReconcileMissing
  <2>1. /\ plan = <<>>
        /\ plan' = <<IF sess = "STOPPING" THEN "STOPPED" ELSE "FAILED">>
        /\ UNCHANGED <<dbVars, takeoverVars, connVars, wpc>>
        /\ cancelled \subseteq cancelled'
    BY <1>5 DEF ReconcileMissing, Revoke
  <2>2. plan' \in Jobs /\ (Head(plan') = "STOPPED" => sess # "RUNNING")
    BY <2>1, JobParts DEF Jobs
  <2> QED
    BY <2>1, <2>2, JobStarts
<1>6. CASE SetStateRevoke
  <2>1. /\ plan # <<>> /\ Head(plan) \in Ending /\ wpc' = "revoked"
        /\ UNCHANGED <<sess, lease, plan, Quits, RowLocked>>
        /\ NothingLive'
    BY <1>6, RevokedAll DEF SetStateRevoke, dbVars, takeoverVars, Quits, RowLocked
  <2>2. StoppedMeansReleased'
    BY <2>1 DEF ReleaseInv, StoppedMeansReleased, NothingLive
  <2> QED
    BY <2>1, <2>2 DEF ReleaseInv
<1>7. CASE SetStateDelete
  <2>1. /\ wpc = "revoked" /\ wpc' = "deleted" /\ lease' = NoLease
        /\ UNCHANGED <<sess, plan, Quits, RowLocked, NothingLive>>
    BY <1>7 DEF SetStateDelete, takeoverVars, connVars, Quits, RowLocked, NothingLive, Live
  <2>2. StoppedMeansReleased'
    BY <2>1 DEF ReleaseInv, StoppedMeansReleased, NothingLive
  <2> QED
    BY <2>1, <2>2 DEF ReleaseInv
<1>8. CASE SetStateUpdate
  <2>1. /\ plan # <<>> /\ ~RowLocked
        /\ wpc = "deleted" \/ Head(plan) \notin Ending
        /\ sess' = Head(plan) /\ plan' = Tail(plan) /\ wpc' = "next"
        /\ UNCHANGED <<lease, RowLocked, NothingLive>>
    BY <1>8 DEF SetStateUpdate, takeoverVars, connVars, RowLocked, NothingLive, Live
  <2>2. /\ plan' \in Jobs
        /\ Quits' => sess' # "RUNNING"
    BY <2>1, JobOrder DEF ReleaseInv, Quits
  <2>3. StoppedMeansReleased'
    <3>1. CASE Head(plan) = "STOPPED"
      <4>1. Quits /\ wpc = "deleted"
        BY <2>1, <3>1 DEF Quits, Ending
      <4>2. lease = NoLease /\ NothingLive
        BY <4>1 DEF ReleaseInv
      <4> QED
        BY <2>1, <4>2 DEF StoppedMeansReleased, NothingLive
    <3>2. CASE Head(plan) # "STOPPED"
      BY <2>1, <3>2 DEF StoppedMeansReleased
    <3> QED
      BY <3>1, <3>2
  <2> QED
    BY <2>1, <2>2, <2>3 DEF ReleaseInv
<1>9. CASE ApiRestart
  <2>1. /\ \A t \in Takeovers : tpc'[t] = "locked" => tpc[t] = "locked"
        /\ \A c \in Conns : cpc'[c] = "idle"
        /\ plan' = <<>> /\ wpc' = "next" /\ UNCHANGED <<sess, lease>>
    BY <1>9 DEF ApiRestart, dbVars, TypeOK
  <2>2. (RowLocked' => RowLocked) /\ NothingLive' /\ ~Quits'
    BY <2>1 DEF RowLocked, NothingLive, Live, Quits
  <2>3. StoppedMeansReleased'
    BY <2>1, <2>2 DEF ReleaseInv, StoppedMeansReleased, NothingLive
  <2>4. plan' \in Jobs
    BY <2>1 DEF Jobs
  <2> QED
    BY <2>1, <2>2, <2>3, <2>4 DEF ReleaseInv
<1> QED
  BY <1>1, <1>2, <1>3, <1>4, <1>5, <1>6, <1>7, <1>8, <1>9, BesideActions DEF Next

\* While the statements of setState succeed, a session that is STOPPED has no live
\* stream and no lease, however takeovers, streams, jobs and restarts interleave.
THEOREM StoppedReleased == ASSUME ~DbFaults PROVE Spec => []StoppedMeansReleased
<1>1. Init => ReleaseInv
  BY DEF Init, ReleaseInv, RowLocked, Jobs, Quits, StoppedMeansReleased, Live
<1>2. TypeOK /\ ReleaseInv /\ [Next]_vars => ReleaseInv'
  BY ReleaseStep
<1>3. ReleaseInv => StoppedMeansReleased
  BY DEF ReleaseInv
<1> QED
  BY <1>1, <1>2, <1>3, TypeCorrect, PTL DEF Spec

-------------------------------------------------------------------------------
(***************************************************************************)
(* ControlLease implements ExclusiveControl: which step is which.          *)
(***************************************************************************)
active == {cTok[c] : c \in {d \in Conns : Live(d)}}
barred == {t \in Committed : \E u \in Known : order[t] < order[u]}

\* Cancelling or ending streams, and passing no recheck, only disconnects.
LEMMA FewerLive ==
  ASSUME TypeOK, ControlInv, UNCHANGED barred,
         \A c \in Conns : Live(c)' => Live(c) /\ cTok'[c] = cTok[c]
  PROVE  Control!ControlNext
<1>1. active' \subseteq active
  BY DEF active
<1>2. active \subseteq Takeovers
  BY DEF active, ControlInv, SlotsHoldKnownTokens, Live, Known
<1>3. PICK S \in SUBSET Takeovers : active' = active \ S
  <2>1. active' = active \ (active \ active')
    BY <1>1
  <2> QED
    BY <1>2, <2>1
<1>4. Control!Disconnect(S)
  BY <1>3 DEF Control!Disconnect, active, barred
<1> QED
  BY <1>4 DEF Control!ControlNext

\* The answer of a takeover displaces every older token and cuts all streams.
LEMMA AnswerDisplaces ==
  ASSUME TypeOK, NEW t \in Takeovers, TakeoverRevoke(t)
  PROVE  Control!ControlNext
<1>1. /\ tpc' = [tpc EXCEPT ![t] = "done"]
      /\ cancelled' = cancelled \cup Registered
      /\ UNCHANGED <<order, cpc, cTok>>
  BY DEF TakeoverRevoke, Revoke, Registered, connVars
<1>2. active' = {}
  BY <1>1 DEF active, Live, Registered, TypeOK
<1>3. PICK S \in SUBSET Takeovers : barred' = barred \cup S
  <2>1. Known \subseteq Known'
    BY <1>1 DEF Known, TypeOK
  <2>2. barred \subseteq barred' /\ barred' \in SUBSET Takeovers
    BY <1>1, <2>1 DEF barred, Committed
  <2>3. barred' = barred \cup barred'
    BY <2>2
  <2> QED
    BY <2>2, <2>3
<1>4. Control!Displace(S)
  BY <1>2, <1>3 DEF Control!Displace, active, barred
<1> QED
  BY <1>4 DEF Control!ControlNext

\* A recheck connects the token of the lease row: no takeover that has answered
\* is newer, and every other live stream carries the same token.
LEMMA RecheckConnects ==
  ASSUME TypeOK, ControlInv, ControlIsExclusive, ControlIsExclusive',
         NEW c \in Conns, StreamRecheck(c)
  PROVE  [Control!ControlNext]_(Control!controlVars)
<1>1. /\ cpc[c] = "registered"
      /\ lease = cTok[c]
      /\ cpc' = [cpc EXCEPT ![c] = "served"]
      /\ UNCHANGED <<tpc, order, cTok, cancelled>>
  BY DEF StreamRecheck, LeaseOK, dbVars, takeoverVars
<1>2. UNCHANGED barred
  BY <1>1 DEF barred, Committed, Known
<1>3. PICK k \in Takeovers : k = cTok[c]
  BY <1>1 DEF ControlInv, SlotsHoldKnownTokens, Known
<1>4. CASE c \in cancelled
  <2>1. \A d \in Conns : Live(d)' <=> Live(d)
    BY <1>1, <1>4 DEF Live, TypeOK
  <2>2. UNCHANGED active
    BY <1>1, <2>1 DEF active
  <2> QED
    BY <1>2, <2>2 DEF Control!controlVars, active, barred
<1>5. CASE c \notin cancelled
  <2>1. Live(c)'
    BY <1>1, <1>5 DEF Live, TypeOK
  <2>2. active' = {k}
    BY <1>1, <1>3, <2>1 DEF ControlIsExclusive, active
  <2>3. active \subseteq {k}
    <3>1. \A d \in Conns : Live(d) => Live(d)'
      BY <1>1 DEF Live, TypeOK
    <3> QED
      BY <1>1, <1>3, <2>2, <3>1 DEF active
  <2>4. k \notin barred
    BY <1>1, <1>3, NoLeaseAssumption
       DEF ControlInv, LeaseIsNewest, barred, Known, Committed, TypeOK
  <2>5. Control!Connect(k)
    BY <1>2, <2>2, <2>3, <2>4 DEF Control!Connect, active, barred
  <2> QED
    BY <2>5 DEF Control!ControlNext
<1> QED
  BY <1>4, <1>5

\* The detailed protocol keeps the promise of ExclusiveControl: a step of Next
\* connects, disconnects or displaces, or changes nothing that it speaks of.
THEOREM ControlImplements == Spec => ImplementsExclusiveControl
<1>1. Init => Control!ControlInit
  BY DEF Init, Control!ControlInit, Live, Committed
<1>2. TypeOK /\ ControlInv /\ ControlIsExclusive /\ (TypeOK /\ ControlIsExclusive)'
        /\ [Next]_vars => [Control!ControlNext]_(Control!controlVars)
  <2> SUFFICES ASSUME TypeOK, ControlInv, ControlIsExclusive, ControlIsExclusive',
                      [Next]_vars
               PROVE  [Control!ControlNext]_(Control!controlVars)
    OBVIOUS
  <2>1. CASE QuietStep
    <3>1. UNCHANGED barred
      BY <2>1 DEF QuietStep, barred, Committed, Known
    <3>2. \A c \in Conns : Live(c)' => Live(c) /\ cTok'[c] = cTok[c]
      BY <2>1 DEF QuietStep, Live
    <3> QED
      BY <3>1, <3>2, FewerLive
  <2>2. ASSUME NEW t \in Takeovers,
               \/ \E a \in Auths : TakeoverBegin(t, a)
               \/ TakeoverLock(t)
               \/ TakeoverRollback(t)
        PROVE  [Control!ControlNext]_(Control!controlVars)
    <3>1. /\ tpc[t] # "done"
          /\ \E pc \in {"begun", "locked", "refused"} : tpc' = [tpc EXCEPT ![t] = pc]
          /\ UNCHANGED <<order, cpc, cTok, cancelled>>
      BY <2>2 DEF TakeoverBegin, TakeoverLock, TakeoverRollback, connVars
    <3>2. Known' = Known
      BY <3>1 DEF Known, TypeOK
    <3>3. UNCHANGED barred
      BY <3>1, <3>2 DEF barred, Committed
    <3> QED
      BY <3>1, <3>3, FewerLive DEF Live
  <2>3. ASSUME NEW t \in Takeovers, NEW pc \in {"committed", "lost"}, Commit(t, pc)
        PROVE  [Control!ControlNext]_(Control!controlVars)
    <3>1. /\ order' = [order EXCEPT ![t] = commits + 1]
          /\ tpc' = [tpc EXCEPT ![t] = pc]
          /\ tpc[t] = "locked"
          /\ UNCHANGED <<cpc, cTok, cancelled>>
      BY <2>3 DEF Commit, connVars
    <3>2. Known' = Known /\ t \notin Known /\ order[t] = 0
      BY <3>1 DEF Known, TypeOK, ControlInv, CommitOrder
    <3>3. \A u \in Known : order[u] <= commits /\ order'[u] = order[u]
      BY <3>1, <3>2 DEF Known, TypeOK, ControlInv, CommitOrder
    <3>4. Committed' = Committed \cup {t} /\ t \notin Committed
      BY <3>1, <3>2 DEF Committed, TypeOK
    <3>5. \A u \in Known : ~(order'[t] < order'[u])
      BY <3>1, <3>2, <3>3 DEF TypeOK, Known
    <3>6. UNCHANGED barred
      BY <3>1, <3>2, <3>3, <3>4, <3>5 DEF barred, Committed, TypeOK
    <3> QED
      BY <3>1, <3>6, FewerLive DEF Live
  <2>4. ASSUME NEW t \in Takeovers, TakeoverRevoke(t)
        PROVE  [Control!ControlNext]_(Control!controlVars)
    BY <2>4, AnswerDisplaces
  <2>5. ASSUME NEW c \in Conns, StreamRecheck(c)
        PROVE  [Control!ControlNext]_(Control!controlVars)
    BY <2>5, RecheckConnects
  <2>6. ASSUME NEW c \in Conns,
               \/ \E a \in Auths, t \in Takeovers : StreamRequest(c, a, t)
               \/ StreamCheck(c)
               \/ StreamRegister(c)
               \/ StreamEnd(c)
        PROVE  [Control!ControlNext]_(Control!controlVars)
    <3>1. UNCHANGED <<tpc, order>>
      BY <2>6 DEF StreamRequest, StreamCheck, StreamRegister, StreamEnd, takeoverVars
    <3>2. UNCHANGED barred
      BY <3>1 DEF barred, Committed, Known
    <3>3. \A d \in Conns : Live(d)' => Live(d) /\ cTok'[d] = cTok[d]
      BY <2>6 DEF StreamRequest, StreamCheck, StreamRegister, StreamEnd, FreeSlot,
                  Live, TypeOK
    <3> QED
      BY <3>2, <3>3, FewerLive
  <2>7. CASE SetStateDelete
    <3>1. UNCHANGED <<tpc, order, cpc, cTok, cancelled>>
      BY <2>7 DEF SetStateDelete, takeoverVars, connVars
    <3>2. UNCHANGED barred
      BY <3>1 DEF barred, Committed, Known
    <3> QED
      BY <3>1, <3>2, FewerLive DEF Live
  <2>8. CASE ApiRestart
    <3>1. /\ UNCHANGED order
          /\ \A t \in Takeovers : tpc'[t] = "done" <=> tpc[t] = "done"
          /\ \A c \in Conns : cpc'[c] = "idle"
      BY <2>8 DEF ApiRestart
    <3>2. UNCHANGED barred
      BY <3>1 DEF barred, Committed, Known
    <3> QED
      BY <3>1, <3>2, FewerLive DEF Live
  <2> QED
    BY <2>1, <2>2, <2>3, <2>4, <2>5, <2>6, <2>7, <2>8, QuietActions
       DEF Next, TakeoverCommit, TakeoverCommitUnacknowledged
<1> QED
  BY <1>1, <1>2, ControlInvariant, ControlExclusive, PTL
     DEF Spec, ImplementsExclusiveControl, Control!ControlSpec
===============================================================================
