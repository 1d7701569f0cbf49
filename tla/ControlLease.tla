----------------------------- MODULE ControlLease -----------------------------
(***************************************************************************)
(* Who controls one user's cloud browser: internal/api/api.go and the part *)
(* of internal/api/worker.go that ends control.                            *)
(*                                                                         *)
(* The database holds the login rows (auth_sessions), the disabled flag    *)
(* (users), the session state (sessions) and at most one lease row         *)
(* (controller_leases).  The API process holds the registry of open        *)
(* streams.  Every HTTP handler is a process of its own: it reads the      *)
(* database, changes it and touches the registry in separate steps, and    *)
(* every interleaving of those steps is allowed.  All state is that of one *)
(* user: every statement and every revocation in the code is keyed by the  *)
(* session id, which is the user id.                                       *)
(***************************************************************************)
EXTENDS Naturals, Sequences

CONSTANTS
  Auths,      \* login tokens (auth_sessions.token_hash); bounds the logins
  Takeovers,  \* takeover requests; each mints one control token, its own name
  Conns,      \* slots for stream requests (view and audio WebSockets)
  Inputs,     \* slots for plain requests checked by a lease (input, chooser)
  NoLease,    \* no row in controller_leases
  NoAuth,     \* the login of an unused slot
  DbFaults    \* TRUE: a statement of setState may fail; its error is ignored

ASSUME NoLeaseAssumption == NoLease \notin Takeovers
ASSUME NoAuthAssumption == NoAuth \notin Auths
ASSUME DbFaultsAssumption == DbFaults \in BOOLEAN

VARIABLES
  login,      \* login[a]: "unused", "valid" or "gone" from auth_sessions
  disabled,   \* users.disabled
  sess,       \* sessions.state
  lease,      \* controller_leases: the takeover whose token is current
  tpc, tAuth, \* takeover requests: where they are, whose login they came with
  cpc, cAuth, cTok, \* stream requests: where, with which login and token
  cancelled,  \* registered streams whose context has been cancelled
  input,      \* plain control requests: the token checked and not yet used
  revocations, \* logouts and password changes that have not yet revoked
  admin,      \* where the administrator's disable request is
  plan, wpc,  \* the worker: states still to be set, and where setState is
  working,    \* Work has got its connection and the advisory lock when this API
              \* process began: the worker and the tracker run in it
  track,      \* trackConnections: streams of its snapshot still to be checked
  order,      \* history: position of t's commit among the commits, 0 if none
  commits     \* history: the number of takeovers committed so far

dbVars == <<login, disabled, sess, lease>>
takeoverVars == <<tpc, tAuth, order, commits>>
connVars == <<cpc, cAuth, cTok>>
workerVars == <<plan, wpc, working>>
vars == <<dbVars, takeoverVars, connVars, cancelled, input, revocations,
          admin, workerVars, track>>

SessionStates == {"STOPPED", "STARTING", "RUNNING", "STOPPING", "FAILED"}
Ending == {"STOPPING", "STOPPED", "FAILED"}

-------------------------------------------------------------------------------
(***************************************************************************)
(* State formulas                                                          *)
(***************************************************************************)

\* The query of protect: the login row exists, unexpired, user not disabled.
Authenticated(a) == login[a] = "valid" /\ ~disabled

\* Some request of login a has passed protect by now, perhaps long ago.
PassedProtect(a) == login[a] # "unused"

\* Fault: the lease query forgets the token.
LeaseOKAnyToken(a, t) ==
  lease # NoLease /\ tAuth[lease] = a /\ sess = "RUNNING"

\* The query of lease(): it does not look at auth_sessions.
LeaseOK(a, t) == lease = t /\ tAuth[t] = a /\ sess = "RUNNING"

\* The query of trackConnections: lease() and protect together.
Authorized(c) == LeaseOK(cAuth[c], cTok[c]) /\ Authenticated(cAuth[c])

\* SELECT ... FOR UPDATE holds the session row until the takeover commits.
RowLocked == \E t \in Takeovers : tpc[t] = "locked"

\* The API's stream registry.
Registered == {c \in Conns : cpc[c] \in {"registered", "served"}}

\* A stream past its recheck and not cancelled: it dials and copies.
Live(c) == cpc[c] = "served" /\ c \notin cancelled

Committed == {t \in Takeovers : order[t] > 0}

\* The takeovers whose client has received its token.
Known == {t \in Takeovers : tpc[t] = "done"}

\* revoke and revokeOtherSessions, called with the set of streams they match.
Revoke(S) == cancelled' = cancelled \cup (Registered \cap S)

Init ==
  /\ login = [a \in Auths |-> "unused"]
  /\ disabled = FALSE
  /\ sess = "STOPPED"
  /\ lease = NoLease
  /\ tpc = [t \in Takeovers |-> "idle"]
  /\ tAuth = [t \in Takeovers |-> NoAuth]
  /\ cpc = [c \in Conns |-> "idle"]
  /\ cAuth = [c \in Conns |-> NoAuth]
  /\ cTok = [c \in Conns |-> NoLease]
  /\ cancelled = {}
  /\ input = [i \in Inputs |-> NoLease]
  /\ revocations = {}
  /\ admin = "idle"
  /\ plan = <<>>
  /\ wpc = "next"
  /\ working \in BOOLEAN
  /\ track = {}
  /\ order = [t \in Takeovers |-> 0]
  /\ commits = 0

-------------------------------------------------------------------------------
(***************************************************************************)
(* Logins.  newLogin inserts a row some time after login has verified the  *)
(* password, so the insert is possible in every state (module Accounts     *)
(* models the verification).                                               *)
(***************************************************************************)
Login(a) ==
  /\ login[a] = "unused"
  /\ login' = [login EXCEPT ![a] = "valid"]
  /\ UNCHANGED <<disabled, sess, lease, takeoverVars, connVars, cancelled,
                 input, revocations, admin, workerVars, track>>

\* expires_at passes; nothing is revoked.
LoginExpires(a) ==
  /\ login[a] = "valid"
  /\ login' = [login EXCEPT ![a] = "gone"]
  /\ UNCHANGED <<disabled, sess, lease, takeoverVars, connVars, cancelled,
                 input, revocations, admin, workerVars, track>>

\* logout deletes its own row (which may be gone), and revokes in a later step.
Logout(a) ==
  /\ PassedProtect(a)
  /\ login' = [login EXCEPT ![a] = "gone"]
  /\ revocations' = revocations \cup {[kind |-> "logout", auth |-> a]}
  /\ UNCHANGED <<disabled, sess, lease, takeoverVars, connVars, cancelled,
                 input, admin, workerVars, track>>

\* changePassword deletes every other row in one transaction.
ChangePassword(a) ==
  /\ PassedProtect(a)
  /\ login' = [b \in Auths |->
                 IF b # a /\ login[b] = "valid" THEN "gone" ELSE login[b]]
  /\ revocations' = revocations \cup {[kind |-> "password", auth |-> a]}
  /\ UNCHANGED <<disabled, sess, lease, takeoverVars, connVars, cancelled,
                 input, admin, workerVars, track>>

\* a.revoke(p.ID, p.Hash) of logout, a.revokeOtherSessions of changePassword.
RevokeLogins(r) ==
  /\ r \in revocations
  /\ Revoke({c \in Conns : (r.kind = "logout") = (cAuth[c] = r.auth)})
  /\ revocations' = revocations \ {r}
  /\ UNCHANGED <<dbVars, takeoverVars, connVars, input, admin, workerVars,
                 track>>

\* adminAction "disable": flag, then rows, then revoke, each on its own.
DisableUser ==
  /\ admin = "idle"
  /\ ~disabled
  /\ disabled' = TRUE
  /\ admin' = "flagged"
  /\ UNCHANGED <<login, sess, lease, takeoverVars, connVars, cancelled,
                 input, revocations, workerVars, track>>

\* The error of the DELETE is ignored.
DisableDeletesLogins ==
  /\ admin = "flagged"
  /\ \/ login' = [a \in Auths |-> IF login[a] = "valid" THEN "gone" ELSE login[a]]
     \/ UNCHANGED login
  /\ admin' = "purged"
  /\ UNCHANGED <<disabled, sess, lease, takeoverVars, connVars, cancelled,
                 input, revocations, workerVars, track>>

DisableRevokes ==
  /\ admin = "purged"
  /\ Revoke(Conns)
  /\ admin' = "idle"
  /\ UNCHANGED <<dbVars, takeoverVars, connVars, input, revocations,
                 workerVars, track>>

EnableUser ==
  /\ admin = "idle"
  /\ disabled
  /\ disabled' = FALSE
  /\ UNCHANGED <<login, sess, lease, takeoverVars, connVars, cancelled,
                 input, revocations, admin, workerVars, track>>

-------------------------------------------------------------------------------
(***************************************************************************)
(* takeover: protect, SELECT ... FOR UPDATE, upsert and commit, revoke,    *)
(* answer.                                                                 *)
(***************************************************************************)
TakeoverBegin(t, a) ==
  /\ tpc[t] = "idle"
  /\ Authenticated(a)
  /\ tpc' = [tpc EXCEPT ![t] = "begun"]
  /\ tAuth' = [tAuth EXCEPT ![t] = a]
  /\ UNCHANGED <<dbVars, order, commits, connVars, cancelled, input,
                 revocations, admin, workerVars, track>>

TakeoverLock(t) ==
  /\ tpc[t] = "begun"
  /\ ~RowLocked
  /\ tpc' = [tpc EXCEPT ![t] = IF sess = "RUNNING" THEN "locked" ELSE "refused"]
  /\ UNCHANGED <<dbVars, tAuth, order, commits, connVars, cancelled, input,
                 revocations, admin, workerVars, track>>

\* The upsert becomes visible; pc is where the handler goes from here.
Commit(t, pc) ==
  /\ tpc[t] = "locked"
  /\ lease' = t
  /\ commits' = commits + 1
  /\ order' = [order EXCEPT ![t] = commits']
  /\ tpc' = [tpc EXCEPT ![t] = pc]
  /\ UNCHANGED <<login, disabled, sess, tAuth, connVars, cancelled, input,
                 revocations, admin, workerVars, track>>

\* Fault: the client is answered before the old streams are revoked.
TakeoverCommitAnswers(t) == Commit(t, "done")

TakeoverCommit(t) == Commit(t, "committed")

\* The commit takes effect but its answer is lost (the client went away and
\* the request context ended): the handler returns without revoking.
TakeoverCommitUnacknowledged(t) == Commit(t, "lost")

TakeoverRollback(t) ==
  /\ tpc[t] = "locked"
  /\ tpc' = [tpc EXCEPT ![t] = "refused"]
  /\ UNCHANGED <<dbVars, tAuth, order, commits, connVars, cancelled, input,
                 revocations, admin, workerVars, track>>

\* Fault: the revoke after the commit is missing.
TakeoverWithoutRevoke(t) ==
  /\ tpc[t] = "committed"
  /\ tpc' = [tpc EXCEPT ![t] = "done"]
  /\ UNCHANGED <<dbVars, tAuth, order, commits, connVars, cancelled, input,
                 revocations, admin, workerVars, track>>

\* a.revoke(p.ID, ""), and the answer that gives the client its token.
TakeoverRevoke(t) ==
  /\ tpc[t] = "committed"
  /\ Revoke(Conns)
  /\ tpc' = [tpc EXCEPT ![t] = "done"]
  /\ UNCHANGED <<dbVars, tAuth, order, commits, connVars, input,
                 revocations, admin, workerVars, track>>

-------------------------------------------------------------------------------
(***************************************************************************)
(* view and audio, then socket: protect, lease, register, lease again.     *)
(***************************************************************************)
FreeSlot(c) ==
  /\ cpc' = [cpc EXCEPT ![c] = "idle"]
  /\ cAuth' = [cAuth EXCEPT ![c] = NoAuth]
  /\ cTok' = [cTok EXCEPT ![c] = NoLease]

StreamRequest(c, a, t) ==
  /\ cpc[c] = "idle"
  /\ t \in Known
  /\ Authenticated(a)
  /\ cpc' = [cpc EXCEPT ![c] = "authed"]
  /\ cAuth' = [cAuth EXCEPT ![c] = a]
  /\ cTok' = [cTok EXCEPT ![c] = t]
  /\ UNCHANGED <<dbVars, takeoverVars, cancelled, input, revocations,
                 admin, workerVars, track>>

StreamCheck(c) ==
  /\ cpc[c] = "authed"
  /\ IF LeaseOK(cAuth[c], cTok[c])
     THEN cpc' = [cpc EXCEPT ![c] = "checked"] /\ UNCHANGED <<cAuth, cTok>>
     ELSE FreeSlot(c)
  /\ UNCHANGED <<dbVars, takeoverVars, cancelled, input, revocations,
                 admin, workerVars, track>>

StreamRegister(c) ==
  /\ cpc[c] = "checked"
  /\ cpc' = [cpc EXCEPT ![c] = "registered"]
  /\ UNCHANGED <<dbVars, takeoverVars, cAuth, cTok, cancelled, input,
                 revocations, admin, workerVars, track>>

\* Fault: the recheck after registering is missing.
StreamWithoutRecheck(c) ==
  /\ cpc[c] = "registered"
  /\ cpc' = [cpc EXCEPT ![c] = "served"]
  /\ UNCHANGED <<dbVars, takeoverVars, cAuth, cTok, cancelled, input,
                 revocations, admin, workerVars, track>>

StreamRecheck(c) ==
  /\ cpc[c] = "registered"
  /\ LeaseOK(cAuth[c], cTok[c])
  /\ cpc' = [cpc EXCEPT ![c] = "served"]
  /\ UNCHANGED <<dbVars, takeoverVars, cAuth, cTok, cancelled, input,
                 revocations, admin, workerVars, track>>

\* Fault: the stream is not deleted from the registry.
StreamEndStaysRegistered(c) ==
  /\ c \in Registered
  /\ FreeSlot(c)
  /\ UNCHANGED <<dbVars, takeoverVars, cancelled, input, revocations, admin,
                 workerVars, track>>

\* The recheck refuses or its query fails, a dial or a copy fails, a peer
\* closes, or the context is cancelled; the deferred delete unregisters the
\* stream.  trackConnections may still hold a copy: cancelling it does nothing.
StreamEnd(c) ==
  /\ c \in Registered
  /\ FreeSlot(c)
  /\ cancelled' = cancelled \ {c}
  /\ track' = track \ {c}
  /\ UNCHANGED <<dbVars, takeoverVars, input, revocations, admin,
                 workerVars>>

-------------------------------------------------------------------------------
(***************************************************************************)
(* Plain control requests (input, file-chooser): lease, then proxy.        *)
(***************************************************************************)
\* The request has passed protect some time before its lease is looked at.
InputCheck(i, a, t) ==
  /\ input[i] = NoLease
  /\ t \in Known
  /\ PassedProtect(a)
  /\ LeaseOK(a, t)
  /\ input' = [input EXCEPT ![i] = t]
  /\ UNCHANGED <<dbVars, takeoverVars, connVars, cancelled, revocations, admin,
                 workerVars, track>>

\* The proxied request reaches the browser agent.
InputDeliver(i) ==
  /\ input[i] # NoLease
  /\ input' = [input EXCEPT ![i] = NoLease]
  /\ UNCHANGED <<dbVars, takeoverVars, connVars, cancelled, revocations, admin,
                 workerVars, track>>

-------------------------------------------------------------------------------
(***************************************************************************)
(* The worker, one job at a time, as far as control goes: the sequence of  *)
(* states a job sets (module Scheduler models the rest of it).             *)
(***************************************************************************)
\* A stop operation or an idle session: revoke, STOPPING, then the outcome.
StopJob(outcome) ==
  /\ working /\ plan = <<>>
  /\ Revoke(Conns)
  /\ plan' = <<"STOPPING", outcome>>
  /\ UNCHANGED <<dbVars, takeoverVars, connVars, input, revocations, admin,
                 wpc, working, track>>

\* A start or open operation; STARTING only if the session was not running.
StartJob(outcome) ==
  /\ working /\ plan = <<>>
  /\ plan' = IF sess = "RUNNING" THEN <<outcome>> ELSE <<"STARTING", outcome>>
  /\ UNCHANGED <<dbVars, takeoverVars, connVars, cancelled, input,
                 revocations, admin, wpc, working, track>>

\* reconcile: a container runs though its session should not (and is stopped).
ReconcileUnwanted ==
  /\ working /\ plan = <<>>
  /\ sess \in Ending
  /\ Revoke(Conns)
  /\ plan' = <<"STOPPED">>
  /\ UNCHANGED <<dbVars, takeoverVars, connVars, input, revocations, admin,
                 wpc, working, track>>

\* reconcile: a session should have a container and none runs.
ReconcileMissing ==
  /\ working /\ plan = <<>>
  /\ sess \in {"RUNNING", "STARTING", "STOPPING"}
  /\ Revoke(Conns)
  /\ plan' = <<IF sess = "STOPPING" THEN "STOPPED" ELSE "FAILED">>
  /\ UNCHANGED <<dbVars, takeoverVars, connVars, input, revocations, admin,
                 wpc, working, track>>

\* setState, first statement: a.revoke(id, "") when the session ends.
SetStateRevoke ==
  /\ plan # <<>>
  /\ wpc = "next"
  /\ Head(plan) \in Ending
  /\ Revoke(Conns)
  /\ wpc' = "revoked"
  /\ UNCHANGED <<dbVars, takeoverVars, connVars, input, revocations, admin,
                 plan, working, track>>

\* setState, second statement: DELETE FROM controller_leases.
SetStateDelete ==
  /\ wpc = "revoked"
  /\ lease' = NoLease \/ (DbFaults /\ lease' = lease)
  /\ wpc' = "deleted"
  /\ UNCHANGED <<login, disabled, sess, takeoverVars, connVars, cancelled,
                 input, revocations, admin, plan, working, track>>

\* Fault: takeover reads the state without FOR UPDATE, so nothing waits for it.
SetStateUpdateUnlocked ==
  /\ plan # <<>>
  /\ wpc = "deleted" \/ (wpc = "next" /\ Head(plan) \notin Ending)
  /\ sess' = Head(plan)
  /\ plan' = Tail(plan)
  /\ wpc' = "next"
  /\ UNCHANGED <<login, disabled, lease, takeoverVars, connVars, cancelled,
                 input, revocations, admin, working, track>>

\* setState, last statement: UPDATE sessions, which waits for the row lock.
SetStateUpdate ==
  /\ plan # <<>>
  /\ wpc = "deleted" \/ (wpc = "next" /\ Head(plan) \notin Ending)
  /\ ~RowLocked
  /\ sess' = Head(plan) \/ (DbFaults /\ sess' = sess)
  /\ plan' = Tail(plan)
  /\ wpc' = "next"
  /\ UNCHANGED <<login, disabled, lease, takeoverVars, connVars, cancelled,
                 input, revocations, admin, working, track>>

-------------------------------------------------------------------------------
(***************************************************************************)
(* trackConnections: every 2 s copy the registry, then check each stream.  *)
(* Work starts it once it holds the lock.                                  *)
(***************************************************************************)
TrackSnapshot ==
  /\ working /\ track = {}
  /\ track' = Registered
  /\ UNCHANGED <<dbVars, takeoverVars, connVars, cancelled, input,
                 revocations, admin, workerVars>>

\* Fault: the tracker checks the lease but not the login.
TrackCheckLeaseOnly(c) ==
  /\ c \in track
  /\ cancelled' = IF LeaseOK(cAuth[c], cTok[c]) THEN cancelled ELSE cancelled \cup {c}
  /\ track' = track \ {c}
  /\ UNCHANGED <<dbVars, takeoverVars, connVars, input, revocations, admin,
                 workerVars>>

TrackCheck(c) ==
  /\ c \in track
  /\ cancelled' = IF Authorized(c) THEN cancelled ELSE cancelled \cup {c}
  /\ track' = track \ {c}
  /\ UNCHANGED <<dbVars, takeoverVars, connVars, input, revocations, admin,
                 workerVars>>

\* The API process dies and is started again: the database stays, requests,
\* streams and the worker's job are gone, open transactions roll back.  Work
\* tries once whether it gets a connection and the lock, and returns if not:
\* the API then serves without worker and tracker.
ApiRestart ==
  /\ tpc' = [t \in Takeovers |->
               IF tpc[t] \in {"begun", "locked", "committed"} THEN "lost"
               ELSE tpc[t]]
  /\ cpc' = [c \in Conns |-> "idle"]
  /\ cAuth' = [c \in Conns |-> NoAuth]
  /\ cTok' = [c \in Conns |-> NoLease]
  /\ input' = [i \in Inputs |-> NoLease]
  /\ cancelled' = {}
  /\ revocations' = {}
  /\ admin' = "idle"
  /\ plan' = <<>>
  /\ wpc' = "next"
  /\ working' \in BOOLEAN
  /\ track' = {}
  /\ UNCHANGED <<dbVars, tAuth, order, commits>>

-------------------------------------------------------------------------------
Next ==
  \/ \E a \in Auths : \/ Login(a) \/ LoginExpires(a)
                      \/ Logout(a) \/ ChangePassword(a)
  \/ \E r \in revocations : RevokeLogins(r)
  \/ DisableUser \/ DisableDeletesLogins \/ DisableRevokes \/ EnableUser
  \/ \E t \in Takeovers : \/ \E a \in Auths : TakeoverBegin(t, a)
                          \/ TakeoverLock(t) \/ TakeoverRollback(t)
                          \/ TakeoverCommit(t)
                          \/ TakeoverCommitUnacknowledged(t)
                          \/ TakeoverRevoke(t)
  \/ \E c \in Conns : \/ \E a \in Auths, t \in Takeovers : StreamRequest(c, a, t)
                      \/ StreamCheck(c) \/ StreamRegister(c)
                      \/ StreamRecheck(c) \/ StreamEnd(c)
                      \/ TrackCheck(c)
  \/ \E i \in Inputs : \/ \E a \in Auths, t \in Takeovers : InputCheck(i, a, t)
                       \/ InputDeliver(i)
  \/ \E outcome \in {"STOPPED", "FAILED"} : StopJob(outcome)
  \/ \E outcome \in {"RUNNING", "FAILED"} : StartJob(outcome)
  \/ ReconcileUnwanted \/ ReconcileMissing
  \/ SetStateRevoke \/ SetStateDelete \/ SetStateUpdate
  \/ TrackSnapshot
  \/ ApiRestart

Spec == Init /\ [][Next]_vars

(***************************************************************************)
(* The HTTP server and the goroutines of the API go on running: the        *)
(* connection tracker, where it was started, keeps its ticker (also after  *)
(* Work has returned), and a stream whose context is cancelled leaves      *)
(* socket.  Clients, administrators and crashes owe nothing.               *)
(***************************************************************************)
Fairness ==
  /\ WF_vars(TrackSnapshot)
  /\ \A c \in Conns : /\ WF_vars(TrackCheck(c))
                       /\ WF_vars(c \in cancelled /\ StreamEnd(c))

FairSpec == Spec /\ Fairness

-------------------------------------------------------------------------------
(***************************************************************************)
(* Properties                                                              *)
(***************************************************************************)
Slots == {"idle", "authed", "checked", "registered", "served"}
TakeoverSteps == {"idle", "begun", "locked", "refused", "committed", "lost", "done"}

\* The values the rows, the registry and the handlers' positions can take.
TypeOK ==
  /\ login \in [Auths -> {"unused", "valid", "gone"}]
  /\ disabled \in BOOLEAN
  /\ sess \in SessionStates
  /\ lease \in Takeovers \cup {NoLease}
  /\ tpc \in [Takeovers -> TakeoverSteps]
  /\ tAuth \in [Takeovers -> Auths \cup {NoAuth}]
  /\ cpc \in [Conns -> Slots]
  /\ cAuth \in [Conns -> Auths \cup {NoAuth}]
  /\ cTok \in [Conns -> Takeovers \cup {NoLease}]
  /\ cancelled \subseteq Registered
  /\ input \in [Inputs -> Takeovers \cup {NoLease}]
  /\ revocations \subseteq [kind : {"logout", "password"}, auth : Auths]
  /\ admin \in {"idle", "flagged", "purged"}
  /\ plan \in Seq(SessionStates)
  /\ wpc \in {"next", "revoked", "deleted"}
  /\ working \in BOOLEAN
  /\ track \subseteq Registered
  /\ order \in [Takeovers -> Nat]
  /\ commits \in Nat

\* Control is exclusive: two streams that are both past socket's recheck and
\* not cancelled carry the same control token, however takeovers, openings,
\* lost commits, worker jobs and restarts interleave (api.go, the recheck
\* after registering and the revoke after the commit).
ControlIsExclusive ==
  \A c, d \in Conns : Live(c) /\ Live(d) => cTok[c] = cTok[d]

\* Once a takeover has answered its client, no stream of a token committed
\* before it is live, nor can its lease be current again (takeover, revoke).
TakeoverCutsOlderControl ==
  \A t \in Known : /\ \A c \in Conns : Live(c) => order[t] <= order[cTok[c]]
                   /\ lease # NoLease => order[t] <= order[lease]

\* A session that has become STOPPED has no live stream left and no lease row
\* that a later start could bring back to life: the takeover that raced the
\* stop was blocked by the row lock or wiped by the second setState.
StoppedMeansReleased ==
  sess = "STOPPED" => lease = NoLease /\ \A c \in Conns : ~Live(c)

\* Once a takeover has answered, a plain control request (input, file chooser,
\* status) with an older token is refused for ever: after lost commits, failed
\* deletes of the lease, stops and restarts too (lease).
OldControllerRefused ==
  [][\A i \in Inputs : input'[i] \notin {input[i], NoLease}
        => \A t \in Known : order[t] <= order[input'[i]]]_vars

\* A stream that lost its right (login deleted or expired, user disabled,
\* lease replaced, session ended) does not stay: even one that slipped
\* between a check and a revoke is found by trackConnections and closed, in
\* every API process that got the scheduler's lock when it started (Work).
UnauthorizedStreamCloses ==
  LET Stale(c) == cpc[c] = "served" /\ ~Authorized(c)
  IN  \A c \in Conns : working /\ Stale(c) ~> ~Stale(c)

\* The promise of ExclusiveControl: the tokens of live streams, and the
\* tokens older than a takeover that has answered.
Control == INSTANCE ExclusiveControl WITH
  Tokens <- Takeovers,
  active <- {cTok[c] : c \in {d \in Conns : Live(d)}},
  barred <- {t \in Committed : \E u \in Known : order[t] < order[u]}

\* Every step of takeover, socket, revoke and the worker keeps that promise.
ImplementsExclusiveControl == Control!ControlSpec

-------------------------------------------------------------------------------
(***************************************************************************)
(* A statement of the repository that the code does not keep               *)
(***************************************************************************)
\* A session that comes to RUNNING again brings no lease of its earlier life
\* with it (the claim of TestStoppedLeaseCannotRevive).  setState deletes the
\* lease and only then leaves RUNNING: a takeover in between survives FAILED.
StoppedLeaseCannotRevive ==
  [][sess # "RUNNING" /\ sess' = "RUNNING" => lease = NoLease]_vars
===============================================================================
