-------------------------------- MODULE Accounts --------------------------------
(***************************************************************************)
(* The accounts of the API (internal/api/api.go): an invitation is turned  *)
(* into an account in one transaction, a login checks the password and     *)
(* then inserts its row, a password change deletes the other logins of its *)
(* user, and an administrator disables and enables users.  Every request   *)
(* may fail, or die with its process or its client, between any two of its *)
(* statements; the acknowledgement of a commit may be lost.  PostgreSQL    *)
(* runs the statements at READ COMMITTED: one that meets the row or the    *)
(* unique key of an unfinished transaction waits for its end and then      *)
(* looks again.  What a login may do to the browser is in ControlLease.    *)
(***************************************************************************)
CONSTANTS
  Members,  \* users that have an account from the beginning
  Acts,     \* activation requests, also the accounts and logins they make
  Logins,   \* login requests, also the login rows they make
  Changes,  \* password change requests
  Invites,
  Emails,
  NoUser, NoLogin, NoEmail, NoInvite

Users == Members \cup Acts
Tokens == Acts \cup Logins

ASSUME KindsAssumption ==
  Members \cap Acts = {} /\ Acts \cap Logins = {}
ASSUME NonesAssumption ==
  NoUser \notin Users /\ NoLogin \notin Tokens /\ NoEmail \notin Emails
    /\ NoInvite \notin Invites

VARIABLES
  invited,  \* the invitations that an administrator has made
  used,     \* those with a used_at
  accounts, \* users with a committed row
  whole,    \* those with a profile and a session row as well
  mail,     \* mail[u]: email of the account, or of the activation under way
  act,      \* act[a]: where activation a is
  inv,      \* inv[a]: its invitation
  lost,     \* activations whose commit took effect without an acknowledgement
  disabled,
  closing,  \* users being disabled whose login rows are still to be deleted
  login,    \* login[l]: where login l is
  who,      \* who[l]: the user it has verified
  live,     \* the login rows
  chg,      \* chg[c]: where password change c is
  by,       \* by[c]: the login that asks for it
  doomed,   \* doomed[c]: the rows its uncommitted DELETE has met
  before    \* history: the logins of its user that were answered before it

actVars == <<invited, used, accounts, whole, mail, act, inv, lost>>
loginVars == <<login, who>>
changeVars == <<chg, by, doomed, before>>
vars == <<actVars, disabled, closing, loginVars, live, changeVars>>

\* The user that a login row belongs to.
Owner(t) == IF t \in Acts THEN t ELSE who[t]
RowsOf(u) == {t \in live : Owner(t) = u}

\* The rows and keys that an unfinished transaction has locked.
HoldsInvite(a, i) == act[a] \in {"claimed", "inserted", "whole"} /\ inv[a] = i
HoldsEmail(a, e) == act[a] \in {"inserted", "whole"} /\ mail[a] = e
HoldsUser(c, u) == chg[c] \in {"updated", "deleted"} /\ Owner(by[c]) = u

Init ==
  /\ invited = {} /\ used = {} /\ lost = {}
  /\ accounts = Members /\ whole = Members
  /\ mail \in [Users -> Emails \cup {NoEmail}]
  /\ \A m \in Members : mail[m] \in Emails
  /\ \A m, n \in Members : mail[m] = mail[n] => m = n
  /\ \A a \in Acts : mail[a] = NoEmail
  /\ act = [a \in Acts |-> "free"]
  /\ inv = [a \in Acts |-> NoInvite]
  /\ disabled = {} /\ closing = {}
  /\ login = [l \in Logins |-> "free"]
  /\ who = [l \in Logins |-> NoUser]
  /\ live = {}
  /\ chg = [c \in Changes |-> "free"]
  /\ by = [c \in Changes |-> NoLogin]
  /\ doomed = [c \in Changes |-> {}]
  /\ before = [c \in Changes |-> {}]

-----------------------------------------------------------------------------
(* Invitations and activation *)

Invite(i) ==
  /\ i \notin invited
  /\ invited' = invited \cup {i}
  /\ UNCHANGED <<used, accounts, whole, mail, act, inv, lost, disabled, closing,
                 loginVars, live, changeVars>>

ActGoto(a, pc) ==
  /\ act' = [act EXCEPT ![a] = pc]
  /\ UNCHANGED <<invited, disabled, closing, loginVars, changeVars>>

\* A request with a link that has been given out begins its transaction.
ActBegin(a, i, e) ==
  /\ act[a] = "free" /\ i \in invited
  /\ ActGoto(a, "begun")
  /\ inv' = [inv EXCEPT ![a] = i]
  /\ mail' = [mail EXCEPT ![a] = e]
  /\ UNCHANGED <<used, accounts, whole, lost, live>>

\* Fault: the invitation is read first and marked later, so that two
\* transactions may both find it unused.
ActClaimWithoutLock(a) ==
  /\ act[a] = "begun"
  /\ inv[a] \notin used
  /\ ActGoto(a, "claimed")
  /\ UNCHANGED <<used, accounts, whole, mail, inv, lost, live>>

\* UPDATE invites ... WHERE used_at IS NULL.
ActClaim(a) ==
  /\ act[a] = "begun"
  /\ inv[a] \notin used
  /\ \A b \in Acts : ~HoldsInvite(b, inv[a])
  /\ ActGoto(a, "claimed")
  /\ UNCHANGED <<used, accounts, whole, mail, inv, lost, live>>

\* INSERT INTO users, with its unique email.
ActInsertUser(a) ==
  /\ act[a] = "claimed"
  /\ \A u \in accounts : mail[u] # mail[a]
  /\ \A b \in Acts : ~HoldsEmail(b, mail[a])
  /\ ActGoto(a, "inserted")
  /\ UNCHANGED <<used, accounts, whole, mail, inv, lost, live>>

\* INSERT INTO profiles and INTO sessions.
ActInsertRest(a) ==
  /\ act[a] = "inserted"
  /\ ActGoto(a, "whole")
  /\ UNCHANGED <<used, accounts, whole, mail, inv, lost, live>>

\* The invitation is used or has expired, the email is taken, a statement or
\* the commit fails, the client is gone or the API dies: a rollback.
ActFail(a) ==
  /\ act[a] \in {"begun", "claimed", "inserted", "whole"}
  /\ ActGoto(a, "refused")
  /\ UNCHANGED <<used, accounts, whole, mail, inv, lost, live>>

ActTakesEffect(a) ==
  /\ used' = used \cup {inv[a]}
  /\ accounts' = accounts \cup {a}
  /\ whole' = IF act[a] = "whole" THEN whole \cup {a} ELSE whole
  /\ UNCHANGED <<mail, inv, live>>

ActCommit(a) ==
  /\ act[a] = "whole"
  /\ ActTakesEffect(a)
  /\ ActGoto(a, "committed")
  /\ UNCHANGED lost

\* The commit takes effect and its acknowledgement is lost: an error is
\* answered, and a second attempt will find the invitation used.
ActCommitUnacknowledged(a) ==
  /\ act[a] = "whole"
  /\ ActTakesEffect(a)
  /\ ActGoto(a, "refused")
  /\ lost' = lost \cup {a}

\* newLogin, which may fail.
ActLogin(a) ==
  /\ act[a] = "committed"
  /\ \/ ActGoto(a, "answered") /\ live' = live \cup {a}
     \/ ActGoto(a, "loginless") /\ UNCHANGED live
  /\ UNCHANGED <<used, accounts, whole, mail, inv, lost>>

-----------------------------------------------------------------------------
(* Logins *)

\* The hash of a user who is not disabled is read, and the password is right.
LoginVerify(l, u) ==
  /\ login[l] = "free"
  /\ u \in accounts \ disabled
  /\ login' = [login EXCEPT ![l] = "verified"]
  /\ who' = [who EXCEPT ![l] = u]
  /\ UNCHANGED <<actVars, disabled, closing, live, changeVars>>

\* The row is inserted, whatever has become of the user and the password.
LoginInsert(l) ==
  /\ login[l] = "verified"
  /\ \/ login' = [login EXCEPT ![l] = "answered"] /\ live' = live \cup {l}
     \/ login' = [login EXCEPT ![l] = "failed"] /\ UNCHANGED live
  /\ UNCHANGED <<actVars, disabled, closing, who, changeVars>>

\* A logout, or the seven days are over.
Logout(t) ==
  /\ t \in live
  /\ live' = live \ {t}
  /\ UNCHANGED <<actVars, disabled, closing, loginVars, changeVars>>

-----------------------------------------------------------------------------
(* Password changes *)

ChangeGoto(c, pc) ==
  /\ chg' = [chg EXCEPT ![c] = pc]
  /\ UNCHANGED <<actVars, disabled, closing, loginVars>>

\* The locals of a request go when it is answered an error.
ChangeForget(c) ==
  /\ by' = [by EXCEPT ![c] = NoLogin]
  /\ doomed' = [doomed EXCEPT ![c] = {}]
  /\ before' = [before EXCEPT ![c] = {}]

\* protect lets the request pass and the current password is right.
ChangeBegin(c, t) ==
  /\ chg[c] = "free"
  /\ t \in live /\ Owner(t) \notin disabled
  /\ ChangeGoto(c, "checked")
  /\ by' = [by EXCEPT ![c] = t]
  /\ before' = [before EXCEPT ![c] = RowsOf(Owner(t)) \ {t}]
  /\ UNCHANGED <<live, doomed>>

\* UPDATE users SET password_hash.
ChangeUpdate(c) ==
  /\ chg[c] = "checked"
  /\ \A d \in Changes : ~HoldsUser(d, Owner(by[c]))
  /\ ChangeGoto(c, "updated")
  /\ UNCHANGED <<live, by, doomed, before>>

\* DELETE FROM auth_sessions: the rows that are there now, but its own.
ChangeDelete(c) ==
  /\ chg[c] = "updated"
  /\ ChangeGoto(c, "deleted")
  /\ doomed' = [doomed EXCEPT ![c] = RowsOf(Owner(by[c])) \ {by[c]}]
  /\ UNCHANGED <<live, by, before>>

\* Fault: the error of the commit is not looked at.
ChangeCommitUnchecked(c) ==
  /\ chg[c] = "deleted"
  /\ live' = live \ doomed[c] \/ UNCHANGED live
  /\ ChangeGoto(c, "ok") /\ UNCHANGED <<by, doomed, before>>

\* The commit, acknowledged or not.
ChangeCommit(c) ==
  /\ chg[c] = "deleted"
  /\ live' = live \ doomed[c]
  /\ \/ ChangeGoto(c, "ok") /\ UNCHANGED <<by, doomed, before>>
     \/ ChangeGoto(c, "failed") /\ ChangeForget(c)

ChangeFail(c) ==
  /\ chg[c] \in {"checked", "updated", "deleted"}
  /\ ChangeGoto(c, "failed")
  /\ ChangeForget(c)
  /\ UNCHANGED live

-----------------------------------------------------------------------------
(* Administration *)

\* UPDATE users waits for a password change that has the row.
Disable(u) ==
  /\ u \in accounts \ disabled
  /\ \A c \in Changes : ~HoldsUser(c, u)
  /\ disabled' = disabled \cup {u}
  /\ closing' = closing \cup {u}
  /\ UNCHANGED <<actVars, loginVars, live, changeVars>>

\* DELETE FROM auth_sessions; its error is ignored, and the API may have died.
DisableDelete(u) ==
  /\ u \in closing
  /\ closing' = closing \ {u}
  /\ live' = live \ RowsOf(u) \/ UNCHANGED live
  /\ UNCHANGED <<actVars, disabled, loginVars, changeVars>>

Enable(u) ==
  /\ u \in disabled
  /\ \A c \in Changes : ~HoldsUser(c, u)
  /\ disabled' = disabled \ {u}
  /\ UNCHANGED <<actVars, closing, loginVars, live, changeVars>>

Next ==
  \/ \E i \in Invites : Invite(i)
  \/ \E a \in Acts, i \in Invites, e \in Emails : ActBegin(a, i, e)
  \/ \E a \in Acts : \/ ActClaim(a) \/ ActInsertUser(a) \/ ActInsertRest(a)
                     \/ ActFail(a) \/ ActCommit(a) \/ ActCommitUnacknowledged(a)
                     \/ ActLogin(a)
  \/ \E l \in Logins, u \in Users : LoginVerify(l, u)
  \/ \E l \in Logins : LoginInsert(l)
  \/ \E t \in Tokens : Logout(t)
  \/ \E c \in Changes, t \in Tokens : ChangeBegin(c, t)
  \/ \E c \in Changes : \/ ChangeUpdate(c) \/ ChangeDelete(c) \/ ChangeCommit(c)
                        \/ ChangeFail(c)
  \/ \E u \in Users : Disable(u) \/ DisableDelete(u) \/ Enable(u)

Spec == Init /\ [][Next]_vars

-----------------------------------------------------------------------------
(* Properties *)

\* An invitation makes at most one account, whatever activations race for it
\* or for an email, fail half way or are not told of their success: it is used
\* exactly when it has made an account, that account is whole, and no other has
\* its email; an activation that answers an error has made none, unless the
\* acknowledgement of its commit was lost.
InviteMakesOneAccount ==
  /\ \A i \in Invites : i \in used <=> \E a \in Acts \cap accounts : inv[a] = i
  /\ \A a, b \in Acts \cap accounts : inv[a] = inv[b] => a = b
  /\ \A u, v \in accounts : mail[u] = mail[v] => u = v
  /\ accounts = whole
  /\ \A a \in Acts : /\ act[a] = "refused" /\ a \in accounts => a \in lost
                     /\ act[a] \in {"answered", "loginless"} => a \in accounts

\* docs/user-guide.md:53, other devices' logins are revoked: once a password
\* change has answered ok, none of the logins of its user that had been
\* answered before it began is left but its own, through other changes, logins
\* and disables at the same time.  (A login that was still being checked while
\* the change was made may survive it.)
PasswordChangeCuts ==
  \A c \in Changes : chg[c] = "ok" => before[c] \cap live = {}
=============================================================================
