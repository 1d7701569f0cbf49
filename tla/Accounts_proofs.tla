---------------------------- MODULE Accounts_proofs ----------------------------
(***************************************************************************)
(* Proofs about Accounts, for any number of users, requests, invitations   *)
(* and emails: what the transactions hold locked makes their commits       *)
(* exclusive, and a login row that was answered is never inserted again.   *)
(***************************************************************************)
EXTENDS Accounts, TLAPS

-----------------------------------------------------------------------------
(* The inductive invariant *)

AccountsTyped ==
  /\ used \subseteq Invites /\ accounts \subseteq Users /\ whole \subseteq Users
  /\ lost \subseteq Acts /\ live \subseteq Tokens
  /\ invited \subseteq Invites
  /\ mail \in [Users -> Emails \cup {NoEmail}]
  /\ act \in [Acts -> {"free", "begun", "claimed", "inserted", "whole", "committed",
                       "answered", "loginless", "refused"}]
  /\ inv \in [Acts -> Invites \cup {NoInvite}]

LoginsTyped ==
  /\ login \in [Logins -> {"free", "verified", "answered", "failed"}]
  /\ who \in [Logins -> Users \cup {NoUser}]

ChangesTyped ==
  /\ chg \in [Changes -> {"free", "checked", "updated", "deleted", "ok", "failed"}]
  /\ by \in [Changes -> Tokens \cup {NoLogin}]
  /\ doomed \in [Changes -> SUBSET Tokens]
  /\ before \in [Changes -> SUBSET Tokens]

\* Where an activation is says whether it has made an account, and from what.
ActPlaces ==
  \A a \in Acts :
    /\ act[a] \in {"free", "begun", "claimed", "inserted", "whole"} => a \notin accounts
    /\ act[a] \in {"committed", "answered", "loginless"} => a \in accounts
    /\ act[a] = "refused" /\ a \in accounts => a \in lost
    /\ act[a] # "free" => inv[a] \in Invites /\ mail[a] \in Emails

\* An invitation or an email that a transaction holds is not taken, and held
\* by no other.
KeysHeld ==
  \A a, b \in Acts :
    /\ act[a] \in {"claimed", "inserted", "whole"} =>
         /\ inv[a] \notin used
         /\ HoldsInvite(b, inv[a]) => a = b
    /\ act[a] \in {"inserted", "whole"} =>
         /\ \A u \in accounts : mail[u] # mail[a]
         /\ HoldsEmail(b, mail[a]) => a = b

\* The invitations and emails of the accounts.
KeysTaken ==
  /\ \A i \in Invites : i \in used <=> \E a \in Acts \cap accounts : inv[a] = i
  /\ \A a, b \in Acts \cap accounts : inv[a] = inv[b] => a = b
  /\ \A u, v \in accounts : mail[u] = mail[v] => u = v
  /\ accounts = whole

ActInv == AccountsTyped /\ ActPlaces /\ KeysHeld /\ KeysTaken

\* A login that has been answered is not inserted any more.
Answered(t) == IF t \in Acts THEN act[t] = "answered" ELSE login[t] = "answered"
RowsAnswered == \A t \in live : Answered(t)

\* A change acts for a login that was answered, on logins that were answered,
\* and its DELETE meets all of those that are left.
CutsBegun ==
  \A c \in Changes :
    /\ \A t \in before[c] : Answered(t)
    /\ chg[c] \in {"checked", "updated", "deleted"} =>
         /\ by[c] \in Tokens /\ Answered(by[c])
         /\ \A t \in before[c] : Owner(t) = Owner(by[c]) /\ t # by[c]
    /\ chg[c] = "deleted" => before[c] \cap live \subseteq doomed[c]
    /\ chg[c] = "ok" => before[c] \cap live = {}

LoginInv == LoginsTyped /\ ChangesTyped /\ RowsAnswered /\ CutsBegun
IInv == ActInv /\ LoginInv

-----------------------------------------------------------------------------
(* Accounts *)

\* Every step keeps the types of the accounts.
LEMMA ActTyping ==
  ASSUME AccountsTyped, ActPlaces, Next
  PROVE  AccountsTyped'
<1>1. ASSUME NEW i \in Invites, Invite(i) PROVE AccountsTyped'
  BY <1>1 DEF Invite, loginVars, changeVars, AccountsTyped, ActPlaces, Users, Tokens
<1>2. ASSUME NEW a \in Acts, NEW i \in Invites, NEW e \in Emails, ActBegin(a, i, e)
      PROVE  AccountsTyped'
  BY <1>2
     DEF ActBegin, ActGoto, loginVars, changeVars, AccountsTyped, ActPlaces, Users,
         Tokens
<1>3. ASSUME NEW a \in Acts, ActClaim(a) PROVE AccountsTyped'
  BY <1>3
     DEF ActClaim, ActGoto, loginVars, changeVars, AccountsTyped, ActPlaces, Users,
         Tokens
<1>4. ASSUME NEW a \in Acts, ActInsertUser(a) PROVE AccountsTyped'
  BY <1>4
     DEF ActInsertUser, ActGoto, loginVars, changeVars, AccountsTyped, ActPlaces,
         Users, Tokens
<1>5. ASSUME NEW a \in Acts, ActInsertRest(a) PROVE AccountsTyped'
  BY <1>5
     DEF ActInsertRest, ActGoto, loginVars, changeVars, AccountsTyped, ActPlaces,
         Users, Tokens
<1>6. ASSUME NEW a \in Acts, ActFail(a) PROVE AccountsTyped'
  BY <1>6
     DEF ActFail, ActGoto, loginVars, changeVars, AccountsTyped, ActPlaces, Users,
         Tokens
<1>7. ASSUME NEW a \in Acts, ActCommit(a) PROVE AccountsTyped'
  BY <1>7
     DEF ActCommit, ActGoto, ActTakesEffect, loginVars, changeVars, AccountsTyped,
         ActPlaces, Users, Tokens
<1>8. ASSUME NEW a \in Acts, ActCommitUnacknowledged(a) PROVE AccountsTyped'
  BY <1>8
     DEF ActCommitUnacknowledged, ActGoto, ActTakesEffect, loginVars, changeVars,
         AccountsTyped, ActPlaces, Users, Tokens
<1>9. ASSUME NEW a \in Acts, ActLogin(a) PROVE AccountsTyped'
  BY <1>9
     DEF ActLogin, ActGoto, loginVars, changeVars, AccountsTyped, ActPlaces, Users,
         Tokens
<1>10. ASSUME NEW l \in Logins, NEW u \in Users, LoginVerify(l, u)
      PROVE  AccountsTyped'
  BY <1>10
     DEF LoginVerify, actVars, changeVars, AccountsTyped, ActPlaces, Users, Tokens
<1>11. ASSUME NEW l \in Logins, LoginInsert(l) PROVE AccountsTyped'
  BY <1>11
     DEF LoginInsert, actVars, changeVars, AccountsTyped, ActPlaces, Users, Tokens
<1>12. ASSUME NEW t \in Tokens, Logout(t) PROVE AccountsTyped'
  BY <1>12
     DEF Logout, actVars, loginVars, changeVars, AccountsTyped, ActPlaces, Users,
         Tokens
<1>13. ASSUME NEW c \in Changes, NEW t \in Tokens, ChangeBegin(c, t)
      PROVE  AccountsTyped'
  BY <1>13
     DEF ChangeBegin, ChangeGoto, actVars, loginVars, AccountsTyped, ActPlaces,
         Users, Tokens
<1>14. ASSUME NEW c \in Changes, ChangeUpdate(c) PROVE AccountsTyped'
  BY <1>14
     DEF ChangeUpdate, ChangeGoto, actVars, loginVars, AccountsTyped, ActPlaces,
         Users, Tokens
<1>15. ASSUME NEW c \in Changes, ChangeDelete(c) PROVE AccountsTyped'
  BY <1>15
     DEF ChangeDelete, ChangeGoto, actVars, loginVars, AccountsTyped, ActPlaces,
         Users, Tokens
<1>16. ASSUME NEW c \in Changes, ChangeCommit(c) PROVE AccountsTyped'
  BY <1>16
     DEF ChangeCommit, ChangeGoto, ChangeForget, actVars, loginVars, AccountsTyped,
         ActPlaces, Users, Tokens
<1>17. ASSUME NEW c \in Changes, ChangeFail(c) PROVE AccountsTyped'
  BY <1>17
     DEF ChangeFail, ChangeGoto, ChangeForget, actVars, loginVars, AccountsTyped,
         ActPlaces, Users, Tokens
<1>18. ASSUME NEW u \in Users, Disable(u) PROVE AccountsTyped'
  BY <1>18
     DEF Disable, actVars, loginVars, changeVars, AccountsTyped, ActPlaces, Users,
         Tokens
<1>19. ASSUME NEW u \in Users, DisableDelete(u) PROVE AccountsTyped'
  BY <1>19
     DEF DisableDelete, actVars, loginVars, changeVars, AccountsTyped, ActPlaces,
         Users, Tokens
<1>20. ASSUME NEW u \in Users, Enable(u) PROVE AccountsTyped'
  BY <1>20
     DEF Enable, actVars, loginVars, changeVars, AccountsTyped, ActPlaces, Users,
         Tokens
<1> QED
  BY <1>1, <1>2, <1>3, <1>4, <1>5, <1>6, <1>7, <1>8, <1>9, <1>10, <1>11, <1>12,
     <1>13, <1>14, <1>15, <1>16, <1>17, <1>18, <1>19, <1>20
     DEF Next

\* Only activations change the accounts and what they are made from.
LEMMA Untouched ==
  ASSUME Next, \A a \in Acts, i \in Invites, e \in Emails : ~ActBegin(a, i, e),
         \A a \in Acts : /\ ~ActClaim(a) /\ ~ActInsertUser(a) /\ ~ActInsertRest(a)
                        /\ ~ActFail(a) /\ ~ActCommit(a)
                        /\ ~ActCommitUnacknowledged(a) /\ ~ActLogin(a)
  PROVE  UNCHANGED <<used, accounts, whole, mail, act, inv, lost>>
  BY DEF Next, Invite, LoginVerify, LoginInsert, Logout, ChangeBegin, ChangeUpdate,
         ChangeDelete, ChangeCommit, ChangeFail, Disable, DisableDelete, Enable,
         ChangeGoto, ChangeForget, actVars

\* Every step keeps what the place of an activation says.
LEMMA ActPlacing ==
  ASSUME AccountsTyped, ActPlaces, Next
  PROVE  ActPlaces'
<1>1. ASSUME NEW a \in Acts, NEW i \in Invites, NEW e \in Emails, ActBegin(a, i, e)
      PROVE  ActPlaces'
  BY <1>1
     DEF ActBegin, ActGoto, loginVars, changeVars, AccountsTyped, ActPlaces, Users
<1>2. ASSUME NEW a \in Acts, ActClaim(a) PROVE ActPlaces'
  BY <1>2
     DEF ActClaim, ActGoto, loginVars, changeVars, AccountsTyped, ActPlaces, Users
<1>3. ASSUME NEW a \in Acts, ActInsertUser(a) PROVE ActPlaces'
  BY <1>3
     DEF ActInsertUser, ActGoto, loginVars, changeVars, AccountsTyped, ActPlaces,
         Users
<1>4. ASSUME NEW a \in Acts, ActInsertRest(a) PROVE ActPlaces'
  BY <1>4
     DEF ActInsertRest, ActGoto, loginVars, changeVars, AccountsTyped, ActPlaces,
         Users
<1>5. ASSUME NEW a \in Acts, ActFail(a) PROVE ActPlaces'
  BY <1>5
     DEF ActFail, ActGoto, loginVars, changeVars, AccountsTyped, ActPlaces, Users
<1>6. ASSUME NEW a \in Acts, ActCommit(a) PROVE ActPlaces'
  BY <1>6
     DEF ActCommit, ActGoto, ActTakesEffect, loginVars, changeVars, AccountsTyped,
         ActPlaces, Users
<1>7. ASSUME NEW a \in Acts, ActCommitUnacknowledged(a) PROVE ActPlaces'
  BY <1>7
     DEF ActCommitUnacknowledged, ActGoto, ActTakesEffect, loginVars, changeVars,
         AccountsTyped, ActPlaces, Users
<1>8. ASSUME NEW a \in Acts, ActLogin(a) PROVE ActPlaces'
  BY <1>8
     DEF ActLogin, ActGoto, loginVars, changeVars, AccountsTyped, ActPlaces, Users
<1>9. ASSUME UNCHANGED <<used, accounts, whole, mail, act, inv, lost>>
      PROVE  ActPlaces'
  BY <1>9 DEF AccountsTyped, ActPlaces, Users
<1> QED
  BY <1>1, <1>2, <1>3, <1>4, <1>5, <1>6, <1>7, <1>8, <1>9, Untouched DEF Next

\* Every step leaves the keys of a transaction to it alone.
LEMMA ActHolding ==
  ASSUME AccountsTyped, ActPlaces, KeysHeld, Next
  PROVE  KeysHeld'
<1>1. ASSUME NEW a \in Acts, NEW i \in Invites, NEW e \in Emails, ActBegin(a, i, e)
      PROVE  KeysHeld'
  BY <1>1
     DEF ActBegin, ActGoto, loginVars, changeVars, AccountsTyped, ActPlaces,
         KeysHeld, Users, HoldsInvite, HoldsEmail
<1>2. ASSUME NEW a \in Acts, ActClaim(a) PROVE KeysHeld'
  BY <1>2
     DEF ActClaim, ActGoto, loginVars, changeVars, AccountsTyped, ActPlaces,
         KeysHeld, Users, HoldsInvite, HoldsEmail
<1>3. ASSUME NEW a \in Acts, ActInsertUser(a) PROVE KeysHeld'
  BY <1>3
     DEF ActInsertUser, ActGoto, loginVars, changeVars, AccountsTyped, ActPlaces,
         KeysHeld, Users, HoldsInvite, HoldsEmail
<1>4. ASSUME NEW a \in Acts, ActInsertRest(a) PROVE KeysHeld'
  BY <1>4
     DEF ActInsertRest, ActGoto, loginVars, changeVars, AccountsTyped, ActPlaces,
         KeysHeld, Users, HoldsInvite, HoldsEmail
<1>5. ASSUME NEW a \in Acts, ActFail(a) PROVE KeysHeld'
  BY <1>5
     DEF ActFail, ActGoto, loginVars, changeVars, AccountsTyped, ActPlaces,
         KeysHeld, Users, HoldsInvite, HoldsEmail
<1>6. ASSUME NEW a \in Acts, ActCommit(a) PROVE KeysHeld'
  BY <1>6
     DEF ActCommit, ActGoto, ActTakesEffect, loginVars, changeVars, AccountsTyped,
         ActPlaces, KeysHeld, Users, HoldsInvite, HoldsEmail
<1>7. ASSUME NEW a \in Acts, ActCommitUnacknowledged(a) PROVE KeysHeld'
  BY <1>7
     DEF ActCommitUnacknowledged, ActGoto, ActTakesEffect, loginVars, changeVars,
         AccountsTyped, ActPlaces, KeysHeld, Users, HoldsInvite, HoldsEmail
<1>8. ASSUME NEW a \in Acts, ActLogin(a) PROVE KeysHeld'
  BY <1>8
     DEF ActLogin, ActGoto, loginVars, changeVars, AccountsTyped, ActPlaces,
         KeysHeld, Users, HoldsInvite, HoldsEmail
<1>9. ASSUME UNCHANGED <<used, accounts, whole, mail, act, inv, lost>>
      PROVE  KeysHeld'
  BY <1>9 DEF AccountsTyped, ActPlaces, KeysHeld, Users, HoldsInvite, HoldsEmail
<1> QED
  BY <1>1, <1>2, <1>3, <1>4, <1>5, <1>6, <1>7, <1>8, <1>9, Untouched DEF Next

\* Every step leaves each invitation and each email to one account.
LEMMA ActTaking ==
  ASSUME AccountsTyped, ActPlaces, KeysHeld, KeysTaken, Next
  PROVE  KeysTaken'
<1>1. ASSUME NEW a \in Acts, NEW i \in Invites, NEW e \in Emails, ActBegin(a, i, e)
      PROVE  KeysTaken'
  BY <1>1
     DEF ActBegin, ActGoto, loginVars, changeVars, AccountsTyped, ActPlaces,
         KeysHeld, KeysTaken, Users, HoldsInvite, HoldsEmail
<1>2. ASSUME NEW a \in Acts, ActClaim(a) PROVE KeysTaken'
  BY <1>2
     DEF ActClaim, ActGoto, loginVars, changeVars, AccountsTyped, ActPlaces,
         KeysHeld, KeysTaken, Users, HoldsInvite, HoldsEmail
<1>3. ASSUME NEW a \in Acts, ActInsertUser(a) PROVE KeysTaken'
  BY <1>3
     DEF ActInsertUser, ActGoto, loginVars, changeVars, AccountsTyped, ActPlaces,
         KeysHeld, KeysTaken, Users, HoldsInvite, HoldsEmail
<1>4. ASSUME NEW a \in Acts, ActInsertRest(a) PROVE KeysTaken'
  BY <1>4
     DEF ActInsertRest, ActGoto, loginVars, changeVars, AccountsTyped, ActPlaces,
         KeysHeld, KeysTaken, Users, HoldsInvite, HoldsEmail
<1>5. ASSUME NEW a \in Acts, ActFail(a) PROVE KeysTaken'
  BY <1>5
     DEF ActFail, ActGoto, loginVars, changeVars, AccountsTyped, ActPlaces,
         KeysHeld, KeysTaken, Users, HoldsInvite, HoldsEmail
<1>6. ASSUME NEW a \in Acts, ActCommit(a) PROVE KeysTaken'
  BY <1>6
     DEF ActCommit, ActGoto, ActTakesEffect, loginVars, changeVars, AccountsTyped,
         ActPlaces, KeysHeld, KeysTaken, Users, HoldsInvite, HoldsEmail
<1>7. ASSUME NEW a \in Acts, ActCommitUnacknowledged(a) PROVE KeysTaken'
  BY <1>7
     DEF ActCommitUnacknowledged, ActGoto, ActTakesEffect, loginVars, changeVars,
         AccountsTyped, ActPlaces, KeysHeld, KeysTaken, Users, HoldsInvite,
         HoldsEmail
<1>8. ASSUME NEW a \in Acts, ActLogin(a) PROVE KeysTaken'
  BY <1>8
     DEF ActLogin, ActGoto, loginVars, changeVars, AccountsTyped, ActPlaces,
         KeysHeld, KeysTaken, Users, HoldsInvite, HoldsEmail
<1>9. ASSUME UNCHANGED <<used, accounts, whole, mail, act, inv, lost>>
      PROVE  KeysTaken'
  BY <1>9
     DEF AccountsTyped, ActPlaces, KeysHeld, KeysTaken, Users, HoldsInvite,
         HoldsEmail
<1> QED
  BY <1>1, <1>2, <1>3, <1>4, <1>5, <1>6, <1>7, <1>8, <1>9, Untouched DEF Next

-----------------------------------------------------------------------------
(* Logins and password changes *)

\* Every step keeps the types of the logins.
LEMMA LoginTyping ==
  ASSUME LoginsTyped, Next
  PROVE  LoginsTyped'
<1>1. ASSUME NEW i \in Invites, Invite(i) PROVE LoginsTyped'
  BY <1>1 DEF Invite, loginVars, changeVars, LoginsTyped, Users
<1>2. ASSUME NEW a \in Acts, NEW i \in Invites, NEW e \in Emails, ActBegin(a, i, e)
      PROVE  LoginsTyped'
  BY <1>2 DEF ActBegin, ActGoto, loginVars, changeVars, LoginsTyped, Users
<1>3. ASSUME NEW a \in Acts, ActClaim(a) PROVE LoginsTyped'
  BY <1>3 DEF ActClaim, ActGoto, loginVars, changeVars, LoginsTyped, Users
<1>4. ASSUME NEW a \in Acts, ActInsertUser(a) PROVE LoginsTyped'
  BY <1>4 DEF ActInsertUser, ActGoto, loginVars, changeVars, LoginsTyped, Users
<1>5. ASSUME NEW a \in Acts, ActInsertRest(a) PROVE LoginsTyped'
  BY <1>5 DEF ActInsertRest, ActGoto, loginVars, changeVars, LoginsTyped, Users
<1>6. ASSUME NEW a \in Acts, ActFail(a) PROVE LoginsTyped'
  BY <1>6 DEF ActFail, ActGoto, loginVars, changeVars, LoginsTyped, Users
<1>7. ASSUME NEW a \in Acts, ActCommit(a) PROVE LoginsTyped'
  BY <1>7
     DEF ActCommit, ActGoto, ActTakesEffect, loginVars, changeVars, LoginsTyped,
         Users
<1>8. ASSUME NEW a \in Acts, ActCommitUnacknowledged(a) PROVE LoginsTyped'
  BY <1>8
     DEF ActCommitUnacknowledged, ActGoto, ActTakesEffect, loginVars, changeVars,
         LoginsTyped, Users
<1>9. ASSUME NEW a \in Acts, ActLogin(a) PROVE LoginsTyped'
  BY <1>9 DEF ActLogin, ActGoto, loginVars, changeVars, LoginsTyped, Users
<1>10. ASSUME NEW l \in Logins, NEW u \in Users, LoginVerify(l, u)
      PROVE  LoginsTyped'
  BY <1>10 DEF LoginVerify, actVars, changeVars, LoginsTyped, Users
<1>11. ASSUME NEW l \in Logins, LoginInsert(l) PROVE LoginsTyped'
  BY <1>11 DEF LoginInsert, actVars, changeVars, LoginsTyped, Users
<1>12. ASSUME NEW t \in Tokens, Logout(t) PROVE LoginsTyped'
  BY <1>12 DEF Logout, actVars, loginVars, changeVars, LoginsTyped, Users
<1>13. ASSUME NEW c \in Changes, NEW t \in Tokens, ChangeBegin(c, t)
      PROVE  LoginsTyped'
  BY <1>13 DEF ChangeBegin, ChangeGoto, actVars, loginVars, LoginsTyped, Users
<1>14. ASSUME NEW c \in Changes, ChangeUpdate(c) PROVE LoginsTyped'
  BY <1>14 DEF ChangeUpdate, ChangeGoto, actVars, loginVars, LoginsTyped, Users
<1>15. ASSUME NEW c \in Changes, ChangeDelete(c) PROVE LoginsTyped'
  BY <1>15 DEF ChangeDelete, ChangeGoto, actVars, loginVars, LoginsTyped, Users
<1>16. ASSUME NEW c \in Changes, ChangeCommit(c) PROVE LoginsTyped'
  BY <1>16
     DEF ChangeCommit, ChangeGoto, ChangeForget, actVars, loginVars, LoginsTyped,
         Users
<1>17. ASSUME NEW c \in Changes, ChangeFail(c) PROVE LoginsTyped'
  BY <1>17
     DEF ChangeFail, ChangeGoto, ChangeForget, actVars, loginVars, LoginsTyped,
         Users
<1>18. ASSUME NEW u \in Users, Disable(u) PROVE LoginsTyped'
  BY <1>18 DEF Disable, actVars, loginVars, changeVars, LoginsTyped, Users
<1>19. ASSUME NEW u \in Users, DisableDelete(u) PROVE LoginsTyped'
  BY <1>19 DEF DisableDelete, actVars, loginVars, changeVars, LoginsTyped, Users
<1>20. ASSUME NEW u \in Users, Enable(u) PROVE LoginsTyped'
  BY <1>20 DEF Enable, actVars, loginVars, changeVars, LoginsTyped, Users
<1> QED
  BY <1>1, <1>2, <1>3, <1>4, <1>5, <1>6, <1>7, <1>8, <1>9, <1>10, <1>11, <1>12,
     <1>13, <1>14, <1>15, <1>16, <1>17, <1>18, <1>19, <1>20
     DEF Next

\* Every step keeps the types of the password changes.
LEMMA ChangeTyping ==
  ASSUME AccountsTyped, ChangesTyped, Next
  PROVE  ChangesTyped'
<1>1. ASSUME NEW i \in Invites, Invite(i) PROVE ChangesTyped'
  BY <1>1 DEF Invite, loginVars, changeVars, AccountsTyped, ChangesTyped, RowsOf
<1>2. ASSUME NEW a \in Acts, NEW i \in Invites, NEW e \in Emails, ActBegin(a, i, e)
      PROVE  ChangesTyped'
  BY <1>2
     DEF ActBegin, ActGoto, loginVars, changeVars, AccountsTyped, ChangesTyped,
         RowsOf
<1>3. ASSUME NEW a \in Acts, ActClaim(a) PROVE ChangesTyped'
  BY <1>3
     DEF ActClaim, ActGoto, loginVars, changeVars, AccountsTyped, ChangesTyped,
         RowsOf
<1>4. ASSUME NEW a \in Acts, ActInsertUser(a) PROVE ChangesTyped'
  BY <1>4
     DEF ActInsertUser, ActGoto, loginVars, changeVars, AccountsTyped, ChangesTyped,
         RowsOf
<1>5. ASSUME NEW a \in Acts, ActInsertRest(a) PROVE ChangesTyped'
  BY <1>5
     DEF ActInsertRest, ActGoto, loginVars, changeVars, AccountsTyped, ChangesTyped,
         RowsOf
<1>6. ASSUME NEW a \in Acts, ActFail(a) PROVE ChangesTyped'
  BY <1>6
     DEF ActFail, ActGoto, loginVars, changeVars, AccountsTyped, ChangesTyped,
         RowsOf
<1>7. ASSUME NEW a \in Acts, ActCommit(a) PROVE ChangesTyped'
  BY <1>7
     DEF ActCommit, ActGoto, ActTakesEffect, loginVars, changeVars, AccountsTyped,
         ChangesTyped, RowsOf
<1>8. ASSUME NEW a \in Acts, ActCommitUnacknowledged(a) PROVE ChangesTyped'
  BY <1>8
     DEF ActCommitUnacknowledged, ActGoto, ActTakesEffect, loginVars, changeVars,
         AccountsTyped, ChangesTyped, RowsOf
<1>9. ASSUME NEW a \in Acts, ActLogin(a) PROVE ChangesTyped'
  BY <1>9
     DEF ActLogin, ActGoto, loginVars, changeVars, AccountsTyped, ChangesTyped,
         RowsOf
<1>10. ASSUME NEW l \in Logins, NEW u \in Users, LoginVerify(l, u)
      PROVE  ChangesTyped'
  BY <1>10 DEF LoginVerify, actVars, changeVars, AccountsTyped, ChangesTyped, RowsOf
<1>11. ASSUME NEW l \in Logins, LoginInsert(l) PROVE ChangesTyped'
  BY <1>11 DEF LoginInsert, actVars, changeVars, AccountsTyped, ChangesTyped, RowsOf
<1>12. ASSUME NEW t \in Tokens, Logout(t) PROVE ChangesTyped'
  BY <1>12
     DEF Logout, actVars, loginVars, changeVars, AccountsTyped, ChangesTyped, RowsOf
<1>13. ASSUME NEW c \in Changes, NEW t \in Tokens, ChangeBegin(c, t)
      PROVE  ChangesTyped'
  BY <1>13
     DEF ChangeBegin, ChangeGoto, actVars, loginVars, AccountsTyped, ChangesTyped,
         RowsOf
<1>14. ASSUME NEW c \in Changes, ChangeUpdate(c) PROVE ChangesTyped'
  BY <1>14
     DEF ChangeUpdate, ChangeGoto, actVars, loginVars, AccountsTyped, ChangesTyped,
         RowsOf
<1>15. ASSUME NEW c \in Changes, ChangeDelete(c) PROVE ChangesTyped'
  BY <1>15
     DEF ChangeDelete, ChangeGoto, actVars, loginVars, AccountsTyped, ChangesTyped,
         RowsOf
<1>16. ASSUME NEW c \in Changes, ChangeCommit(c) PROVE ChangesTyped'
  BY <1>16
     DEF ChangeCommit, ChangeGoto, ChangeForget, actVars, loginVars, AccountsTyped,
         ChangesTyped, RowsOf
<1>17. ASSUME NEW c \in Changes, ChangeFail(c) PROVE ChangesTyped'
  BY <1>17
     DEF ChangeFail, ChangeGoto, ChangeForget, actVars, loginVars, AccountsTyped,
         ChangesTyped, RowsOf
<1>18. ASSUME NEW u \in Users, Disable(u) PROVE ChangesTyped'
  BY <1>18
     DEF Disable, actVars, loginVars, changeVars, AccountsTyped, ChangesTyped,
         RowsOf
<1>19. ASSUME NEW u \in Users, DisableDelete(u) PROVE ChangesTyped'
  BY <1>19
     DEF DisableDelete, actVars, loginVars, changeVars, AccountsTyped, ChangesTyped,
         RowsOf
<1>20. ASSUME NEW u \in Users, Enable(u) PROVE ChangesTyped'
  BY <1>20
     DEF Enable, actVars, loginVars, changeVars, AccountsTyped, ChangesTyped, RowsOf
<1> QED
  BY <1>1, <1>2, <1>3, <1>4, <1>5, <1>6, <1>7, <1>8, <1>9, <1>10, <1>11, <1>12,
     <1>13, <1>14, <1>15, <1>16, <1>17, <1>18, <1>19, <1>20
     DEF Next

\* Every step leaves only the rows of logins that were answered.
LEMMA RowsAnswering ==
  ASSUME AccountsTyped, LoginsTyped, RowsAnswered, Next
  PROVE  RowsAnswered'
<1>1. ASSUME NEW i \in Invites, Invite(i) PROVE RowsAnswered'
  BY <1>1, KindsAssumption
     DEF Invite, loginVars, changeVars, AccountsTyped, LoginsTyped, RowsAnswered,
         Answered, Tokens
<1>2. ASSUME NEW a \in Acts, NEW i \in Invites, NEW e \in Emails, ActBegin(a, i, e)
      PROVE  RowsAnswered'
  BY <1>2, KindsAssumption
     DEF ActBegin, ActGoto, loginVars, changeVars, AccountsTyped, LoginsTyped,
         RowsAnswered, Answered, Tokens
<1>3. ASSUME NEW a \in Acts, ActClaim(a) PROVE RowsAnswered'
  BY <1>3, KindsAssumption
     DEF ActClaim, ActGoto, loginVars, changeVars, AccountsTyped, LoginsTyped,
         RowsAnswered, Answered, Tokens
<1>4. ASSUME NEW a \in Acts, ActInsertUser(a) PROVE RowsAnswered'
  BY <1>4, KindsAssumption
     DEF ActInsertUser, ActGoto, loginVars, changeVars, AccountsTyped, LoginsTyped,
         RowsAnswered, Answered, Tokens
<1>5. ASSUME NEW a \in Acts, ActInsertRest(a) PROVE RowsAnswered'
  BY <1>5, KindsAssumption
     DEF ActInsertRest, ActGoto, loginVars, changeVars, AccountsTyped, LoginsTyped,
         RowsAnswered, Answered, Tokens
<1>6. ASSUME NEW a \in Acts, ActFail(a) PROVE RowsAnswered'
  BY <1>6, KindsAssumption
     DEF ActFail, ActGoto, loginVars, changeVars, AccountsTyped, LoginsTyped,
         RowsAnswered, Answered, Tokens
<1>7. ASSUME NEW a \in Acts, ActCommit(a) PROVE RowsAnswered'
  BY <1>7, KindsAssumption
     DEF ActCommit, ActGoto, ActTakesEffect, loginVars, changeVars, AccountsTyped,
         LoginsTyped, RowsAnswered, Answered, Tokens
<1>8. ASSUME NEW a \in Acts, ActCommitUnacknowledged(a) PROVE RowsAnswered'
  BY <1>8, KindsAssumption
     DEF ActCommitUnacknowledged, ActGoto, ActTakesEffect, loginVars, changeVars,
         AccountsTyped, LoginsTyped, RowsAnswered, Answered, Tokens
<1>9. ASSUME NEW a \in Acts, ActLogin(a) PROVE RowsAnswered'
  BY <1>9, KindsAssumption
     DEF ActLogin, ActGoto, loginVars, changeVars, AccountsTyped, LoginsTyped,
         RowsAnswered, Answered, Tokens
<1>10. ASSUME NEW l \in Logins, NEW u \in Users, LoginVerify(l, u)
      PROVE  RowsAnswered'
  BY <1>10, KindsAssumption
     DEF LoginVerify, actVars, changeVars, AccountsTyped, LoginsTyped, RowsAnswered,
         Answered, Tokens
<1>11. ASSUME NEW l \in Logins, LoginInsert(l) PROVE RowsAnswered'
  BY <1>11, KindsAssumption
     DEF LoginInsert, actVars, changeVars, AccountsTyped, LoginsTyped, RowsAnswered,
         Answered, Tokens
<1>12. ASSUME NEW t \in Tokens, Logout(t) PROVE RowsAnswered'
  BY <1>12, KindsAssumption
     DEF Logout, actVars, loginVars, changeVars, AccountsTyped, LoginsTyped,
         RowsAnswered, Answered, Tokens
<1>13. ASSUME NEW c \in Changes, NEW t \in Tokens, ChangeBegin(c, t)
      PROVE  RowsAnswered'
  BY <1>13, KindsAssumption
     DEF ChangeBegin, ChangeGoto, actVars, loginVars, AccountsTyped, LoginsTyped,
         RowsAnswered, Answered, Tokens
<1>14. ASSUME NEW c \in Changes, ChangeUpdate(c) PROVE RowsAnswered'
  BY <1>14, KindsAssumption
     DEF ChangeUpdate, ChangeGoto, actVars, loginVars, AccountsTyped, LoginsTyped,
         RowsAnswered, Answered, Tokens
<1>15. ASSUME NEW c \in Changes, ChangeDelete(c) PROVE RowsAnswered'
  BY <1>15, KindsAssumption
     DEF ChangeDelete, ChangeGoto, actVars, loginVars, AccountsTyped, LoginsTyped,
         RowsAnswered, Answered, Tokens
<1>16. ASSUME NEW c \in Changes, ChangeCommit(c) PROVE RowsAnswered'
  BY <1>16, KindsAssumption
     DEF ChangeCommit, ChangeGoto, ChangeForget, actVars, loginVars, AccountsTyped,
         LoginsTyped, RowsAnswered, Answered, Tokens
<1>17. ASSUME NEW c \in Changes, ChangeFail(c) PROVE RowsAnswered'
  BY <1>17, KindsAssumption
     DEF ChangeFail, ChangeGoto, ChangeForget, actVars, loginVars, AccountsTyped,
         LoginsTyped, RowsAnswered, Answered, Tokens
<1>18. ASSUME NEW u \in Users, Disable(u) PROVE RowsAnswered'
  BY <1>18, KindsAssumption
     DEF Disable, actVars, loginVars, changeVars, AccountsTyped, LoginsTyped,
         RowsAnswered, Answered, Tokens
<1>19. ASSUME NEW u \in Users, DisableDelete(u) PROVE RowsAnswered'
  BY <1>19, KindsAssumption
     DEF DisableDelete, actVars, loginVars, changeVars, AccountsTyped, LoginsTyped,
         RowsAnswered, Answered, Tokens
<1>20. ASSUME NEW u \in Users, Enable(u) PROVE RowsAnswered'
  BY <1>20, KindsAssumption
     DEF Enable, actVars, loginVars, changeVars, AccountsTyped, LoginsTyped,
         RowsAnswered, Answered, Tokens
<1> QED
  BY <1>1, <1>2, <1>3, <1>4, <1>5, <1>6, <1>7, <1>8, <1>9, <1>10, <1>11, <1>12,
     <1>13, <1>14, <1>15, <1>16, <1>17, <1>18, <1>19, <1>20
     DEF Next

\* Every step keeps what a password change will cut.
LEMMA Cutting ==
  ASSUME AccountsTyped, LoginsTyped, ChangesTyped, RowsAnswered, CutsBegun, Next
  PROVE  CutsBegun'
<1>1. ASSUME NEW i \in Invites, Invite(i) PROVE CutsBegun'
  BY <1>1, KindsAssumption
     DEF Invite, loginVars, changeVars, AccountsTyped, LoginsTyped, ChangesTyped,
         RowsAnswered, CutsBegun, Answered, Owner, RowsOf, Tokens
<1>2. ASSUME NEW a \in Acts, NEW i \in Invites, NEW e \in Emails, ActBegin(a, i, e)
      PROVE  CutsBegun'
  BY <1>2, KindsAssumption
     DEF ActBegin, ActGoto, loginVars, changeVars, AccountsTyped, LoginsTyped,
         ChangesTyped, RowsAnswered, CutsBegun, Answered, Owner, RowsOf, Tokens
<1>3. ASSUME NEW a \in Acts, ActClaim(a) PROVE CutsBegun'
  BY <1>3, KindsAssumption
     DEF ActClaim, ActGoto, loginVars, changeVars, AccountsTyped, LoginsTyped,
         ChangesTyped, RowsAnswered, CutsBegun, Answered, Owner, RowsOf, Tokens
<1>4. ASSUME NEW a \in Acts, ActInsertUser(a) PROVE CutsBegun'
  BY <1>4, KindsAssumption
     DEF ActInsertUser, ActGoto, loginVars, changeVars, AccountsTyped, LoginsTyped,
         ChangesTyped, RowsAnswered, CutsBegun, Answered, Owner, RowsOf, Tokens
<1>5. ASSUME NEW a \in Acts, ActInsertRest(a) PROVE CutsBegun'
  BY <1>5, KindsAssumption
     DEF ActInsertRest, ActGoto, loginVars, changeVars, AccountsTyped, LoginsTyped,
         ChangesTyped, RowsAnswered, CutsBegun, Answered, Owner, RowsOf, Tokens
<1>6. ASSUME NEW a \in Acts, ActFail(a) PROVE CutsBegun'
  BY <1>6, KindsAssumption
     DEF ActFail, ActGoto, loginVars, changeVars, AccountsTyped, LoginsTyped,
         ChangesTyped, RowsAnswered, CutsBegun, Answered, Owner, RowsOf, Tokens
<1>7. ASSUME NEW a \in Acts, ActCommit(a) PROVE CutsBegun'
  BY <1>7, KindsAssumption
     DEF ActCommit, ActGoto, ActTakesEffect, loginVars, changeVars, AccountsTyped,
         LoginsTyped, ChangesTyped, RowsAnswered, CutsBegun, Answered, Owner,
         RowsOf, Tokens
<1>8. ASSUME NEW a \in Acts, ActCommitUnacknowledged(a) PROVE CutsBegun'
  BY <1>8, KindsAssumption
     DEF ActCommitUnacknowledged, ActGoto, ActTakesEffect, loginVars, changeVars,
         AccountsTyped, LoginsTyped, ChangesTyped, RowsAnswered, CutsBegun,
         Answered, Owner, RowsOf, Tokens
<1>9. ASSUME NEW a \in Acts, ActLogin(a) PROVE CutsBegun'
  BY <1>9, KindsAssumption
     DEF ActLogin, ActGoto, loginVars, changeVars, AccountsTyped, LoginsTyped,
         ChangesTyped, RowsAnswered, CutsBegun, Answered, Owner, RowsOf, Tokens
<1>10. ASSUME NEW l \in Logins, NEW u \in Users, LoginVerify(l, u) PROVE CutsBegun'
  BY <1>10, KindsAssumption
     DEF LoginVerify, actVars, changeVars, AccountsTyped, LoginsTyped, ChangesTyped,
         RowsAnswered, CutsBegun, Answered, Owner, RowsOf, Tokens
<1>11. ASSUME NEW l \in Logins, LoginInsert(l) PROVE CutsBegun'
  BY <1>11, KindsAssumption
     DEF LoginInsert, actVars, changeVars, AccountsTyped, LoginsTyped, ChangesTyped,
         RowsAnswered, CutsBegun, Answered, Owner, RowsOf, Tokens
<1>12. ASSUME NEW t \in Tokens, Logout(t) PROVE CutsBegun'
  BY <1>12, KindsAssumption
     DEF Logout, actVars, loginVars, changeVars, AccountsTyped, LoginsTyped,
         ChangesTyped, RowsAnswered, CutsBegun, Answered, Owner, RowsOf, Tokens
<1>13. ASSUME NEW c \in Changes, NEW t \in Tokens, ChangeBegin(c, t)
      PROVE  CutsBegun'
  BY <1>13, KindsAssumption
     DEF ChangeBegin, ChangeGoto, actVars, loginVars, AccountsTyped, LoginsTyped,
         ChangesTyped, RowsAnswered, CutsBegun, Answered, Owner, RowsOf, Tokens
<1>14. ASSUME NEW c \in Changes, ChangeUpdate(c) PROVE CutsBegun'
  BY <1>14, KindsAssumption
     DEF ChangeUpdate, ChangeGoto, actVars, loginVars, AccountsTyped, LoginsTyped,
         ChangesTyped, RowsAnswered, CutsBegun, Answered, Owner, RowsOf, Tokens
<1>15. ASSUME NEW c \in Changes, ChangeDelete(c) PROVE CutsBegun'
  BY <1>15, KindsAssumption
     DEF ChangeDelete, ChangeGoto, actVars, loginVars, AccountsTyped, LoginsTyped,
         ChangesTyped, RowsAnswered, CutsBegun, Answered, Owner, RowsOf, Tokens
<1>16. ASSUME NEW c \in Changes, ChangeCommit(c) PROVE CutsBegun'
  BY <1>16, KindsAssumption
     DEF ChangeCommit, ChangeGoto, ChangeForget, actVars, loginVars, AccountsTyped,
         LoginsTyped, ChangesTyped, RowsAnswered, CutsBegun, Answered, Owner,
         RowsOf, Tokens
<1>17. ASSUME NEW c \in Changes, ChangeFail(c) PROVE CutsBegun'
  BY <1>17, KindsAssumption
     DEF ChangeFail, ChangeGoto, ChangeForget, actVars, loginVars, AccountsTyped,
         LoginsTyped, ChangesTyped, RowsAnswered, CutsBegun, Answered, Owner,
         RowsOf, Tokens
<1>18. ASSUME NEW u \in Users, Disable(u) PROVE CutsBegun'
  BY <1>18, KindsAssumption
     DEF Disable, actVars, loginVars, changeVars, AccountsTyped, LoginsTyped,
         ChangesTyped, RowsAnswered, CutsBegun, Answered, Owner, RowsOf, Tokens
<1>19. ASSUME NEW u \in Users, DisableDelete(u) PROVE CutsBegun'
  BY <1>19, KindsAssumption
     DEF DisableDelete, actVars, loginVars, changeVars, AccountsTyped, LoginsTyped,
         ChangesTyped, RowsAnswered, CutsBegun, Answered, Owner, RowsOf, Tokens
<1>20. ASSUME NEW u \in Users, Enable(u) PROVE CutsBegun'
  BY <1>20, KindsAssumption
     DEF Enable, actVars, loginVars, changeVars, AccountsTyped, LoginsTyped,
         ChangesTyped, RowsAnswered, CutsBegun, Answered, Owner, RowsOf, Tokens
<1> QED
  BY <1>1, <1>2, <1>3, <1>4, <1>5, <1>6, <1>7, <1>8, <1>9, <1>10, <1>11, <1>12,
     <1>13, <1>14, <1>15, <1>16, <1>17, <1>18, <1>19, <1>20
     DEF Next

-----------------------------------------------------------------------------
(* The theorems *)

\* The initial states satisfy the invariant.
LEMMA Initially == Init => IInv
<1> SUFFICES ASSUME Init PROVE IInv
  OBVIOUS
<1>1. AccountsTyped
  BY DEF Init, AccountsTyped, Users, Tokens
<1>2. ActPlaces /\ KeysHeld
  BY KindsAssumption DEF Init, ActPlaces, KeysHeld
<1>3. KeysTaken
  BY KindsAssumption DEF Init, KeysTaken
<1>4. LoginInv
  BY DEF Init, LoginInv, LoginsTyped, ChangesTyped, RowsAnswered, CutsBegun
<1> QED
  BY <1>1, <1>2, <1>3, <1>4 DEF IInv, ActInv

\* Every step preserves the invariant.
LEMMA Preserved == IInv /\ [Next]_vars => IInv'
<1> SUFFICES ASSUME IInv, [Next]_vars PROVE IInv'
  OBVIOUS
<1>1. CASE Next
  BY <1>1, ActTyping, ActPlacing, ActHolding, ActTaking, LoginTyping, ChangeTyping,
     RowsAnswering, Cutting
     DEF IInv, ActInv, LoginInv
<1>2. CASE UNCHANGED vars
  <2>1. ActInv'
    BY <1>2
       DEF vars, actVars, IInv, ActInv, AccountsTyped, ActPlaces, KeysHeld, KeysTaken,
           HoldsInvite, HoldsEmail
  <2>2. LoginInv'
    BY <1>2
       DEF vars, actVars, loginVars, changeVars, IInv, LoginInv, LoginsTyped,
           ChangesTyped, RowsAnswered, CutsBegun, Answered, Owner
  <2> QED
    BY <2>1, <2>2 DEF IInv
<1> QED
  BY <1>1, <1>2

\* The transactions, the rows and the cuts under way stay consistent.
THEOREM AccountsInvariant == Spec => []IInv
  BY Initially, Preserved, PTL DEF Spec

\* An invitation makes at most one account, and it is used exactly when it has.
THEOREM InviteMakesOneAccountHolds == Spec => []InviteMakesOneAccount
<1>1. IInv => InviteMakesOneAccount
  BY DEF IInv, ActInv, ActPlaces, KeysTaken, InviteMakesOneAccount
<1> QED
  BY <1>1, AccountsInvariant, PTL

\* A password change that has answered ok has cut the earlier logins.
THEOREM PasswordChangeCutsHolds == Spec => []PasswordChangeCuts
<1>1. IInv => PasswordChangeCuts
  BY DEF IInv, LoginInv, CutsBegun, PasswordChangeCuts
<1> QED
  BY <1>1, AccountsInvariant, PTL
=============================================================================
