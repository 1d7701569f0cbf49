SPECIFICATION Spec
CONSTANTS
  Members = {m1}
  Acts = {a1, a2}
  Logins = {l1}
  Changes = {c1, c2}
  Invites = {i1, i2}
  Emails = {e1, e2, e3}
  NoUser = NoUser
  NoLogin = NoLogin
  NoEmail = NoEmail
  NoInvite = NoInvite
SYMMETRY Symmetry
CHECK_DEADLOCK FALSE
INVARIANT InviteMakesOneAccount
INVARIANT PasswordChangeCuts
