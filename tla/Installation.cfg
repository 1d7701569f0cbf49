SPECIFICATION FairSpec
CONSTANTS
  Handlers = {h1, h2}
  Launchers = {l1}
  Dbs = {internal, external}
  Internal = internal
  Admins = {a1, a2}
  Passwords = {p1, p2}
  Tokens = {k1, k2}
  Existing = {{a1}}
  NoDb = NoDb
  NoAdmin = NoAdmin
  NoPassword = NoPassword
  NoToken = NoToken
  NoLauncher = NoLauncher
  MaxExtras = 1
INVARIANTS InstallTypeOK OneInstallation OnePassword CompleteIsWhole LinkIsAccepted
PROPERTIES CompleteIsFinal InstallationCompletes
CHECK_DEADLOCK FALSE
