SPECIFICATION Spec
CONSTANTS
  Auths = {a1}
  Takeovers = {t1}
  Conns = {c1}
  Inputs = {}
  NoLease = NoLease
  NoAuth = NoAuth
  DbFaults = FALSE
PROPERTY StoppedLeaseCannotRevive
