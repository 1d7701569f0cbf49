SPECIFICATION FairSpec
CONSTANTS
  Auths = {a1}
  Takeovers = {t1, t2}
  Conns = {c1}
  Inputs = {i1}
  NoLease = NoLease
  NoAuth = NoAuth
  DbFaults = FALSE
PROPERTY UnauthorizedStreamCloses
PROPERTY OldControllerRefused
