SPECIFICATION Spec
CONSTANTS
  Auths = {a1}
  Takeovers = {t1, t2}
  Conns = {c1, c2}
  Inputs = {}
  NoLease = NoLease
  NoAuth = NoAuth
  DbFaults = FALSE
SYMMETRY Symmetry
INVARIANT TypeOK
INVARIANT ControlIsExclusive
INVARIANT TakeoverCutsOlderControl
INVARIANT StoppedMeansReleased
PROPERTY ImplementsExclusiveControl
