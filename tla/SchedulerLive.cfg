SPECIFICATION FairSpec
CONSTANTS
  Users = {u1}
  Max = 1
  Faults = {"kill"}
  Ops = {o1}
  Viewers = {u1}
  Procs = {p1}
  NoProc = NoProc
  LockBreaks = TRUE
  DbFaults = TRUE
  Stabilizes = TRUE
INVARIANT StoppedHasNoContainer
PROPERTIES OperationsFinish SessionsConverge IdleSessionStops
CHECK_DEADLOCK FALSE
