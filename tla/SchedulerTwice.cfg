SPECIFICATION Spec
CONSTANTS
  Users = {u1}
  Max = 1
  Faults = {}
  Ops = {o1}
  Viewers = {}
  Procs = {p1, p2}
  NoProc = NoProc
  LockBreaks = TRUE
  DbFaults = FALSE
  Stabilizes = FALSE
INVARIANTS NoDoubleExecution
CHECK_DEADLOCK FALSE
