SPECIFICATION Spec
CONSTANTS
  Users = {u1}
  Max = 1
  Faults = {"inspect"}
  Ops = {o1, o2}
  Viewers = {}
  Procs = {p1}
  NoProc = NoProc
  LockBreaks = FALSE
  DbFaults = TRUE
  Stabilizes = FALSE
SYMMETRY Symmetry
INVARIANTS TypeOK CommandsInOrder DisableEndsSession
PROPERTY ImplementsBrowserCommands
CHECK_DEADLOCK FALSE
