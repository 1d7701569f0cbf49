SPECIFICATION RunnerSpec
CONSTANTS
  Users = {u1, u2}
  Reqs = {r1, r2}
  Max = 1
  Faults = {"inspect"}
SYMMETRY Symmetry
INVARIANTS RunningNeverExceedsMax
CHECK_DEADLOCK FALSE
