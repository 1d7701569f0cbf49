SPECIFICATION FairRunnerSpec
CONSTANTS
  Users = {u1, u2}
  Reqs = {r1, r2}
  Max = 1
  Faults = {"kill"}
INVARIANTS RunnerTypeOK CapacityKept CleanupSparesAnswered
PROPERTIES StoppedIsGone ImplementsContainerService EveryRequestAnswered
CHECK_DEADLOCK FALSE
